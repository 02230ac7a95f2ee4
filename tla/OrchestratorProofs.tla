------------------------- MODULE OrchestratorProofs -------------------------
(***************************************************************************)
(* Proofs about the build orchestrator, for every topology and every      *)
(* bound: the type invariant, and that no on-disk record ever loses its   *)
(* external identifier when a failed CREATE leaves nothing on disk.       *)
(***************************************************************************)
EXTENDS Orchestrator, TLAPS

\* Touch, with the fresh checksum the orchestrator stores first, keeps a
\* record well-formed.
LEMMA TouchType ==
    ASSUME NEW r \in Revision, NEW f \in Fingerprints
    PROVE  Touch([r EXCEPT !.checksum = f]) \in Revision
  BY DEF Revision, Touch, Checksums, RevStatuses

\* So does TouchWithID, whatever identifier the provider returns.
LEMMA TouchWithIDType ==
    ASSUME NEW r \in Revision, NEW f \in Fingerprints, NEW s \in ExternalIDs
    PROVE  TouchWithID([r EXCEPT !.checksum = f], s) \in Revision
  BY DEF Revision, Touch, TouchWithID, Checksums, RevStatuses

\* So does Taint, whose sentinel is one of the checksums.
LEMMA TaintType ==
    ASSUME NEW r \in Revision
    PROVE  Taint(r) \in Revision
  BY DEF Revision, Taint, Checksums, RevStatuses

\* A zero-valued Revision is well-formed.
LEMMA NewRevisionType == NewRevision \in Revision
  BY DEF Revision, NewRevision, Checksums, RevStatuses

\* A record saved FAILED is well-formed.
LEMMA FailedRevisionType ==
    ASSUME NEW r \in Revision
    PROVE  [r EXCEPT !.status = "FAILED"] \in Revision
  BY DEF Revision, RevStatuses

\* The classifier always answers one of the five verbs.
LEMMA ClassifyType ==
    ASSUME TypeOK, NEW n \in Nodes
    PROVE  Classify(n) \in Actions
  BY DEF Classify, Actions, RevMods

\* FailRecords keeps the store well-typed.
LEMMA FailRecordsType ==
    ASSUME TypeOK, NEW S \in SUBSET Nodes, FailRecords(S)
    PROVE  /\ onDisk' \subseteq Nodes
           /\ rec' \in [Nodes -> Revision]
  <1> DEFINE failedOnDisk == S \cap (IF CreateFailPersists THEN Nodes
                                                          ELSE onDisk)
  <1>1. onDisk' = onDisk \cup failedOnDisk
    BY DEF FailRecords
  <1>2. rec' = [m \in Nodes |->
                  IF m \in failedOnDisk
                  THEN [(IF m \in onDisk THEN rec[m] ELSE NewRevision)
                          EXCEPT !.status = "FAILED"]
                  ELSE rec[m]]
    BY DEF FailRecords
  <1>3. ASSUME NEW m \in Nodes
        PROVE  (IF m \in onDisk THEN rec[m] ELSE NewRevision) \in Revision
    BY NewRevisionType DEF TypeOK
  <1>4. ASSUME NEW m \in Nodes
        PROVE  [(IF m \in onDisk THEN rec[m] ELSE NewRevision)
                  EXCEPT !.status = "FAILED"] \in Revision
    BY <1>3, FailedRevisionType
  <1>5. QED
    BY <1>1, <1>2, <1>4 DEF TypeOK

\* An edit by the operator keeps the state well-typed when its new
\* topology and store are.
LEMMA EditType ==
    ASSUME TypeOK,
           NEW p \in SUBSET Nodes, NEW f \in [Nodes -> Fingerprints],
           NEW fo \in [Nodes -> BOOLEAN], NEW d \in SUBSET Nodes,
           NEW r \in [Nodes -> Revision],
           Edit(p, f, fo, d, r)
    PROVE  TypeOK'
  <1>1. edits' \in 0..MaxEdits
    BY BoundsAssumption DEF Edit, TypeOK
  <1>2. QED
    BY <1>1 DEF Edit, TypeOK

\* Init is well-typed.
LEMMA InitType == Init => TypeOK
    <2> SUFFICES ASSUME Init PROVE TypeOK
      OBVIOUS
    <2>1. rec \in [Nodes -> Revision]
      BY NewRevisionType DEF Init
    <2>2. passes \in 0..MaxPasses /\ edits \in 0..MaxEdits
      BY BoundsAssumption DEF Init
    <2>3. QED
      BY <2>1, <2>2 DEF Init, TypeOK, Phases, Actions

\* Every step keeps the state well-typed.
LEMMA StepType == TypeOK /\ [Next]_vars => TypeOK'
    <2> SUFFICES ASSUME TypeOK, [Next]_vars PROVE TypeOK'
      OBVIOUS
    <2> USE DEF TypeOK
    <2>1. CASE StartPass
      BY <2>1, BoundsAssumption DEF StartPass, Phases, Actions
    <2>2. ASSUME NEW n \in Nodes, ClassifyNode(n) PROVE TypeOK'
      BY <2>2, ClassifyType DEF ClassifyNode, Phases
    <2>3. ASSUME NEW n \in Nodes, Settle(n) PROVE TypeOK'
      BY <2>3 DEF Settle, Phases
    <2>4. ASSUME NEW n \in Nodes, SkipNode(n) PROVE TypeOK'
      BY <2>4 DEF SkipNode, Phases
    <2>5. ASSUME NEW n \in Nodes, BeginApply(n) PROVE TypeOK'
      BY <2>5 DEF BeginApply, Phases
    <2>6. ASSUME NEW n \in Nodes, CommitCreate(n) PROVE TypeOK'
      <3>1. PICK id \in ExternalIDs :
                rec' = [rec EXCEPT ![n] =
                          TouchWithID([NewRevision EXCEPT !.checksum = fp[n]],
                                      id)]
        BY <2>6 DEF CommitCreate
      <3>2. TouchWithID([NewRevision EXCEPT !.checksum = fp[n]], id)
              \in Revision
        BY NewRevisionType, TouchWithIDType
      <3>3. QED
        BY <2>6, <3>1, <3>2 DEF CommitCreate, Phases
    <2>7. ASSUME NEW n \in Nodes, CommitTouch(n) PROVE TypeOK'
      <3>1. Touch([rec[n] EXCEPT !.checksum = fp[n]]) \in Revision
        BY TouchType
      <3>2. QED
        BY <2>7, <3>1 DEF CommitTouch, Phases
    <2>8. ASSUME NEW n \in Nodes, CommitDelete(n) PROVE TypeOK'
      BY <2>8 DEF CommitDelete, Phases
    <2>9. ASSUME NEW n \in Nodes, ApplyFail(n) PROVE TypeOK'
      BY <2>9, FailRecordsType DEF ApplyFail, Phases
    <2>10. CASE EndPass
      BY <2>10 DEF EndPass
    <2>11. CASE Cancel
      <3> DEFINE applying == {n \in Nodes : phase[n] = "APPLYING"}
      <3>1. FailRecords(applying)
        BY <2>11 DEF Cancel
      <3>2. QED
        BY <2>11, <3>1, FailRecordsType DEF Cancel, Phases
    <2>12. CASE Crash
      BY <2>12 DEF Crash
    <2>13. ASSUME NEW n \in Nodes, NEW f \in Fingerprints, ChangeNode(n, f)
           PROVE TypeOK'
      BY <2>13, EditType DEF ChangeNode
    <2>14. ASSUME NEW n \in Nodes, NEW f \in Fingerprints, RestoreNode(n, f)
           PROVE TypeOK'
      BY <2>14, EditType DEF RestoreNode
    <2>15. ASSUME NEW n \in Nodes, PruneNode(n) PROVE TypeOK'
      BY <2>15, EditType DEF PruneNode
    <2>16. ASSUME NEW n \in Nodes, TaintNode(n) PROVE TypeOK'
      <3>1. [rec EXCEPT ![n] = Taint(rec[n])] \in [Nodes -> Revision]
        BY TaintType
      <3>2. QED
        BY <2>16, <3>1, EditType DEF TaintNode
    <2>17. ASSUME NEW n \in Nodes, NEW b \in BOOLEAN, SetForced(n, b)
           PROVE TypeOK'
      BY <2>17, EditType DEF SetForced
    <2>18. CASE UNCHANGED vars
      BY <2>18 DEF vars
    <2>19. QED
      BY <2>1, <2>2, <2>3, <2>4, <2>5, <2>6, <2>7, <2>8, <2>9, <2>10,
         <2>11, <2>12, <2>13, <2>14, <2>15, <2>16, <2>17, <2>18 DEF Next

\* The type invariant holds in every reachable state.
THEOREM TypeCorrect == Spec => []TypeOK
  BY InitType, StepType, PTL DEF Spec

-----------------------------------------------------------------------------
(* External identifiers.  When a failed CREATE leaves nothing on disk (the *)
(* lifecycle of spec.md section 3), a record reaches the disk only through *)
(* CommitCreate, which stamps the provider's identifier with TouchWithID;  *)
(* Touch, Taint and a FAILED save all leave ExternalID alone.  So every    *)
(* record on disk has an identifier, which is the inductive strengthening *)
(* of ActiveHasExternalID.                                                 *)

OnDiskHasID == \A n \in onDisk : rec[n].externalID # NoID

IDInv == TypeOK /\ OnDiskHasID

\* A FAILED save of records already on disk keeps their identifiers.
LEMMA FailRecordsKeepIDs ==
    ASSUME IDInv, ~CreateFailPersists, NEW S \in SUBSET Nodes, FailRecords(S)
    PROVE  OnDiskHasID'
  <1> DEFINE failedOnDisk == S \cap onDisk
  <1>1. onDisk' = onDisk
    BY DEF FailRecords
  <1>2. rec' = [m \in Nodes |->
                  IF m \in failedOnDisk
                  THEN [rec[m] EXCEPT !.status = "FAILED"]
                  ELSE rec[m]]
    BY DEF FailRecords
  <1>3. ASSUME NEW m \in onDisk PROVE rec'[m].externalID # NoID
    <2>1. rec[m] \in Revision /\ rec[m].externalID # NoID
      BY DEF IDInv, TypeOK, OnDiskHasID
    <2>2. QED
      BY <1>2, <2>1 DEF Revision, IDInv, TypeOK
  <1>4. QED
    BY <1>1, <1>3 DEF OnDiskHasID

\* Under the lifecycle reading, no ACTIVE record on disk lacks the
\* identifier of the resource that realizes it (spec.md section 3).
THEOREM ActiveHasExternalIDTheorem ==
    ASSUME ~CreateFailPersists
    PROVE  Spec => []ActiveHasExternalID
  <1>1. Init => IDInv
    BY InitType DEF IDInv, OnDiskHasID, Init
  <1>2. IDInv /\ [Next]_vars => IDInv'
    <2> SUFFICES ASSUME IDInv, [Next]_vars PROVE IDInv'
      OBVIOUS
    <2>0. TypeOK'
      BY StepType DEF IDInv
    <2> SUFFICES OnDiskHasID'
      BY <2>0 DEF IDInv
    <2> USE DEF IDInv, TypeOK
    <2>1. ASSUME NEW n \in Nodes, CommitCreate(n) PROVE OnDiskHasID'
      <3>1. PICK id \in ExternalIDs :
                rec' = [rec EXCEPT ![n] =
                          TouchWithID([NewRevision EXCEPT !.checksum = fp[n]],
                                      id)]
        BY <2>1 DEF CommitCreate
      <3>2. rec'[n].externalID = id
        BY <3>1 DEF TouchWithID, Touch, NewRevision
      <3>3. id # NoID
        BY ExternalIDsAssumption
      <3>4. QED
        BY <2>1, <3>1, <3>2, <3>3 DEF CommitCreate, OnDiskHasID
    <2>2. ASSUME NEW n \in Nodes, CommitTouch(n) PROVE OnDiskHasID'
      <3>1. rec[n] \in Revision
        OBVIOUS
      <3>2. Touch([rec[n] EXCEPT !.checksum = fp[n]]).externalID
              = rec[n].externalID
        BY <3>1 DEF Touch, Revision
      <3>3. QED
        BY <2>2, <3>2 DEF CommitTouch, OnDiskHasID
    <2>3. ASSUME NEW n \in Nodes, CommitDelete(n) PROVE OnDiskHasID'
      BY <2>3 DEF CommitDelete, OnDiskHasID
    <2>4. ASSUME NEW n \in Nodes, ApplyFail(n) PROVE OnDiskHasID'
      BY <2>4, FailRecordsKeepIDs DEF ApplyFail
    <2>5. CASE Cancel
      <3> DEFINE applying == {n \in Nodes : phase[n] = "APPLYING"}
      <3>1. FailRecords(applying)
        BY <2>5 DEF Cancel
      <3>2. QED
        BY <3>1, FailRecordsKeepIDs
    <2>6. ASSUME NEW n \in Nodes, TaintNode(n) PROVE OnDiskHasID'
      <3>1. rec[n] \in Revision
        OBVIOUS
      <3>2. Taint(rec[n]).externalID = rec[n].externalID
        BY <3>1 DEF Taint, Revision
      <3>3. QED
        BY <2>6, <3>2 DEF TaintNode, Edit, OnDiskHasID
    <2>7. CASE UNCHANGED <<onDisk, rec>>
      BY <2>7 DEF OnDiskHasID
    <2>8. QED
      <3>1. ASSUME NEW n \in Nodes,
                   \/ ClassifyNode(n) \/ Settle(n) \/ SkipNode(n)
                   \/ BeginApply(n)
            PROVE  UNCHANGED <<onDisk, rec>>
        BY <3>1 DEF ClassifyNode, Settle, SkipNode, BeginApply
      <3>2. ASSUME NEW n \in Nodes,
                   \/ \E f \in Fingerprints : ChangeNode(n, f)
                   \/ \E f \in Fingerprints : RestoreNode(n, f)
                   \/ PruneNode(n) \/ \E b \in BOOLEAN : SetForced(n, b)
            PROVE  UNCHANGED <<onDisk, rec>>
        BY <3>2 DEF ChangeNode, RestoreNode, PruneNode, SetForced, Edit
      <3>3. StartPass \/ EndPass \/ Crash \/ UNCHANGED vars
              => UNCHANGED <<onDisk, rec>>
        BY DEF StartPass, EndPass, Crash, vars
      <3>4. QED
        BY <2>1, <2>2, <2>3, <2>4, <2>5, <2>6, <2>7, <3>1, <3>2, <3>3
           DEF Next
  <1>3. IDInv => ActiveHasExternalID
    BY DEF IDInv, OnDiskHasID, ActiveHasExternalID
  <1>4. QED
    BY <1>1, <1>2, <1>3, PTL DEF Spec

-----------------------------------------------------------------------------
(* Dependency ordering.  ParentBeforeChild is inductive once the state is *)
(* typed: a node's phase only moves forward within a pass (StartPass sends *)
(* every node back to PENDING at once), so a parent that has COMMITTED     *)
(* stays COMMITTED while its child applies, fails or commits; and a child  *)
(* reaches APPLYING only through BeginApply, which waits for exactly that. *)

PBCInv == TypeOK /\ ParentBeforeChild

\* A step that changes neither phase nor action keeps the ordering.
LEMMA PhaseActionUnchanged ==
    ASSUME ParentBeforeChild, UNCHANGED <<phase, action>>
    PROVE  ParentBeforeChild'
  BY DEF ParentBeforeChild

\* Every step keeps the ordering.
LEMMA StepPBC == PBCInv /\ [Next]_vars => PBCInv'
  <1> SUFFICES ASSUME PBCInv, [Next]_vars PROVE PBCInv'
    OBVIOUS
  <1>0. TypeOK'
    BY StepType DEF PBCInv
  <1> SUFFICES ParentBeforeChild'
    BY <1>0 DEF PBCInv
  <1> USE DEF PBCInv, TypeOK
  <1>1. CASE StartPass
    BY <1>1 DEF StartPass, ParentBeforeChild
  <1>2. ASSUME NEW n \in Nodes, ClassifyNode(n) PROVE ParentBeforeChild'
    BY <1>2, TopologyAssumption DEF ClassifyNode, ParentBeforeChild
  <1>3. ASSUME NEW n \in Nodes, Settle(n) PROVE ParentBeforeChild'
    BY <1>3, TopologyAssumption DEF Settle, ParentBeforeChild
  <1>4. ASSUME NEW n \in Nodes, SkipNode(n) PROVE ParentBeforeChild'
    BY <1>4, TopologyAssumption DEF SkipNode, ParentBeforeChild
  <1>5. ASSUME NEW n \in Nodes, BeginApply(n) PROVE ParentBeforeChild'
    BY <1>5, TopologyAssumption DEF BeginApply, ParentIn, ParentBeforeChild
  <1>6. ASSUME NEW n \in Nodes,
               CommitCreate(n) \/ CommitTouch(n) \/ CommitDelete(n)
        PROVE  ParentBeforeChild'
    <2>1. phase[n] = "APPLYING" /\ phase' = [phase EXCEPT ![n] = "COMMITTED"]
            /\ action' = action
      BY <1>6 DEF CommitCreate, CommitTouch, CommitDelete
    <2>2. QED
      BY <2>1, TopologyAssumption DEF ParentBeforeChild
  <1>7. ASSUME NEW n \in Nodes, ApplyFail(n) PROVE ParentBeforeChild'
    BY <1>7, TopologyAssumption DEF ApplyFail, ParentBeforeChild
  <1>8. CASE Cancel
    BY <1>8, TopologyAssumption DEF Cancel, ParentBeforeChild
  <1>9. CASE EndPass \/ Crash \/ UNCHANGED vars
    BY <1>9, PhaseActionUnchanged DEF EndPass, Crash, vars
  <1>10. ASSUME NEW n \in Nodes,
                \/ \E f \in Fingerprints : ChangeNode(n, f)
                \/ \E f \in Fingerprints : RestoreNode(n, f)
                \/ PruneNode(n) \/ TaintNode(n)
                \/ \E b \in BOOLEAN : SetForced(n, b)
         PROVE  ParentBeforeChild'
    <2>1. UNCHANGED <<phase, action>>
      BY <1>10 DEF ChangeNode, RestoreNode, PruneNode, TaintNode,
                   SetForced, Edit
    <2>2. QED
      BY <2>1, PhaseActionUnchanged
  <1>11. QED
    BY <1>1, <1>2, <1>3, <1>4, <1>5, <1>6, <1>7, <1>8, <1>9, <1>10
       DEF Next

\* Dependency ordering (spec.md 4.4): in every reachable state, a node
\* that the orchestrator hands to the collaborator, or that the
\* collaborator committed or failed, has a parent that committed in the
\* same pass; Cancel, a crash and operator edits never break this.
THEOREM ParentBeforeChildTheorem == Spec => []ParentBeforeChild
  <1>1. Init => PBCInv
    BY InitType DEF Init, PBCInv, ParentBeforeChild
  <1>2. QED
    BY <1>1, StepPBC, PTL DEF Spec, PBCInv

-----------------------------------------------------------------------------
(* Idempotence.  A node is settled when the store already agrees with the *)
(* topology: it has no record and is not wanted, or it is wanted, has a    *)
(* record that is neither FAILED nor tainted, and that record carries its  *)
(* fingerprint.                                                            *)
(* The strengthening (checked by TLC before it was proved) says, per node: *)
(*   - the verb of a classified or applying node is what Classify answers  *)
(*     now (nothing the node's verdict reads changes during its pass,      *)
(*     since the operator edits only between passes);                     *)
(*   - a node committed in the running pass is settled;                    *)
(*   - in a pass that follows a clean one, a node still PENDING is         *)
(*     settled, and a node past PENDING and not forced got NONE;           *)
(*   - a node that is applying, failed or skipped got a verb other than    *)
(*     NONE (only such nodes reach BeginApply or SkipNode);                *)
(* and that a clean pass leaves every node committed and settled.         *)

Settled(n) ==
    \/ n \notin onDisk /\ n \notin present
    \/ /\ n \in onDisk /\ n \in present
       /\ rec[n].status \notin {"FAILED", "STALE"} /\ rec[n].checksum = fp[n]

NodeInv(n) ==
    /\ inPass /\ phase[n] \in {"CLASSIFIED", "APPLYING"}
           => action[n] = Classify(n)
    /\ inPass /\ phase[n] = "COMMITTED" => Settled(n)
    /\ inPass /\ lastClean /\ phase[n] = "PENDING" => Settled(n)
    /\ inPass /\ lastClean /\ phase[n] # "PENDING" /\ ~forced[n]
           => action[n] = "NONE"
    /\ inPass /\ phase[n] \in {"APPLYING", "FAILED", "SKIPPED"}
           => action[n] # "NONE"

CleanSettled ==
    lastClean /\ ~inPass => \A n \in Nodes : phase[n] = "COMMITTED" /\ Settled(n)

IdemInv == TypeOK /\ (\A n \in Nodes : NodeInv(n)) /\ CleanSettled

\* What a step leaves of node n's part of the store and the topology.
NodeUnchanged(n) ==
    /\ (n \in onDisk') <=> (n \in onDisk)
    /\ (n \in present') <=> (n \in present)
    /\ forced'[n] = forced[n]
    /\ rec'[n] = rec[n]
    /\ fp'[n] = fp[n]

\* The classifier reads only the node's own entries.
LEMMA ClassifyLocal ==
    ASSUME NEW n, NodeUnchanged(n)
    PROVE  /\ Classify(n)' = Classify(n)
           /\ Settled(n)' <=> Settled(n)
  BY DEF NodeUnchanged, Classify, Settled

\* What each verdict of the classifier tells about the node.
LEMMA ClassifyFacts ==
    ASSUME TypeOK, NEW n \in Nodes
    PROVE  /\ Classify(n) = "NONE" => Settled(n)
           /\ Classify(n) = "CREATE" => n \notin onDisk /\ n \in present
           /\ Classify(n) \in {"TOUCH", "REBUILD"} => n \in onDisk /\ n \in present
           /\ Classify(n) = "DELETE" => n \in onDisk /\ n \notin present
           /\ Settled(n) /\ ~forced[n] => Classify(n) = "NONE"
  BY DEF Classify, Settled

\* A node whose own entries, phase and verb a step leaves alone keeps its
\* part of the strengthening.
LEMMA NodeInvFrame ==
    ASSUME NEW n, NodeInv(n), NodeUnchanged(n),
           phase'[n] = phase[n], action'[n] = action[n],
           inPass' = inPass, lastClean' = lastClean
    PROVE  NodeInv(n)'
  BY ClassifyLocal DEF NodeInv, NodeUnchanged

\* A FAILED save of the nodes S leaves every other node's record alone.
LEMMA FailRecordsLocal ==
    ASSUME TypeOK, NEW S \in SUBSET Nodes, FailRecords(S),
           NEW m \in Nodes \ S,
           present' = present, forced' = forced, fp' = fp
    PROVE  NodeUnchanged(m)
  BY DEF FailRecords, NodeUnchanged, TypeOK

\* Every step keeps the strengthening.
LEMMA StepIdem == IdemInv /\ [Next]_vars => IdemInv'
  <1> SUFFICES ASSUME IdemInv, [Next]_vars PROVE IdemInv'
    OBVIOUS
  <1>0. TypeOK'
    BY StepType DEF IdemInv
  <1> SUFFICES /\ \A m \in Nodes : NodeInv(m)'
               /\ CleanSettled'
    BY <1>0 DEF IdemInv
  <1> USE DEF IdemInv
  <1>1. ASSUME NEW n \in Nodes, ClassifyNode(n)
        PROVE  \A m \in Nodes : NodeInv(m)'
    <2>1. ASSUME NEW m \in Nodes, m # n PROVE NodeInv(m)'
      BY <1>1, <2>1, NodeInvFrame DEF ClassifyNode, NodeUnchanged, TypeOK
    <2>2. NodeUnchanged(n)
      BY <1>1 DEF ClassifyNode, NodeUnchanged
    <2>3. lastClean /\ ~forced[n] => Classify(n) = "NONE"
      BY <1>1, ClassifyFacts DEF ClassifyNode, NodeInv
    <2>4. NodeInv(n)'
      BY <1>1, <2>2, <2>3, ClassifyLocal DEF ClassifyNode, NodeInv, TypeOK
    <2>5. QED
      BY <2>1, <2>4
  <1>2. ASSUME NEW n \in Nodes, Settle(n) PROVE \A m \in Nodes : NodeInv(m)'
    <2>1. ASSUME NEW m \in Nodes, m # n PROVE NodeInv(m)'
      BY <1>2, <2>1, NodeInvFrame DEF Settle, NodeUnchanged, TypeOK
    <2>2. NodeUnchanged(n)
      BY <1>2 DEF Settle, NodeUnchanged
    <2>3. Settled(n)
      BY <1>2, ClassifyFacts DEF Settle, NodeInv
    <2>4. NodeInv(n)'
      BY <1>2, <2>2, <2>3, ClassifyLocal DEF Settle, NodeInv, TypeOK
    <2>5. QED
      BY <2>1, <2>4
  <1>3. ASSUME NEW n \in Nodes, SkipNode(n) PROVE \A m \in Nodes : NodeInv(m)'
    <2>1. ASSUME NEW m \in Nodes, m # n PROVE NodeInv(m)'
      BY <1>3, <2>1, NodeInvFrame DEF SkipNode, NodeUnchanged, TypeOK
    <2>2. NodeInv(n)'
      BY <1>3 DEF SkipNode, NodeInv, TypeOK
    <2>3. QED
      BY <2>1, <2>2
  <1>4. ASSUME NEW n \in Nodes, BeginApply(n)
        PROVE  \A m \in Nodes : NodeInv(m)'
    <2>1. ASSUME NEW m \in Nodes, m # n PROVE NodeInv(m)'
      BY <1>4, <2>1, NodeInvFrame DEF BeginApply, NodeUnchanged, TypeOK
    <2>2. NodeUnchanged(n)
      BY <1>4 DEF BeginApply, NodeUnchanged
    <2>3. NodeInv(n)'
      BY <1>4, <2>2, ClassifyLocal DEF BeginApply, NodeInv, TypeOK
    <2>4. QED
      BY <2>1, <2>3
  <1>5. ASSUME NEW n \in Nodes, CommitCreate(n)
        PROVE  \A m \in Nodes : NodeInv(m)'
    <2>1. PICK id \in ExternalIDs :
              rec' = [rec EXCEPT ![n] =
                        TouchWithID([NewRevision EXCEPT !.checksum = fp[n]], id)]
      BY <1>5 DEF CommitCreate
    <2>2. ASSUME NEW m \in Nodes, m # n PROVE NodeInv(m)'
      BY <1>5, <2>1, <2>2, NodeInvFrame DEF CommitCreate, NodeUnchanged, TypeOK
    <2>3. n \notin onDisk /\ n \in present
      BY <1>5, ClassifyFacts DEF CommitCreate, NodeInv
    <2>4. rec'[n].status = "ACTIVE" /\ rec'[n].checksum = fp[n]
      BY <2>1 DEF TouchWithID, Touch, NewRevision, TypeOK
    <2>5. Settled(n)'
      BY <1>5, <2>3, <2>4 DEF CommitCreate, Settled
    <2>6. NodeInv(n)'
      BY <1>5, <2>5 DEF CommitCreate, NodeInv, TypeOK
    <2>7. QED
      BY <2>2, <2>6
  <1>6. ASSUME NEW n \in Nodes, CommitTouch(n)
        PROVE  \A m \in Nodes : NodeInv(m)'
    <2>1. ASSUME NEW m \in Nodes, m # n PROVE NodeInv(m)'
      BY <1>6, <2>1, NodeInvFrame DEF CommitTouch, NodeUnchanged, TypeOK
    <2>2. n \in onDisk /\ n \in present
      BY <1>6, ClassifyFacts DEF CommitTouch, NodeInv
    <2>3. rec'[n].status = "ACTIVE" /\ rec'[n].checksum = fp[n]
      BY <1>6 DEF CommitTouch, Touch, TypeOK, Revision
    <2>4. Settled(n)'
      BY <1>6, <2>2, <2>3 DEF CommitTouch, Settled
    <2>5. NodeInv(n)'
      BY <1>6, <2>4 DEF CommitTouch, NodeInv, TypeOK
    <2>6. QED
      BY <2>1, <2>5
  <1>7. ASSUME NEW n \in Nodes, CommitDelete(n)
        PROVE  \A m \in Nodes : NodeInv(m)'
    <2>1. ASSUME NEW m \in Nodes, m # n PROVE NodeInv(m)'
      BY <1>7, <2>1, NodeInvFrame DEF CommitDelete, NodeUnchanged, TypeOK
    <2>2. n \notin present
      BY <1>7, ClassifyFacts DEF CommitDelete, NodeInv
    <2>3. Settled(n)'
      BY <1>7, <2>2 DEF CommitDelete, Settled
    <2>4. NodeInv(n)'
      BY <1>7, <2>3 DEF CommitDelete, NodeInv, TypeOK
    <2>5. QED
      BY <2>1, <2>4
  <1>8. ASSUME NEW n \in Nodes, ApplyFail(n)
        PROVE  \A m \in Nodes : NodeInv(m)'
    <2>1. ASSUME NEW m \in Nodes, m # n PROVE NodeInv(m)'
      <3>1. NodeUnchanged(m)
        BY <1>8, <2>1, FailRecordsLocal DEF ApplyFail, IdemInv
      <3>2. QED
        BY <1>8, <2>1, <3>1, NodeInvFrame DEF ApplyFail, TypeOK
    <2>2. NodeInv(n)'
      BY <1>8 DEF ApplyFail, NodeInv, TypeOK
    <2>3. QED
      BY <2>1, <2>2
  <1>9. ASSUME NEW n \in Nodes,
               \/ ClassifyNode(n) \/ Settle(n) \/ SkipNode(n) \/ BeginApply(n)
               \/ CommitCreate(n) \/ CommitTouch(n) \/ CommitDelete(n)
               \/ ApplyFail(n)
        PROVE  CleanSettled'
    BY <1>9 DEF ClassifyNode, Settle, SkipNode, BeginApply, CommitCreate,
               CommitTouch, CommitDelete, ApplyFail, CleanSettled
  <1>10. CASE StartPass
    <2>1. ASSUME NEW m \in Nodes PROVE NodeInv(m)'
      <3>1. NodeUnchanged(m)
        BY <1>10 DEF StartPass, NodeUnchanged
      <3>2. lastClean => Settled(m)
        BY <1>10 DEF StartPass, CleanSettled
      <3>3. QED
        BY <1>10, <3>1, <3>2, ClassifyLocal DEF StartPass, NodeInv
    <2>2. QED
      BY <1>10, <2>1 DEF StartPass, CleanSettled
  <1>11. CASE EndPass
    <2>1. ASSUME NEW m \in Nodes PROVE Settled(m)' <=> Settled(m)
      BY <1>11, ClassifyLocal DEF EndPass, NodeUnchanged
    <2>2. QED
      BY <1>11, <2>1 DEF EndPass, NodeInv, CleanSettled
  <1>12. CASE Cancel \/ Crash
    BY <1>12 DEF Cancel, Crash, NodeInv, CleanSettled
  <1>13. ASSUME NEW n \in Nodes,
                \/ \E f \in Fingerprints : ChangeNode(n, f)
                \/ \E f \in Fingerprints : RestoreNode(n, f)
                \/ PruneNode(n) \/ TaintNode(n)
                \/ \E b \in BOOLEAN : SetForced(n, b)
         PROVE  (\A m \in Nodes : NodeInv(m)') /\ CleanSettled'
    <2>1. ~inPass' /\ ~lastClean'
      BY <1>13 DEF ChangeNode, RestoreNode, PruneNode, TaintNode,
                   SetForced, Edit
    <2>2. QED
      BY <2>1 DEF NodeInv, CleanSettled
  <1>14. CASE UNCHANGED vars
    <2>1. ASSUME NEW m \in Nodes PROVE NodeInv(m)'
      BY <1>14, NodeInvFrame DEF vars, NodeUnchanged
    <2>2. ASSUME NEW m \in Nodes PROVE Settled(m)' <=> Settled(m)
      BY <1>14, ClassifyLocal DEF vars, NodeUnchanged
    <2>3. QED
      BY <1>14, <2>1, <2>2 DEF vars, CleanSettled
  <1>15. QED
    BY <1>1, <1>2, <1>3, <1>4, <1>5, <1>6, <1>7, <1>8, <1>9, <1>10, <1>11,
       <1>12, <1>13, <1>14 DEF Next

\* Idempotence (spec.md 8): in every reachable state, a pass that follows
\* a pass in which every node committed, with no edit, taint, cancel or
\* crash between them, classifies every node that is not flagged for a
\* rebuild as NONE: the first pass left no record missing, stale, FAILED
\* or orphaned.
THEOREM IdempotenceTheorem == Spec => []Idempotence
  <1>1. Init => IdemInv
    BY InitType DEF Init, IdemInv, NodeInv, CleanSettled
  <1>2. IdemInv => Idempotence
    BY DEF IdemInv, NodeInv, Idempotence
  <1>3. QED
    BY <1>1, <1>2, StepIdem, PTL DEF Spec

\* Taint round-trip (spec.md 8): in every reachable state, no node whose
\* record on disk is the tainted one (status STALE, written only by Taint)
\* has been classified NONE in the running pass, for every fingerprint set,
\* including one that holds the sentinel checksum 666.  A classified or
\* applying node's verb is Classify's current answer, which is never NONE
\* for a tainted record; a committed node is settled, hence not tainted;
\* an applying, failed or skipped node has a verb other than NONE.
THEOREM TaintRoundTripTheorem == Spec => []TaintRoundTrip
  <1>1. Init => IdemInv
    BY InitType DEF Init, IdemInv, NodeInv, CleanSettled
  <1>2. IdemInv => TaintRoundTrip
    <2> SUFFICES ASSUME IdemInv, NEW n \in Nodes, inPass,
                        phase[n] # "PENDING", n \in onDisk,
                        rec[n].status = "STALE"
                 PROVE  action[n] # "NONE"
      BY DEF TaintRoundTrip
    <2>1. ~Settled(n)
      BY DEF Settled
    <2>2. Classify(n) # "NONE"
      BY <2>1, ClassifyFacts DEF IdemInv
    <2>3. QED
      BY <2>1, <2>2 DEF IdemInv, NodeInv, TypeOK, Phases
  <1>3. QED
    BY <1>1, <1>2, StepIdem, PTL DEF Spec

=============================================================================
