---------------------------- MODULE Orchestrator ----------------------------
(***************************************************************************)
(* The build orchestrator and classifier of laforge: repeated build       *)
(* passes over a topology tree that decide, per node, what the revision   *)
(* store and the desired definition require (CREATE, TOUCH, DELETE,       *)
(* REBUILD or NONE), apply the changes parents first through a            *)
(* provisioning collaborator, and commit the outcome to the store.        *)
(*                                                                         *)
(* Between passes the operator edits the topology (changes, removes or    *)
(* adds a node, flags one for rebuild) or taints a record.  A pass may be *)
(* cancelled, and the process may crash at any point; records are saved  *)
(* atomically, so a crash loses only the in-memory pass state.            *)
(*                                                                         *)
(* The orchestrator and the classifier are not part of src/: they are     *)
(* written from spec.md sections 4.3 and 4.4.  The record and its         *)
(* mutators come from src/core/revision.go through module Revision.       *)
(***************************************************************************)
EXTENDS Revision

CONSTANTS
    Nodes,              \* the nodes of the topology
    Root,               \* the Environment node
    Parent,             \* Parent[n]: the node that owns n (n # Root)
    MaxPasses,          \* bound on the number of build passes
    MaxEdits,           \* bound on the number of topology edits
    CreateFailPersists  \* does a failed CREATE persist a FAILED record?

ASSUME TopologyAssumption ==
    /\ Root \in Nodes
    /\ Parent \in [Nodes \ {Root} -> Nodes]

ASSUME BoundsAssumption ==
    /\ MaxPasses \in Nat
    /\ MaxEdits \in Nat
    /\ CreateFailPersists \in BOOLEAN

VARIABLES
    present,    \* the nodes of the desired topology
    fp,         \* fp[n]: fingerprint of n's current definition
    forced,     \* forced[n]: n is flagged for a mandatory rebuild
    onDisk,     \* the nodes that have a revision file
    rec,        \* rec[n]: the content of n's revision file
    inPass,     \* a build pass is running
    phase,      \* phase[n]: where n is in the current pass
    action,     \* action[n]: what the classifier decided for n
    passes,     \* number of passes started
    edits,      \* number of topology edits made
    lastClean   \* the last pass completed with no FAILED or SKIPPED node

vars == <<present, fp, forced, onDisk, rec, inPass, phase, action,
          passes, edits, lastClean>>

Phases == {"PENDING", "CLASSIFIED", "APPLYING", "COMMITTED", "FAILED",
           "SKIPPED"}

\* Phases a node does not leave until the next pass.
Finished == {"COMMITTED", "FAILED", "SKIPPED"}

Actions == RevMods \cup {"NONE"}

TypeOK ==
    /\ present \subseteq Nodes
    /\ fp \in [Nodes -> Fingerprints]
    /\ forced \in [Nodes -> BOOLEAN]
    /\ onDisk \subseteq Nodes
    /\ rec \in [Nodes -> Revision]
    /\ inPass \in BOOLEAN
    /\ phase \in [Nodes -> Phases]
    /\ action \in [Nodes -> Actions]
    /\ passes \in 0..MaxPasses
    /\ edits \in 0..MaxEdits
    /\ lastClean \in BOOLEAN

-----------------------------------------------------------------------------
(* The classifier: the decision table of spec.md section 4.3.  A tainted  *)
(* record (status STALE, which only Taint writes) is flagged by its status *)
(* and never yields NONE, whatever its checksum (spec.md 4.3 and 9).       *)

\* Mutant: the taint is recognised by the checksum comparison alone, so a
\* fingerprint that equals the sentinel 666 makes a tainted record NONE.
ClassifyChecksumOnly(n) ==
    CASE n \notin onDisk /\ n \notin present -> "NONE"
      [] n \notin onDisk /\ n \in present -> "CREATE"
      [] n \in onDisk /\ n \notin present -> "DELETE"
      [] n \in onDisk /\ n \in present /\ forced[n] -> "REBUILD"
      [] n \in onDisk /\ n \in present /\ ~forced[n]
            /\ rec[n].status = "FAILED" -> "TOUCH"
      [] n \in onDisk /\ n \in present /\ ~forced[n]
            /\ rec[n].status # "FAILED" /\ rec[n].checksum = fp[n] -> "NONE"
      [] n \in onDisk /\ n \in present /\ ~forced[n]
            /\ rec[n].status # "FAILED" /\ rec[n].checksum # fp[n] -> "TOUCH"

Classify(n) ==
    CASE n \notin onDisk /\ n \notin present -> "NONE"
      [] n \notin onDisk /\ n \in present -> "CREATE"
      [] n \in onDisk /\ n \notin present -> "DELETE"
      [] n \in onDisk /\ n \in present /\ forced[n] -> "REBUILD"
      [] n \in onDisk /\ n \in present /\ ~forced[n]
            /\ rec[n].status \in {"FAILED", "STALE"} -> "TOUCH"
      [] n \in onDisk /\ n \in present /\ ~forced[n]
            /\ rec[n].status \notin {"FAILED", "STALE"}
            /\ rec[n].checksum = fp[n] -> "NONE"
      [] n \in onDisk /\ n \in present /\ ~forced[n]
            /\ rec[n].status \notin {"FAILED", "STALE"}
            /\ rec[n].checksum # fp[n] -> "TOUCH"

\* The parent of n is in one of the phases S (the root has no parent).
ParentIn(n, S) == IF n = Root THEN TRUE ELSE phase[Parent[n]] \in S

\* The records the store holds after the apply of the nodes S fails or is
\* cancelled: status FAILED, checksum left at its prior value.  A node
\* that had no record gets one only if CreateFailPersists.
FailRecords(S) ==
    LET failedOnDisk == S \cap (IF CreateFailPersists THEN Nodes ELSE onDisk)
    IN  /\ onDisk' = onDisk \cup failedOnDisk
        /\ rec' = [m \in Nodes |->
                     IF m \in failedOnDisk
                     THEN [(IF m \in onDisk THEN rec[m] ELSE NewRevision)
                             EXCEPT !.status = "FAILED"]
                     ELSE rec[m]]

-----------------------------------------------------------------------------
(* A build pass.                                                           *)

Init ==
    /\ present = Nodes
    /\ fp \in [Nodes -> Fingerprints]
    /\ forced = [n \in Nodes |-> FALSE]
    /\ onDisk = {}
    /\ rec = [n \in Nodes |-> NewRevision]
    /\ inPass = FALSE
    /\ phase = [n \in Nodes |-> "PENDING"]
    /\ action = [n \in Nodes |-> "NONE"]
    /\ passes = 0
    /\ edits = 0
    /\ lastClean = FALSE

StartPass ==
    /\ ~inPass
    /\ passes < MaxPasses
    /\ inPass' = TRUE
    /\ passes' = passes + 1
    /\ phase' = [n \in Nodes |-> "PENDING"]
    /\ action' = [n \in Nodes |-> "NONE"]
    /\ UNCHANGED <<present, fp, forced, onDisk, rec, edits, lastClean>>

\* Classify n once its parent is done with this pass.
ClassifyNode(n) ==
    /\ inPass
    /\ phase[n] = "PENDING"
    /\ ParentIn(n, Finished)
    /\ action' = [action EXCEPT ![n] = Classify(n)]
    /\ phase' = [phase EXCEPT ![n] = "CLASSIFIED"]
    /\ UNCHANGED <<present, fp, forced, onDisk, rec, inPass, passes, edits,
                   lastClean>>

\* NONE: no collaborator call, record untouched.
Settle(n) ==
    /\ inPass
    /\ phase[n] = "CLASSIFIED"
    /\ action[n] = "NONE"
    /\ phase' = [phase EXCEPT ![n] = "COMMITTED"]
    /\ UNCHANGED <<present, fp, forced, onDisk, rec, inPass, action, passes,
                   edits, lastClean>>

\* Mutant: only the children of a FAILED parent are skipped.
SkipNodeFailedParentOnly(n) ==
    /\ inPass
    /\ phase[n] = "CLASSIFIED"
    /\ action[n] # "NONE"
    /\ n # Root
    /\ phase[Parent[n]] = "FAILED"
    /\ phase' = [phase EXCEPT ![n] = "SKIPPED"]
    /\ UNCHANGED <<present, fp, forced, onDisk, rec, inPass, action, passes,
                   edits, lastClean>>

\* A node whose parent did not commit is not built on: it is SKIPPED.
SkipNode(n) ==
    /\ inPass
    /\ phase[n] = "CLASSIFIED"
    /\ action[n] # "NONE"
    /\ n # Root
    /\ phase[Parent[n]] \in {"FAILED", "SKIPPED"}
    /\ phase' = [phase EXCEPT ![n] = "SKIPPED"]
    /\ UNCHANGED <<present, fp, forced, onDisk, rec, inPass, action, passes,
                   edits, lastClean>>

\* Mutant: a child is applied once its parent is finished, not committed.
BeginApplyParentFinished(n) ==
    /\ inPass
    /\ phase[n] = "CLASSIFIED"
    /\ action[n] # "NONE"
    /\ ParentIn(n, Finished)
    /\ phase' = [phase EXCEPT ![n] = "APPLYING"]
    /\ UNCHANGED <<present, fp, forced, onDisk, rec, inPass, action, passes,
                   edits, lastClean>>

\* Hand n to the collaborator (Apply, or Destroy for DELETE).
BeginApply(n) ==
    /\ inPass
    /\ phase[n] = "CLASSIFIED"
    /\ action[n] # "NONE"
    /\ ParentIn(n, {"COMMITTED"})
    /\ phase' = [phase EXCEPT ![n] = "APPLYING"]
    /\ UNCHANGED <<present, fp, forced, onDisk, rec, inPass, action, passes,
                   edits, lastClean>>

\* Mutant: a created resource is committed with Touch, not TouchWithID.
CommitCreateNoID(n) ==
    /\ inPass
    /\ phase[n] = "APPLYING"
    /\ action[n] = "CREATE"
    /\ rec' = [rec EXCEPT ![n] = Touch([NewRevision EXCEPT !.checksum = fp[n]])]
    /\ onDisk' = onDisk \cup {n}
    /\ phase' = [phase EXCEPT ![n] = "COMMITTED"]
    /\ UNCHANGED <<present, fp, forced, inPass, action, passes, edits,
                   lastClean>>

\* The collaborator created the resource: TouchWithID and save.
CommitCreate(n) ==
    /\ inPass
    /\ phase[n] = "APPLYING"
    /\ action[n] = "CREATE"
    /\ \E id \in ExternalIDs :
          rec' = [rec EXCEPT ![n] =
                    TouchWithID([NewRevision EXCEPT !.checksum = fp[n]], id)]
    /\ onDisk' = onDisk \cup {n}
    /\ phase' = [phase EXCEPT ![n] = "COMMITTED"]
    /\ UNCHANGED <<present, fp, forced, inPass, action, passes, edits,
                   lastClean>>

\* Mutant: a touched record keeps its old checksum.
CommitTouchStaleChecksum(n) ==
    /\ inPass
    /\ phase[n] = "APPLYING"
    /\ action[n] \in {"TOUCH", "REBUILD"}
    /\ rec' = [rec EXCEPT ![n] = Touch(rec[n])]
    /\ phase' = [phase EXCEPT ![n] = "COMMITTED"]
    /\ UNCHANGED <<present, fp, forced, onDisk, inPass, action, passes, edits,
                   lastClean>>

\* The collaborator updated or rebuilt the resource: fresh checksum, Touch.
CommitTouch(n) ==
    /\ inPass
    /\ phase[n] = "APPLYING"
    /\ action[n] \in {"TOUCH", "REBUILD"}
    /\ rec' = [rec EXCEPT ![n] = Touch([rec[n] EXCEPT !.checksum = fp[n]])]
    /\ phase' = [phase EXCEPT ![n] = "COMMITTED"]
    /\ UNCHANGED <<present, fp, forced, onDisk, inPass, action, passes, edits,
                   lastClean>>

\* The collaborator destroyed the resource: the record is removed.
CommitDelete(n) ==
    /\ inPass
    /\ phase[n] = "APPLYING"
    /\ action[n] = "DELETE"
    /\ onDisk' = onDisk \ {n}
    /\ phase' = [phase EXCEPT ![n] = "COMMITTED"]
    /\ UNCHANGED <<present, fp, forced, rec, inPass, action, passes, edits,
                   lastClean>>

\* The collaborator failed: the record is saved FAILED.
ApplyFail(n) ==
    /\ inPass
    /\ phase[n] = "APPLYING"
    /\ FailRecords({n})
    /\ phase' = [phase EXCEPT ![n] = "FAILED"]
    /\ UNCHANGED <<present, fp, forced, inPass, action, passes, edits,
                   lastClean>>

EndPass ==
    /\ inPass
    /\ \A n \in Nodes : phase[n] \in Finished
    /\ inPass' = FALSE
    /\ lastClean' = \A n \in Nodes : phase[n] = "COMMITTED"
    /\ UNCHANGED <<present, fp, forced, onDisk, rec, phase, action, passes,
                   edits>>

\* External interruption: the nodes mid-apply are left FAILED.
Cancel ==
    /\ inPass
    /\ LET applying == {n \in Nodes : phase[n] = "APPLYING"}
       IN  /\ FailRecords(applying)
           /\ phase' = [n \in Nodes |->
                          IF n \in applying THEN "FAILED" ELSE phase[n]]
    /\ inPass' = FALSE
    /\ lastClean' = FALSE
    /\ UNCHANGED <<present, fp, forced, action, passes, edits>>

\* The process dies: saves are atomic, so only the pass state is lost.
Crash ==
    /\ inPass
    /\ inPass' = FALSE
    /\ lastClean' = FALSE
    /\ UNCHANGED <<present, fp, forced, onDisk, rec, phase, action, passes,
                   edits>>

-----------------------------------------------------------------------------
(* The operator, between passes.                                           *)

Edit(p, f, fo, d, r) ==
    /\ ~inPass
    /\ edits < MaxEdits
    /\ edits' = edits + 1
    /\ lastClean' = FALSE
    /\ present' = p /\ fp' = f /\ forced' = fo /\ onDisk' = d /\ rec' = r
    /\ UNCHANGED <<inPass, phase, action, passes>>

\* The definition of n changes.
ChangeNode(n, f) ==
    /\ n \in present
    /\ f # fp[n]
    /\ Edit(present, [fp EXCEPT ![n] = f], forced, onDisk, rec)

\* n, whose children are gone already, is removed from the topology.
PruneNode(n) ==
    /\ n \in present
    /\ \A c \in Nodes \ {Root} : Parent[c] = n => c \notin present
    /\ Edit(present \ {n}, fp, forced, onDisk, rec)

\* n is put back under its parent, with definition f.
RestoreNode(n, f) ==
    /\ n \notin present
    /\ IF n = Root THEN TRUE ELSE Parent[n] \in present
    /\ Edit(present \cup {n}, [fp EXCEPT ![n] = f], forced, onDisk, rec)

\* n is flagged (or unflagged) for a human-declared rebuild.
SetForced(n, b) ==
    /\ n \in present
    /\ forced[n] # b
    /\ Edit(present, fp, [forced EXCEPT ![n] = b], onDisk, rec)

\* The operator taints n's record.
TaintNode(n) ==
    /\ n \in onDisk
    /\ Edit(present, fp, forced, onDisk, [rec EXCEPT ![n] = Taint(rec[n])])

Next ==
    \/ StartPass
    \/ \E n \in Nodes :
          \/ ClassifyNode(n) \/ Settle(n) \/ SkipNode(n) \/ BeginApply(n)
          \/ CommitCreate(n) \/ CommitTouch(n) \/ CommitDelete(n)
          \/ ApplyFail(n)
    \/ EndPass \/ Cancel \/ Crash
    \/ \E n \in Nodes :
          \/ \E f \in Fingerprints : ChangeNode(n, f) \/ RestoreNode(n, f)
          \/ PruneNode(n) \/ TaintNode(n)
          \/ \E b \in BOOLEAN : SetForced(n, b)

\* The engine's own steps are fair (it does not stop on its own and the
\* collaborator eventually answers); the operator, a cancel and a crash
\* are not.
Fairness ==
    /\ WF_vars(EndPass)
    /\ \A n \in Nodes :
          /\ WF_vars(ClassifyNode(n)) /\ WF_vars(Settle(n))
          /\ WF_vars(SkipNode(n)) /\ WF_vars(BeginApply(n))
          /\ WF_vars(CommitCreate(n) \/ CommitTouch(n) \/ CommitDelete(n)
                     \/ ApplyFail(n))

Spec == Init /\ [][Next]_vars

FairSpec == Spec /\ Fairness

-----------------------------------------------------------------------------
(* Properties.                                                             *)

\* Dependency ordering (spec.md 4.4 and 8): a node is handed to the
\* collaborator, and committed or failed by it, only in a pass where its
\* parent has committed; the dependents of a failed or skipped node are
\* never built on top of it.
ParentBeforeChild ==
    \A n \in Nodes \ {Root} :
        \/ phase[n] \in {"APPLYING", "FAILED"}
        \/ phase[n] = "COMMITTED" /\ action[n] # "NONE"
        => phase[Parent[n]] = "COMMITTED"

\* Idempotence (spec.md 8): in a pass that follows a pass which finished
\* with every node committed, with no edit, taint, cancel or crash in
\* between, the classifier answers NONE for every node not flagged for a
\* rebuild: the first pass left nothing undone and no record stale.
Idempotence ==
    inPass /\ lastClean =>
        \A n \in Nodes :
            phase[n] # "PENDING" /\ ~forced[n] => action[n] = "NONE"

\* No lost external identifier (spec.md 3): a record that says ACTIVE
\* names the external resource that realizes it, i.e. its ExternalID is
\* not empty.
ActiveHasExternalID ==
    \A n \in onDisk :
        rec[n].status = "ACTIVE" => rec[n].externalID # NoID

\* Taint round-trip (spec.md 8): once the operator taints a record, no
\* later classification of that node answers NONE while the record is
\* still the tainted one, even when the node's fingerprint equals the
\* sentinel checksum 666 that Taint writes (revision.go:102-107).
TaintRoundTrip ==
    \A n \in Nodes :
        inPass /\ phase[n] # "PENDING" /\ n \in onDisk
            /\ rec[n].status = "STALE"
            => action[n] # "NONE"

\* Every build pass ends: with the engine's steps fair, each node is
\* classified and then settled, skipped or applied, and the pass reports.
PassCompletes == inPass ~> ~inPass

=============================================================================
