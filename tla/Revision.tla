------------------------------ MODULE Revision ------------------------------
(***************************************************************************)
(* The revision record of laforge (src/core/revision.go): the on-disk     *)
(* .lfrevision file kept for every node of the topology, and the three    *)
(* mutators the code defines on it (Touch, TouchWithID, Taint).            *)
(*                                                                         *)
(* The record keeps Status, Checksum and ExternalID.  ID and Type are the *)
(* key the record is stored under (see the orchestrator), Timestamp is    *)
(* only refreshed and never read by the engine, and Vars only feeds       *)
(* templating, so the three are left out.                                 *)
(***************************************************************************)
EXTENDS Naturals

CONSTANTS
    Fingerprints,   \* the checksums a node definition can hash to (uint64)
    ExternalIDs     \* the identifiers a provider can hand back

\* The value Go gives an unset string field: ExternalID before any create.
NoID == ""

\* The sentinel checksum Taint writes (revision.go:105).
TaintChecksum == 666

\* The checksum a freshly allocated Revision has (the zero uint64).
ZeroChecksum == 0

ASSUME FingerprintsAssumption ==
    /\ Fingerprints \subseteq Nat
    /\ Fingerprints # {}

ASSUME ExternalIDsAssumption ==
    /\ ExternalIDs # {}
    /\ NoID \notin ExternalIDs

\* RevStatus: the five statuses a revision can carry (revision.go:16-29).
RevStatuses == {"UNKNOWN", "STALE", "ACTIVE", "PLANNED", "FAILED"}

\* RevMod: what an environment's deployment needs of a record
\* (revision.go:31-41), plus NONE for "nothing to do".
RevMods == {"TOUCH", "DELETE", "CREATE", "REBUILD"}

\* Every checksum a record may hold.
Checksums == Fingerprints \cup {TaintChecksum, ZeroChecksum}

\* The Revision struct, restricted to the fields the engine reads.
Revision == [status : RevStatuses, checksum : Checksums,
             externalID : ExternalIDs \cup {NoID}]

\* A zero-valued Revision, before the orchestrator fills it in.
NewRevision == [status |-> "UNKNOWN", checksum |-> ZeroChecksum,
                externalID |-> NoID]

\* Touch: status ACTIVE, timestamp refreshed; nothing else changes.
Touch(r) == [r EXCEPT !.status = "ACTIVE"]

\* TouchWithID: Touch, then stamp the external resource identifier.
TouchWithID(r, s) == [Touch(r) EXCEPT !.externalID = s]

\* Taint: status STALE and the sentinel checksum 666.
Taint(r) == [r EXCEPT !.status = "STALE", !.checksum = TaintChecksum]

=============================================================================
