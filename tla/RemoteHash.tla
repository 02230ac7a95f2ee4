----------------------------- MODULE RemoteHash -----------------------------
(***************************************************************************)
(* The fingerprint of a Remote (src/core/remote_state_config.go): Hash    *)
(* formats the Remote as "id=%v type=%v config=%v" and hashes the string  *)
(* with xxhash.  fmt prints a map[string]string as "map[k1:v1 k2:v2]"     *)
(* with its keys in sorted order.                                         *)
(*                                                                         *)
(* xxhash is taken to be injective on strings (the best case), so two    *)
(* Remotes share a fingerprint exactly when they format to the same       *)
(* string.  Around it, the classifier's use of the fingerprint: a         *)
(* definition is applied (its fingerprint stored), then edited; the       *)
(* classifier answers NONE when the stored fingerprint equals the current *)
(* one.                                                                    *)
(***************************************************************************)
EXTENDS Sequences, SequencesExt

CONSTANTS
    IDs,        \* Remote.ID values
    Types,      \* Remote.Type values
    KeyOrder,   \* the config keys, as a sequence in sorted order
    Values      \* config values (all four sets hold strings)

Keys == ToSet(KeyOrder)

\* A Remote: ID, Type and a Config map over some of the keys.
Remotes ==
    [id : IDs, type : Types,
     config : UNION {[D -> Values] : D \in SUBSET Keys}]

\* fmt's %v of a map[string]string: "map[" k:v pairs in key order,
\* separated by spaces, "]".
FormatStringMap(m) ==
    LET keys == SelectSeq(KeyOrder, LAMBDA k : k \in DOMAIN m)
        pair(k) == k \o ":" \o m[k]
        join(acc, k) == IF acc = "" THEN pair(k) ELSE acc \o " " \o pair(k)
    IN  "map[" \o FoldLeft(join, "", keys) \o "]"

\* Remote.Hash, with xxhash.Sum64String as the identity on strings.
Hash(r) ==
    "id=" \o r.id \o " type=" \o r.type \o " config=" \o FormatStringMap(r.config)

VARIABLES
    def,        \* the Remote's current definition
    applied,    \* the definition last applied
    stored      \* the fingerprint stored in its revision record

vars == <<def, applied, stored>>

Init ==
    /\ def \in Remotes
    /\ applied = def
    /\ stored = Hash(def)

\* The operator edits the definition.
Edit(r) ==
    /\ def' = r
    /\ UNCHANGED <<applied, stored>>

\* The orchestrator applies the current definition and stores its
\* fingerprint.
Apply ==
    /\ applied' = def
    /\ stored' = Hash(def)
    /\ UNCHANGED def

Next == Apply \/ \E r \in Remotes : Edit(r)

Spec == Init /\ [][Next]_vars

-----------------------------------------------------------------------------

\* The fingerprint tells definitions apart (spec.md 4.1): when the
\* classifier sees the stored fingerprint equal to the current one (and so
\* answers NONE), the definition is the one that was applied.
NoneOnlyWhenUnchanged == stored = Hash(def) => def = applied

=============================================================================
