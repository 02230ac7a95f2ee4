------------------------- MODULE RevisionPathProofs -------------------------
(***************************************************************************)
(* Proofs about where revision files live (revision.go:110-127), for      *)
(* every set of nodes, kinds, IDs and base directory.                     *)
(*                                                                         *)
(* AbsPathInjective: with one environment, distinct IDs, connection file  *)
(* names apart from the others and no two connections in one directory,  *)
(* AbsPath gives distinct nodes distinct files.  Every other node's path  *)
(* is BaseDir, its whole ID and its file name; two such paths of equal    *)
(* length agree on the ID, and the environment's one-segment path is      *)
(* shorter than any other except a connection's directly under BaseDir.   *)
(*                                                                         *)
(* ConnectionsShareFile: the fourth condition cannot be dropped.  Two     *)
(* connections in one directory get the same path, and loading one       *)
(* returns the record saved for the other.                                *)
(*                                                                         *)
(* LoadReturnsOwnTheorem: under the four conditions every load returns    *)
(* the node's own record or NotFound.                                      *)
(*                                                                         *)
(* The provers treat string concatenation as opaque, so the one fact      *)
(* about Filename's strings is a hypothesis (ConnectionFilesDistinct),    *)
(* which MC_RevisionPath has TLC evaluate on both topologies.             *)
(***************************************************************************)
EXTENDS RevisionPath, SequenceTheorems, TLAPS

\* The values a path segment can take.
Segments == STRING \cup {Filename(n) : n \in Nodes} \cup {".env.lfrevision"}

\* AbsPath gives distinct nodes distinct files.
PathsDistinct == \A m, n \in Nodes : AbsPath(m) = AbsPath(n) => m = n

\* Such a path has length Len(b) + Len(x) + 1.
LEMMA ConcatLastLen ==
    ASSUME NEW S, NEW b \in Seq(S), NEW x \in Seq(S), NEW f \in S
    PROVE  Len(b \o x \o <<f>>) = Len(b) + Len(x) + 1
  <1>1. PICK u \in Seq(S) : u = b \o x /\ Len(u) = Len(b) + Len(x)
    BY ConcatProperties
  <1>2. Append(u, f) = u \o <<f>> /\ Len(Append(u, f)) = Len(u) + 1
    BY AppendIsConcat, AppendProperties
  <1>3. QED
    BY <1>1, <1>2

\* The segments AbsPath is built from.
LEMMA PathParts ==
    ASSUME NEW n \in Nodes
    PROVE  /\ BaseDir \in Seq(Segments)
           /\ ID[n] \in Seq(Segments) /\ Len(ID[n]) \in Nat \ {0}
           /\ Dir(ID[n]) \in Seq(Segments)
           /\ Len(Dir(ID[n])) = Len(ID[n]) - 1
           /\ Filename(n) \in Segments
           /\ ".env.lfrevision" \in Segments
  <1>1. BaseDir \in Seq(Segments) /\ ID[n] \in Seq(Segments)
    BY RevisionPathAssumption, SeqMonotonic DEF Segments
  <1>2. Len(ID[n]) \in Nat \ {0}
    BY <1>1, RevisionPathAssumption, EmptySeq
  <1>3. Dir(ID[n]) \in Seq(Segments) /\ Len(Dir(ID[n])) = Len(ID[n]) - 1
    <2>1. \A i \in 1..(Len(ID[n]) - 1) : ID[n][i] \in Segments
      BY <1>1, <1>2, ElementOfSeq
    <2>2. QED
      BY <1>2, <2>1, SubSeqProperties DEF Dir
  <1>4. QED
    BY <1>1, <1>2, <1>3 DEF Segments

\* AbsPath, per kind (revision.go:110-119).
LEMMA AbsPathCases ==
    ASSUME NEW n \in Nodes
    PROVE  /\ Kind[n] = "environment" => AbsPath(n) = <<".env.lfrevision">>
           /\ Kind[n] = "connection"
                => AbsPath(n) = BaseDir \o Dir(ID[n]) \o <<Filename(n)>>
           /\ Kind[n] \notin {"environment", "connection"}
                => AbsPath(n) = BaseDir \o ID[n] \o <<Filename(n)>>
  BY DEF AbsPath

\* The directory part of a non-environment path: the ID's parent for a
\* connection, the whole ID for every other kind (revision.go:115-119).
Middle(n) == IF Kind[n] = "connection" THEN Dir(ID[n]) ELSE ID[n]

\* Every non-environment path is BaseDir, its middle part and its file name.
LEMMA NodePath ==
    ASSUME NEW n \in Nodes, Kind[n] # "environment"
    PROVE  /\ AbsPath(n) = BaseDir \o Middle(n) \o <<Filename(n)>>
           /\ Middle(n) \in Seq(Segments)
           /\ Kind[n] # "connection" => Len(Middle(n)) \in Nat \ {0}
  BY PathParts, AbsPathCases DEF Middle

\* Two non-environment nodes with one path share the middle part and the
\* file name: BaseDir \o x \o <<f>> = BaseDir \o y \o <<g>> gives x = y and
\* f = g.  (Compound terms are named first with PICK: the provers
\* instantiate the library's facts about sequences at names, not at
\* concatenations.)
LEMMA NodePathCancel ==
    ASSUME NEW m \in Nodes, NEW n \in Nodes, Kind[m] # "environment",
           Kind[n] # "environment", AbsPath(m) = AbsPath(n)
    PROVE  Middle(m) = Middle(n) /\ Filename(m) = Filename(n)
  <1>1. PICK b \in Seq(Segments) : b = BaseDir
    BY PathParts
  <1>2. PICK x \in Seq(Segments) : x = Middle(m)
    BY NodePath
  <1>3. PICK y \in Seq(Segments) : y = Middle(n)
    BY NodePath
  <1>4. PICK f \in Segments : f = Filename(m)
    BY PathParts
  <1>5. PICK g \in Segments : g = Filename(n)
    BY PathParts
  <1>6. b \o x \o <<f>> = b \o y \o <<g>>
    BY <1>1, <1>2, <1>3, <1>4, <1>5, NodePath
  <1>7. PICK u \in Seq(Segments) : u = b \o x
    BY ConcatProperties
  <1>8. PICK v \in Seq(Segments) : v = b \o y
    BY ConcatProperties
  <1>9. Append(u, f) = u \o <<f>> /\ Append(v, g) = v \o <<g>>
    BY AppendIsConcat
  <1>10. Append(u, f) = Append(v, g)
    BY <1>6, <1>7, <1>8, <1>9
  <1>11. u = v /\ f = g
    BY <1>10, AppendInjective
  <1>12. x = y
    BY <1>7, <1>8, <1>11, ConcatSimplifications
  <1>13. QED
    BY <1>2, <1>3, <1>4, <1>5, <1>11, <1>12

\* The environment's path is one segment long; no other node's is, except
\* a connection with a one-segment ID and an empty base directory, whose
\* file name differs from the environment's.
LEMMA EnvPathShort ==
    ASSUME NEW m \in Nodes, NEW n \in Nodes, Kind[m] = "environment",
           Kind[n] # "environment", AbsPath(m) = AbsPath(n),
           ConnectionFilesDistinct
    PROVE  FALSE
  <1>1. AbsPath(m) = <<".env.lfrevision">>
    BY AbsPathCases
  <1>2. PICK b \in Seq(Segments) : b = BaseDir
    BY PathParts
  <1>3. PICK x \in Seq(Segments) : x = Middle(n)
    BY NodePath
  <1>4. PICK g \in Segments : g = Filename(n)
    BY PathParts
  <1>5. AbsPath(n) = b \o x \o <<g>>
    BY <1>2, <1>3, <1>4, NodePath
  <1>6. Len(b \o x \o <<g>>) = Len(b) + Len(x) + 1
    BY <1>2, <1>3, <1>4, ConcatLastLen, Zenon
  <1>7. Len(b) = 0 /\ Len(x) = 0
    <2>0. b \o x \o <<g>> = <<".env.lfrevision">>
      BY <1>1, <1>5, Zenon
    <2>1. Len(b \o x \o <<g>>) = 1
      BY <2>0
    <2>2. Len(b) \in Nat /\ Len(x) \in Nat
      BY LenProperties
    <2>3. QED
      BY <1>6, <2>1, <2>2
  <1>8. b = <<>> /\ x = <<>>
    BY <1>7, EmptySeq
  <1>9. b \o x \o <<g>> = <<g>>
    BY <1>8, ConcatEmptySeq
  <1>10. <<g>> = <<".env.lfrevision">>
    BY <1>1, <1>5, <1>9
  <1>11. g = ".env.lfrevision"
    BY <1>10
  <1>12. CASE Kind[n] = "connection"
    BY <1>4, <1>11, <1>12 DEF ConnectionFilesDistinct
  <1>13. CASE Kind[n] # "connection"
    BY <1>3, <1>7, <1>13, NodePath
  <1>14. QED
    BY <1>12, <1>13

\* Under the four conditions on the topology, AbsPath gives distinct nodes
\* distinct revision files, so no Save of one node overwrites, and no
\* DELETE removes, the record of another.
THEOREM AbsPathInjective ==
    ASSUME OneEnvironment, IDsDistinct, ConnectionFilesDistinct,
           ConnectionDirsDistinct
    PROVE  PathsDistinct
  <1> SUFFICES ASSUME NEW m \in Nodes, NEW n \in Nodes, AbsPath(m) = AbsPath(n)
               PROVE  m = n
    BY DEF PathsDistinct
  <1>1. CASE Kind[m] = "environment" /\ Kind[n] = "environment"
    BY <1>1 DEF OneEnvironment
  <1>2. CASE Kind[m] = "environment" /\ Kind[n] # "environment"
    BY <1>2, EnvPathShort
  <1>3. CASE Kind[n] = "environment" /\ Kind[m] # "environment"
    BY <1>3, EnvPathShort
  <1>4. CASE Kind[m] # "environment" /\ Kind[n] # "environment"
    <2>1. Middle(m) = Middle(n) /\ Filename(m) = Filename(n)
      BY <1>4, NodePathCancel
    <2>2. CASE Kind[m] = "connection" /\ Kind[n] = "connection"
      BY <2>1, <2>2 DEF Middle, ConnectionDirsDistinct
    <2>3. CASE Kind[m] = "connection" /\ Kind[n] # "connection"
      BY <2>1, <2>3 DEF ConnectionFilesDistinct
    <2>4. CASE Kind[n] = "connection" /\ Kind[m] # "connection"
      BY <2>1, <2>4 DEF ConnectionFilesDistinct
    <2>5. CASE Kind[m] # "connection" /\ Kind[n] # "connection"
      BY <2>1, <2>5 DEF Middle, IDsDistinct
    <2>6. QED
      BY <2>2, <2>3, <2>4, <2>5
  <1>5. QED
    BY <1>1, <1>2, <1>3, <1>4

\* The fourth condition is needed: AbsPath puts a connection in the
\* directory of its ID's parent under the fixed name of its type
\* (revision.go:115), so two connections of one host share a file, and a
\* load of one right after the other's record was saved returns that
\* other node's record.
THEOREM ConnectionsShareFile ==
    ASSUME NEW m \in Nodes, NEW n \in Nodes, m # n, NoFile \notin Nodes,
           Kind[m] = "connection", Kind[n] = "connection",
           Dir(ID[m]) = Dir(ID[n])
    PROVE  /\ AbsPath(m) = AbsPath(n)
           /\ TypeOK /\ files[AbsPath(m)] = m /\ Load(n) => ~LoadReturnsOwn'
  <1>1. Filename(m) = Filename(n)
    BY DEF Filename
  <1>2. AbsPath(m) = AbsPath(n)
    BY <1>1, AbsPathCases
  <1>3. TypeOK /\ files[AbsPath(m)] = m /\ Load(n) => loaded'[n] = m
    BY <1>2 DEF Load, TypeOK
  <1>4. QED
    BY <1>2, <1>3 DEF LoadReturnsOwn

-----------------------------------------------------------------------------
(* The store.  Whatever AbsPath computes, a file holds only a record saved *)
(* for a node whose path it is, and a load returns a record saved at the  *)
(* loaded node's path; with AbsPathInjective that record is its own.      *)

\* Every file holds nothing or a record saved at that very path.
FilesAtOwnPath ==
    \A p \in Paths : files[p] = NoFile \/ (files[p] \in Nodes /\ AbsPath(files[p]) = p)

\* Every load returned nothing or a record saved at the node's own path.
LoadSamePath ==
    \A n \in Nodes :
        loaded[n] = NoFile \/ (loaded[n] \in Nodes /\ AbsPath(loaded[n]) = AbsPath(n))

StoreInv == TypeOK /\ FilesAtOwnPath /\ LoadSamePath

LEMMA InitStore == Init => StoreInv
  BY DEF Init, StoreInv, TypeOK, FilesAtOwnPath, LoadSamePath

LEMMA StepStore == StoreInv /\ [Next]_vars => StoreInv'
  <1> SUFFICES ASSUME StoreInv, [Next]_vars PROVE StoreInv'
    OBVIOUS
  <1> USE DEF StoreInv, TypeOK
  <1>0. \A n \in Nodes : AbsPath(n) \in Paths
    BY DEF Paths
  <1>1. ASSUME NEW n \in Nodes, Save(n) PROVE StoreInv'
    BY <1>0, <1>1 DEF Save, FilesAtOwnPath, LoadSamePath
  <1>2. ASSUME NEW n \in Nodes, Remove(n) PROVE StoreInv'
    BY <1>0, <1>2 DEF Remove, FilesAtOwnPath, LoadSamePath
  <1>3. ASSUME NEW n \in Nodes, Load(n) PROVE StoreInv'
    BY <1>0, <1>3 DEF Load, FilesAtOwnPath, LoadSamePath
  <1>4. CASE UNCHANGED vars
    BY <1>4 DEF vars, FilesAtOwnPath, LoadSamePath
  <1>5. QED
    BY <1>1, <1>2, <1>3, <1>4 DEF Next

\* In every topology with one environment, distinct IDs, connection file
\* names apart from the others and no two connections in one directory,
\* loading the record of a node (ParseRevisionFile at AbsPath) never
\* returns a record saved for another node.
THEOREM LoadReturnsOwnTheorem ==
    ASSUME OneEnvironment, IDsDistinct, ConnectionFilesDistinct,
           ConnectionDirsDistinct
    PROVE  Spec => []LoadReturnsOwn
  <1>1. PathsDistinct
    BY AbsPathInjective
  <1>2. StoreInv => LoadReturnsOwn
    BY <1>1 DEF StoreInv, LoadSamePath, LoadReturnsOwn, PathsDistinct
  <1>3. QED
    BY <1>2, InitStore, StepStore, PTL DEF Spec

=============================================================================
