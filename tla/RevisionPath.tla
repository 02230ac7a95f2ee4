---------------------------- MODULE RevisionPath ----------------------------
(***************************************************************************)
(* Where revision files live: Revision.AbsPath and Revision.Filename      *)
(* (src/core/revision.go), and a revision store that saves, removes and   *)
(* loads (ParseRevisionFile) each node's record at that path.             *)
(*                                                                         *)
(* A node ID is a path, written as the sequence of its segments; a        *)
(* filesystem path is the sequence of its segments after filepath.Join    *)
(* (which drops the empty and "." parts).  File names are built as the    *)
(* code formats them.                                                      *)
(***************************************************************************)
EXTENDS Naturals, Sequences

CONSTANTS
    Nodes,      \* the nodes whose records the store holds
    Kind,       \* Kind[n]: the LFType of n
    ID,         \* ID[n]: n's ID, a non-empty sequence of path segments
    BaseDir     \* the basedir passed to AbsPath, a sequence of segments

ASSUME RevisionPathAssumption ==
    /\ \A n \in Nodes : ID[n] \in Seq(STRING) /\ ID[n] # <<>>
    /\ BaseDir \in Seq(STRING)

\* The record read back from a missing file.
NoFile == "none"

\* path.Base and filepath.Dir of an absolute ID.
Base(id) == id[Len(id)]
Dir(id) == SubSeq(id, 1, Len(id) - 1)

\* Filename: steps are named after the last segment of their ID, every
\* other kind after its type.
Filename(n) ==
    IF Kind[n] = "provisioning_step"
    THEN "." \o Base(ID[n]) \o ".pstep.lfrevision"
    ELSE "." \o Kind[n] \o ".lfrevision"

\* Mutant: every record is written in the directory of its ID's parent,
\* as the connection case does.
AbsPathInParentDir(n) ==
    IF Kind[n] = "environment" THEN <<".env.lfrevision">>
    ELSE BaseDir \o Dir(ID[n]) \o <<Filename(n)>>

\* AbsPath: the environment's record is a fixed name (relative to the
\* working directory), a connection's sits in the directory of its ID,
\* every other record in the directory named by its ID.
AbsPath(n) ==
    CASE Kind[n] = "environment" -> <<".env.lfrevision">>
      [] Kind[n] = "connection" -> BaseDir \o Dir(ID[n]) \o <<Filename(n)>>
      [] OTHER -> BaseDir \o ID[n] \o <<Filename(n)>>

Paths == {AbsPath(n) : n \in Nodes}

VARIABLES
    files,      \* files[p]: the node whose record was last written at p
    loaded      \* loaded[n]: the owner of the record the last load of n read

vars == <<files, loaded>>

TypeOK ==
    /\ files \in [Paths -> Nodes \cup {NoFile}]
    /\ loaded \in [Nodes -> Nodes \cup {NoFile}]

Init ==
    /\ files = [p \in Paths |-> NoFile]
    /\ loaded = [n \in Nodes |-> NoFile]

\* The orchestrator saves n's record (spec.md 4.2 Save).
Save(n) ==
    /\ files' = [files EXCEPT ![AbsPath(n)] = n]
    /\ UNCHANGED loaded

\* A DELETE removes n's record from disk.
Remove(n) ==
    /\ files[AbsPath(n)] # NoFile
    /\ files' = [files EXCEPT ![AbsPath(n)] = NoFile]
    /\ UNCHANGED loaded

\* ParseRevisionFile(AbsPath(n)): the file's content, or NotFound.
Load(n) ==
    /\ loaded' = [loaded EXCEPT ![n] = files[AbsPath(n)]]
    /\ UNCHANGED files

Next == \E n \in Nodes : Save(n) \/ Remove(n) \/ Load(n)

Spec == Init /\ [][Next]_vars

-----------------------------------------------------------------------------
(* Conditions on a topology, under which AbsPath gives every node a file  *)
(* of its own (see RevisionPathProofs).                                    *)

\* The build has one environment.
OneEnvironment ==
    \A m, n \in Nodes : Kind[m] = "environment" /\ Kind[n] = "environment" => m = n

\* IDs identify nodes.
IDsDistinct == \A m, n \in Nodes : ID[m] = ID[n] => m = n

\* A connection's file name is the name of no other kind's file, nor the
\* environment's fixed name (a fact about the strings Filename builds).
ConnectionFilesDistinct ==
    \A m, n \in Nodes :
        Kind[m] = "connection" /\ Kind[n] # "connection"
            => Filename(m) \notin {Filename(n), ".env.lfrevision"}

\* No two connections sit in the same directory.
ConnectionDirsDistinct ==
    \A m, n \in Nodes :
        Kind[m] = "connection" /\ Kind[n] = "connection" /\ Dir(ID[m]) = Dir(ID[n])
            => m = n

-----------------------------------------------------------------------------

\* A node's revision file holds its own record: loading the record of n
\* never returns one that was saved for another node, so no two nodes share
\* a file and a DELETE of one never removes another's record.
LoadReturnsOwn == \A n \in Nodes : loaded[n] \in {n, NoFile}

=============================================================================
