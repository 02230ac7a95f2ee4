--------------------------- MODULE MC_RevisionPath ---------------------------
EXTENDS RevisionPath

\* An environment, a network with two hosts, the first with one connection
\* and two provisioning steps.
MCNodes == {"env", "net", "host", "host2", "conn", "step1", "step2"}

MCKind ==
    [n \in MCNodes |->
        CASE n = "env" -> "environment"
          [] n = "net" -> "network"
          [] n \in {"host", "host2"} -> "host"
          [] n = "conn" -> "connection"
          [] OTHER -> "provisioning_step"]

MCID ==
    [n \in MCNodes |->
        CASE n = "env" -> <<"e">>
          [] n = "net" -> <<"e", "n">>
          [] n = "host" -> <<"e", "n", "h">>
          [] n = "host2" -> <<"e", "n", "h2">>
          [] n = "conn" -> <<"e", "n", "h", "c1">>
          [] n = "step1" -> <<"e", "n", "h", "s1">>
          [] OTHER -> <<"e", "n", "h", "s2">>]

\* The same host with two connections instead of the steps.
MCNodes2 == {"host", "conn", "conn2"}

MCKind2 == [n \in MCNodes2 |-> IF n = "host" THEN "host" ELSE "connection"]

MCID2 ==
    [n \in MCNodes2 |->
        CASE n = "host" -> <<"e", "n", "h">>
          [] n = "conn" -> <<"e", "n", "h", "c1">>
          [] OTHER -> <<"e", "n", "h", "c2">>]

MCBaseDir == <<"build">>

\* Both topologies keep connection file names apart from the others, which
\* RevisionPathProofs takes as a hypothesis about Filename's strings.
ASSUME MCConnectionFilesDistinct == ConnectionFilesDistinct

\* The first topology meets every condition of LoadReturnsOwnTheorem; the
\* second breaks ConnectionDirsDistinct (two connections of one host).
ASSUME MCCoreConditions ==
    Nodes = MCNodes => OneEnvironment /\ IDsDistinct /\ ConnectionDirsDistinct

=============================================================================
