-------------------------- MODULE MC_Orchestrator --------------------------
(* A small topology for TLC: an environment, one network and two hosts    *)
(* under it, so that siblings interleave and a grandchild depends on a    *)
(* parent that may fail.                                                   *)
EXTENDS Orchestrator, TLC

MCNodes == {"env", "net", "h1", "h2"}

MCParent == ("net" :> "env") @@ ("h1" :> "net") @@ ("h2" :> "net")

=============================================================================
