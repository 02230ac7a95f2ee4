------------------------- MODULE AbstractProvisioner -------------------------
(***************************************************************************)
(* What a script provisioner promises the orchestrator, without the       *)
(* retries, uploads and cleanup: Provision runs the configured scripts    *)
(* one after the other, each once, and returns.  It reports success only  *)
(* after every script has run; it may fail at any point, including as the *)
(* result of the script it has just run.                                  *)
(***************************************************************************)
EXTENDS Naturals

VARIABLES
    total,      \* how many scripts the configuration names
    ran,        \* how many of them have been executed
    status      \* "running", or what Provision returned

vars == <<total, ran, status>>

TypeOK ==
    /\ total \in Nat
    /\ ran \in 0..total
    /\ status \in {"running", "ok", "err"}

Init ==
    /\ total \in Nat
    /\ ran = 0
    /\ status = "running"

\* The next script is executed; a rejected outcome ends Provision.
Run ==
    /\ status = "running"
    /\ ran < total
    /\ ran' = ran + 1
    /\ status' \in {"running", "err"}
    /\ UNCHANGED total

\* Every script has run: Provision returns nil.
Succeed ==
    /\ status = "running"
    /\ ran = total
    /\ status' = "ok"
    /\ UNCHANGED <<total, ran>>

\* Provision returns an error.
Fail ==
    /\ status = "running"
    /\ status' = "err"
    /\ UNCHANGED <<total, ran>>

Next == Run \/ Succeed \/ Fail

Spec == Init /\ [][Next]_vars

\* Success means every configured script was executed.
SuccessMeansAllRan == status = "ok" => ran = total

=============================================================================
