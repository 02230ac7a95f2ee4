----------------------------- MODULE Retryable -----------------------------
(***************************************************************************)
(* The retry loop of the script provisioners: retryable in                 *)
(* src/provisioner/cmd.go (SSHProvisioner, WindowsCmdProvisioner) and      *)
(* src/unnamed/part_003 (PowershellProvisioner), with the start timeout    *)
(* that Prepare leaves in the configuration.                               *)
(*                                                                         *)
(* retryable arms time.After(StartRetryTimeout) once, then calls f until   *)
(* it succeeds; after a failure it returns the error if the timer has      *)
(* fired and otherwise sleeps retryableSleep.  Time is counted in seconds; *)
(* a timer armed with a duration <= 0 fires at once.  Whether f succeeds,  *)
(* and how long a failing call takes, is left open.                        *)
(***************************************************************************)
EXTENDS Integers

CONSTANTS
    Kinds,          \* provisioner kinds: "ssh", "powershell", "windows-shell"
    Timeouts,       \* StartRetryTimeout values a configuration can hold (s)
    DefaultTimeout, \* the 5 * time.Minute default of the Windows kinds (s)
    Sleep,          \* retryableSleep (s)
    MaxAttempt,     \* the longest a call of f may take (s)
    MaxClock        \* bound on the clock, for runs of faulty variants

ASSUME RetryableAssumption ==
    /\ Kinds \subseteq {"ssh", "powershell", "windows-shell"}
    /\ Timeouts \subseteq Int
    /\ DefaultTimeout \in Nat \ {0}
    /\ Sleep \in Nat \ {0}
    /\ MaxAttempt \in Nat
    /\ MaxClock \in Nat

VARIABLES
    kind,       \* the provisioner
    timeout,    \* its StartRetryTimeout
    pc,         \* "prepare", "start", "attempt", "select" or "done"
    clock,      \* seconds since New (New and Provision up to retryable
                \* take no time)
    deadline,   \* when startTimeout fires
    result      \* what retryable returned

vars == <<kind, timeout, pc, clock, deadline, result>>

TypeOK ==
    /\ kind \in Kinds
    /\ timeout \in Timeouts \cup {DefaultTimeout}
    /\ pc \in {"prepare", "start", "attempt", "select", "done"}
    /\ clock \in Nat
    /\ deadline \in Nat
    /\ result \in {"none", "ok", "err"}

\* The Windows kinds' Prepare replaces a zero StartRetryTimeout by five
\* minutes; SSH keeps whatever time.ParseDuration returned.
PreparedTimeout(k, t) ==
    IF k # "ssh" /\ t = 0 THEN DefaultTimeout ELSE t

Init ==
    /\ kind \in Kinds
    /\ timeout \in Timeouts
    /\ pc = "prepare"
    /\ clock = 0
    /\ deadline = 0
    /\ result = "none"

\* Prepare sets the start timeout.
Prepare ==
    /\ pc = "prepare"
    /\ timeout' = PreparedTimeout(kind, timeout)
    /\ pc' = "start"
    /\ UNCHANGED <<kind, clock, deadline, result>>

\* How long after it is armed a timer of duration t fires.
Window(t) == IF t < 0 THEN 0 ELSE t

\* retryable arms startTimeout := time.After(StartRetryTimeout).
Start ==
    /\ pc = "start"
    /\ deadline' = clock + Window(timeout)
    /\ pc' = "attempt"
    /\ UNCHANGED <<kind, timeout, clock, result>>

\* f runs: it returns nil, or an error after taking up to MaxAttempt.
Attempt ==
    /\ pc = "attempt"
    /\ \/ pc' = "done" /\ result' = "ok" /\ UNCHANGED clock
       \/ \E d \in 0..MaxAttempt :
             /\ clock' = clock + d
             /\ pc' = "select"
             /\ UNCHANGED result
    /\ UNCHANGED <<kind, timeout, deadline>>

\* Mutant: the timer is armed again on every pass through the loop.
SelectRearm ==
    /\ pc = "select"
    /\ IF clock >= deadline
       THEN pc' = "done" /\ result' = "err" /\ UNCHANGED <<clock, deadline>>
       ELSE /\ clock + Sleep <= MaxClock
            /\ clock' = clock + Sleep
            /\ deadline' = clock + Sleep + timeout
            /\ pc' = "attempt"
            /\ UNCHANGED result
    /\ UNCHANGED <<kind, timeout>>

\* The select after a failure: return the error once startTimeout has
\* fired, or sleep retryableSleep and call f again.
Select ==
    /\ pc = "select"
    /\ IF clock >= deadline
       THEN pc' = "done" /\ result' = "err" /\ UNCHANGED clock
       ELSE /\ clock + Sleep <= MaxClock
            /\ clock' = clock + Sleep
            /\ pc' = "attempt"
            /\ UNCHANGED result
    /\ UNCHANGED <<kind, timeout, deadline>>

Next == Prepare \/ Start \/ Attempt \/ Select

Spec == Init /\ [][Next]_vars

-----------------------------------------------------------------------------

\* The backoff is bounded (spec.md 4.4): retryable keeps calling f for
\* less than the start timeout Prepare left plus one sleep and one failing
\* call, however often the calls fail.
BoundedRetry ==
    pc \in {"attempt", "select", "done"} =>
        clock < Window(timeout) + Sleep + MaxAttempt

=============================================================================
