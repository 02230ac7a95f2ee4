--------------------------- MODULE WindowsRestart ---------------------------
(***************************************************************************)
(* The windows-restart provisioner (src/provisioner/windows_restart.go):  *)
(* Provision issues the restart command through retryable, waits for the  *)
(* machine to leave its running state (the reboot-check loop), then races *)
(* a waiter goroutine (waitForCommunicator) against the restart timeout   *)
(* and the p.cancel channel that Cancel closes from another goroutine.    *)
(*                                                                         *)
(* The two channels are modelled by their state: p.cancel is nil, open or *)
(* closed; waitDone is open or closed with a buffer of 0 or 1 values.     *)
(* Closing a closed channel and sending on a closed channel make the Go   *)
(* runtime panic, which ends the process: variable panicked.              *)
(*                                                                         *)
(* The remote machine is up, has a shutdown pending, is down, or has      *)
(* rebooted.  Commands that loop without changing anything (exit 1190,   *)
(* 1115, 1717, a failed echo) are stuttering steps and are left out.      *)
(***************************************************************************)
EXTENDS Naturals

CONSTANTS
    MaxCancels,     \* how many times other goroutines call Cancel
    FlakyCheck      \* a check command may fail to start on a running machine

ASSUME WindowsRestartAssumption ==
    /\ MaxCancels \in Nat
    /\ FlakyCheck \in BOOLEAN

VARIABLES
    mpc,            \* where Provision/waitForRestart is
    result,         \* what Provision returned
    wpc,            \* where the waitForCommunicator goroutine is
    werr,           \* the err variable the goroutine writes
    cancelCh,       \* p.cancel
    waitDone,       \* the waitDone channel
    timeoutFired,   \* the RestartTimeout timer has fired
    machine,        \* the remote machine
    cancels,        \* Cancel calls made so far
    panicked        \* the Go runtime has panicked

vars == <<mpc, result, wpc, werr, cancelCh, waitDone, timeoutFired, machine,
          cancels, panicked>>

TypeOK ==
    /\ mpc \in {"idle", "restart", "check", "wait", "done"}
    /\ result \in {"none", "ok", "err"}
    /\ wpc \in {"none", "loop", "send", "exited"}
    /\ werr \in {"nil", "err"}
    /\ cancelCh \in {"nil", "open", "closed"}
    /\ waitDone \in [state : {"none", "open", "closed"}, buf : 0..1]
    /\ timeoutFired \in BOOLEAN
    /\ machine \in {"up", "pending", "down", "rebooted"}
    /\ cancels \in 0..MaxCancels
    /\ panicked \in BOOLEAN

\* close(p.cancel) as the main goroutine does it: a panic if already closed.
CloseCancel ==
    IF cancelCh = "closed"
    THEN panicked' = TRUE /\ UNCHANGED cancelCh
    ELSE cancelCh' = "closed" /\ UNCHANGED panicked

\* Provision returns r.
Return(r) == mpc' = "done" /\ result' = r

Init ==
    /\ mpc = "idle"
    /\ result = "none"
    /\ wpc = "none"
    /\ werr = "nil"
    /\ cancelCh = "nil"
    /\ waitDone = [state |-> "none", buf |-> 0]
    /\ timeoutFired = FALSE
    /\ machine = "up"
    /\ cancels = 0
    /\ panicked = FALSE

-----------------------------------------------------------------------------
(* Provision and waitForRestart, in the main goroutine.                    *)

\* Under cancelLock, a fresh p.cancel channel.
ProvisionStart ==
    /\ ~panicked
    /\ mpc = "idle"
    /\ cancelCh' = "open"
    /\ mpc' = "restart"
    /\ UNCHANGED <<result, wpc, werr, waitDone, timeoutFired, machine, cancels,
                   panicked>>

\* The restart command runs: exit 0 schedules the shutdown and moves on to
\* waitForRestart (arming its timeout), another exit status is an error.
RestartCommand ==
    /\ ~panicked
    /\ mpc = "restart"
    /\ \/ /\ machine' = "pending"
          /\ mpc' = "check"
          /\ UNCHANGED result
       \/ /\ Return("err")
          /\ UNCHANGED machine
    /\ UNCHANGED <<wpc, werr, cancelCh, waitDone, timeoutFired, cancels,
                   panicked>>

\* retryable: the command failed to start and the start timeout has passed.
RetryGiveUp ==
    /\ ~panicked
    /\ mpc = "restart"
    /\ Return("err")
    /\ UNCHANGED <<wpc, werr, cancelCh, waitDone, timeoutFired, machine,
                   cancels, panicked>>

\* Mutant: a pending shutdown (exit 1190) also ends the reboot-check loop.
CheckRebootOnPending ==
    /\ ~panicked
    /\ mpc = "check"
    /\ machine # "up"
    /\ mpc' = "wait"
    /\ wpc' = "loop"
    /\ waitDone' = [state |-> "open", buf |-> 0]
    /\ UNCHANGED <<result, werr, cancelCh, timeoutFired, machine, cancels,
                   panicked>>

\* The reboot-check loop leaves when the check command cannot start (the
\* machine is taken to be rebooting already) or exits 0 on a machine that
\* accepted a test reboot (which is aborted); a pending shutdown answers
\* 1190 and the loop repeats.  Then the waiter goroutine is started.
CheckReboot ==
    /\ ~panicked
    /\ mpc = "check"
    /\ \/ machine \in {"down", "rebooted"}
       \/ FlakyCheck /\ machine = "pending"
    /\ mpc' = "wait"
    /\ wpc' = "loop"
    /\ waitDone' = [state |-> "open", buf |-> 0]
    /\ UNCHANGED <<result, werr, cancelCh, timeoutFired, machine, cancels,
                   panicked>>

\* Mutant: the success case does not break out of WaitLoop.
MainWaitDoneNoBreak ==
    /\ ~panicked
    /\ mpc = "wait"
    /\ waitDone.buf = 1
    /\ waitDone' = [waitDone EXCEPT !.buf = 0]
    /\ IF werr = "err"
       THEN Return("err") /\ UNCHANGED <<cancelCh, panicked>>
       ELSE result' = "ok" /\ CloseCancel /\ UNCHANGED mpc
    /\ UNCHANGED <<wpc, werr, timeoutFired, machine, cancels>>

\* WaitLoop, case <-waitDone: an error is returned; otherwise p.cancel is
\* closed and Provision succeeds.
MainWaitDone ==
    /\ ~panicked
    /\ mpc = "wait"
    /\ waitDone.buf = 1
    /\ waitDone' = [waitDone EXCEPT !.buf = 0]
    /\ IF werr = "err"
       THEN Return("err") /\ UNCHANGED <<cancelCh, panicked>>
       ELSE Return("ok") /\ CloseCancel
    /\ UNCHANGED <<wpc, werr, timeoutFired, machine, cancels>>

\* Mutant: WaitLoop has no timeout case.
MainTimeoutMissing == FALSE

\* Mutant: the timeout case returns without closing p.cancel.
MainTimeoutNoClose ==
    /\ ~panicked
    /\ mpc = "wait"
    /\ timeoutFired
    /\ Return("err")
    /\ UNCHANGED <<wpc, werr, cancelCh, waitDone, timeoutFired, machine,
                   cancels, panicked>>

\* WaitLoop, case <-timeout: close p.cancel and fail.
MainTimeout ==
    /\ ~panicked
    /\ mpc = "wait"
    /\ timeoutFired
    /\ CloseCancel
    /\ Return("err")
    /\ UNCHANGED <<wpc, werr, waitDone, timeoutFired, machine, cancels>>

\* WaitLoop, case <-p.cancel: close waitDone and fail.
MainCancelled ==
    /\ ~panicked
    /\ mpc = "wait"
    /\ cancelCh = "closed"
    /\ waitDone' = [waitDone EXCEPT !.state = "closed"]
    /\ Return("err")
    /\ UNCHANGED <<wpc, werr, cancelCh, timeoutFired, machine, cancels,
                   panicked>>

\* The time.After(RestartTimeout) channel fires.
TimerFire ==
    /\ ~panicked
    /\ mpc \in {"check", "wait"}
    /\ ~timeoutFired
    /\ timeoutFired' = TRUE
    /\ UNCHANGED <<mpc, result, wpc, werr, cancelCh, waitDone, machine,
                   cancels, panicked>>

-----------------------------------------------------------------------------
(* waitForCommunicator, in its own goroutine.                              *)

\* select, case <-p.cancel: return "Communicator wait canceled".
WaiterCancelled ==
    /\ ~panicked
    /\ wpc = "loop"
    /\ cancelCh = "closed"
    /\ werr' = "err"
    /\ wpc' = "send"
    /\ UNCHANGED <<mpc, result, cancelCh, waitDone, timeoutFired, machine,
                   cancels, panicked>>

\* select, case <-time.After: the module-load check prints "restarted."
\* on a running machine, and the goroutine returns nil.
WaiterConnected ==
    /\ ~panicked
    /\ wpc = "loop"
    /\ machine \in {"pending", "rebooted"}
    /\ werr' = "nil"
    /\ wpc' = "send"
    /\ UNCHANGED <<mpc, result, cancelCh, waitDone, timeoutFired, machine,
                   cancels, panicked>>

\* Mutant: the goroutine sends on waitDone and keeps looping.
WaiterSendNoReturn ==
    /\ ~panicked
    /\ wpc = "send"
    /\ IF waitDone.state = "closed"
       THEN panicked' = TRUE /\ UNCHANGED <<wpc, waitDone>>
       ELSE /\ waitDone' = [waitDone EXCEPT !.buf = waitDone.buf + 1]
            /\ wpc' = "loop"
            /\ UNCHANGED panicked
    /\ UNCHANGED <<mpc, result, werr, cancelCh, timeoutFired, machine,
                   cancels>>

\* waitDone <- true: a panic if the main goroutine has closed waitDone.
WaiterSend ==
    /\ ~panicked
    /\ wpc = "send"
    /\ IF waitDone.state = "closed"
       THEN panicked' = TRUE /\ UNCHANGED <<wpc, waitDone>>
       ELSE /\ waitDone' = [waitDone EXCEPT !.buf = 1]
            /\ wpc' = "exited"
            /\ UNCHANGED panicked
    /\ UNCHANGED <<mpc, result, werr, cancelCh, timeoutFired, machine,
                   cancels>>

-----------------------------------------------------------------------------
(* Other goroutines and the machine.                                       *)

\* Cancel: under cancelLock, close p.cancel if it is not nil.
Cancel ==
    /\ ~panicked
    /\ cancels < MaxCancels
    /\ cancels' = cancels + 1
    /\ CASE cancelCh = "nil" -> UNCHANGED <<cancelCh, panicked>>
         [] cancelCh = "open" -> cancelCh' = "closed" /\ UNCHANGED panicked
         [] cancelCh = "closed" -> panicked' = TRUE /\ UNCHANGED cancelCh
    /\ UNCHANGED <<mpc, result, wpc, werr, waitDone, timeoutFired, machine>>

MachineDown ==
    /\ machine = "pending"
    /\ machine' = "down"
    /\ UNCHANGED <<mpc, result, wpc, werr, cancelCh, waitDone, timeoutFired,
                   cancels, panicked>>

MachineBoot ==
    /\ machine = "down"
    /\ machine' = "rebooted"
    /\ UNCHANGED <<mpc, result, wpc, werr, cancelCh, waitDone, timeoutFired,
                   cancels, panicked>>

Next ==
    \/ ProvisionStart \/ RestartCommand \/ RetryGiveUp \/ CheckReboot
    \/ MainWaitDone \/ MainTimeout \/ MainCancelled \/ TimerFire
    \/ WaiterCancelled \/ WaiterConnected \/ WaiterSend
    \/ Cancel \/ MachineDown \/ MachineBoot

\* Both goroutines run until they return, the timer fires, and a pending
\* shutdown happens.  A Cancel call need not come, and a machine that went
\* down need not come back: that is what the timeout is for.
Fairness ==
    /\ WF_vars(ProvisionStart) /\ WF_vars(RestartCommand \/ RetryGiveUp)
    /\ WF_vars(CheckReboot) /\ WF_vars(TimerFire)
    /\ WF_vars(MainWaitDone) /\ WF_vars(MainTimeout) /\ WF_vars(MainCancelled)
    /\ WF_vars(WaiterCancelled) /\ WF_vars(WaiterConnected)
    /\ WF_vars(WaiterSend) /\ WF_vars(MachineDown)

Spec == Init /\ [][Next]_vars

FairSpec == Spec /\ Fairness

-----------------------------------------------------------------------------
(* Properties.                                                             *)

\* The channel protocol never makes the runtime panic: no close of a closed
\* p.cancel (main goroutine or Cancel) and no send on a closed waitDone.
NoPanic == ~panicked

\* Without a Cancel call the two goroutines, the timer and the machine can
\* interleave in any order and nothing panics: every panic needs Cancel.
PanicOnlyFromCancel == panicked => cancels > 0

\* Provision reports success only once the machine has actually been
\* through the reboot ("Machine successfully restarted, moving on").
SuccessMeansRebooted == result = "ok" => machine = "rebooted"

\* Cancellation is honoured (spec.md 4.5: a collaborator call must honour
\* the cancellation signal): once Cancel has been called while Provision is
\* running, Provision never reports a successful restart.
CancelHonoured ==
    [](cancels > 0 /\ mpc # "done" => [](result # "ok"))

\* Provision returns (or the process has died), provided the machine that
\* was told to restart eventually goes down: FairSpec assumes
\* WF_vars(MachineDown), the scheduled shutdown.  The reboot-check loop
\* (windows_restart.go:149) has no timeout of its own, so a machine that
\* never goes down keeps Provision looping; the property does not cover
\* that case.
ProvisionReturns == <>(mpc = "done" \/ panicked)

\* Once Provision has returned, the waiter goroutine does not outlive it.
WaiterExits == (mpc = "done") ~> (wpc \in {"none", "exited"} \/ panicked)

=============================================================================
