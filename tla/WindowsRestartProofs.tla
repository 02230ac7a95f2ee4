------------------------ MODULE WindowsRestartProofs ------------------------
(***************************************************************************)
(* Proofs about the channel protocol and the reboot wait of               *)
(* WindowsRestart, for every number of Cancel calls.                      *)
(***************************************************************************)
EXTENDS WindowsRestart, TLAPS

\* Why only Cancel can panic: without a Cancel call, p.cancel is closed
\* only by the step that ends Provision, and waitDone is closed only in the
\* case <-p.cancel, which needs p.cancel closed while Provision runs.
PanicInv ==
    /\ TypeOK
    /\ cancels = 0 => ~panicked
    /\ cancels = 0 /\ mpc # "done" => cancelCh # "closed"
    /\ waitDone.state = "closed" => cancels > 0

\* Why success means a reboot (without flaky checks): the waiter starts
\* only once the machine has gone down, it reports nil only on a rebooted
\* machine, and waitDone holds a value only after the waiter sent it.
RebootInv ==
    /\ TypeOK
    /\ mpc \in {"idle", "restart", "check"} => wpc = "none"
    /\ mpc # "done" => result = "none"
    /\ wpc # "none" => machine \in {"down", "rebooted"}
    /\ wpc \in {"send", "exited"} /\ werr = "nil" => machine = "rebooted"
    /\ waitDone.buf = 1 => wpc = "exited"
    /\ result = "ok" => machine = "rebooted"

\* The states of the waitDone channel.
WaitDoneType == [state : {"none", "open", "closed"}, buf : 0..1]

\* A waitDone channel state built from its two fields.
LEMMA WaitDoneRecord ==
    ASSUME NEW st \in {"none", "open", "closed"}, NEW b \in 0..1
    PROVE  [state |-> st, buf |-> b] \in WaitDoneType
  BY DEF WaitDoneType

\* Changing one field of waitDone keeps it a channel state.
LEMMA WaitDoneExcept ==
    ASSUME NEW w \in WaitDoneType, NEW st \in {"none", "open", "closed"},
           NEW b \in 0..1
    PROVE  /\ [w EXCEPT !.buf = b] \in WaitDoneType
           /\ [w EXCEPT !.state = st] \in WaitDoneType
           /\ [w EXCEPT !.buf = b].state = w.state
  BY DEF WaitDoneType

\* The initial state is well typed.
LEMMA InitTypeOK == Init => TypeOK
  <1> SUFFICES ASSUME Init PROVE TypeOK
    OBVIOUS
  <1>1. waitDone \in WaitDoneType
    BY WaitDoneRecord DEF Init
  <1>2. cancels \in 0..MaxCancels
    BY WindowsRestartAssumption DEF Init
  <1>3. QED
    BY <1>1, <1>2, Zenon DEF Init, TypeOK, WaitDoneType

\* Every step keeps the variables within their types.
LEMMA StepTypeOK == TypeOK /\ [Next]_vars => TypeOK'
  <1> SUFFICES ASSUME TypeOK, [Next]_vars PROVE TypeOK'
    OBVIOUS
  <1>0. MaxCancels \in Nat
    BY WindowsRestartAssumption
  <1>1. CASE ProvisionStart
    BY <1>1, <1>0 DEF ProvisionStart, TypeOK, Return, CloseCancel
  <1>2. CASE RestartCommand
    BY <1>2, <1>0 DEF RestartCommand, TypeOK, Return, CloseCancel
  <1>3. CASE RetryGiveUp
    BY <1>3, <1>0 DEF RetryGiveUp, TypeOK, Return, CloseCancel
  <1>4. CASE CheckReboot
    BY <1>4, <1>0, WaitDoneRecord, WaitDoneExcept DEF CheckReboot, TypeOK, Return, CloseCancel, WaitDoneType
  <1>5. CASE MainWaitDone
    <2>1. waitDone' \in WaitDoneType
      BY <1>5, WaitDoneExcept DEF MainWaitDone, TypeOK, WaitDoneType
    <2>2. /\ cancelCh' \in {"nil", "open", "closed"} /\ panicked' \in BOOLEAN
          /\ mpc' = "done" /\ result' \in {"ok", "err"}
      BY <1>5 DEF MainWaitDone, Return, CloseCancel, TypeOK
    <2>3. QED
      BY <1>5, <2>1, <2>2 DEF MainWaitDone, TypeOK, WaitDoneType
  <1>6. CASE MainTimeout
    BY <1>6, <1>0 DEF MainTimeout, TypeOK, Return, CloseCancel
  <1>7. CASE MainCancelled
    BY <1>7, <1>0, WaitDoneRecord, WaitDoneExcept DEF MainCancelled, TypeOK, Return, CloseCancel, WaitDoneType
  <1>8. CASE TimerFire
    BY <1>8, <1>0 DEF TimerFire, TypeOK, Return, CloseCancel
  <1>9. CASE WaiterCancelled
    BY <1>9, <1>0 DEF WaiterCancelled, TypeOK, Return, CloseCancel
  <1>10. CASE WaiterConnected
    BY <1>10, <1>0 DEF WaiterConnected, TypeOK, Return, CloseCancel
  <1>11. CASE WaiterSend
    <2>1. CASE waitDone.state = "closed"
      BY <1>11, <2>1 DEF WaiterSend, TypeOK
    <2>2. CASE waitDone.state # "closed"
      <3>1. waitDone' \in WaitDoneType
        BY <1>11, <2>2, WaitDoneExcept DEF WaiterSend, TypeOK, WaitDoneType
      <3>2. QED
        BY <1>11, <2>2, <3>1 DEF WaiterSend, TypeOK, WaitDoneType
    <2>3. QED
      BY <2>1, <2>2
  <1>12. CASE Cancel
    <2>1. cancels' \in 0..MaxCancels
      BY <1>12, <1>0 DEF Cancel, TypeOK
    <2>2. cancelCh' \in {"nil", "open", "closed"} /\ panicked' \in BOOLEAN
      BY <1>12 DEF Cancel, TypeOK
    <2>3. QED
      BY <1>12, <2>1, <2>2 DEF Cancel, TypeOK
  <1>13. CASE MachineDown
    BY <1>13, <1>0 DEF MachineDown, TypeOK, Return, CloseCancel
  <1>14. CASE MachineBoot
    BY <1>14, <1>0 DEF MachineBoot, TypeOK, Return, CloseCancel
  <1>15. CASE UNCHANGED vars
    BY <1>15 DEF vars, TypeOK
  <1>16. QED
    BY <1>1, <1>2, <1>3, <1>4, <1>5, <1>6, <1>7, <1>8, <1>9, <1>10, <1>11, <1>12, <1>13, <1>14, <1>15 DEF Next

\* Every variable of the restart provisioner keeps its type, for every
\* number of Cancel calls.
THEOREM TypeCorrect == Spec => []TypeOK
  BY InitTypeOK, StepTypeOK, PTL DEF Spec

-----------------------------------------------------------------------------

\* The initial state satisfies PanicInv.
LEMMA InitPanicInv == Init => PanicInv
  BY InitTypeOK DEF Init, PanicInv

\* Every step keeps PanicInv.
LEMMA StepPanicInv == PanicInv /\ [Next]_vars => PanicInv'
  <1> SUFFICES ASSUME PanicInv, [Next]_vars PROVE PanicInv'
    OBVIOUS
  <1>0. TypeOK'
    BY StepTypeOK DEF PanicInv
  <1>1. CASE ProvisionStart
    BY <1>1, <1>0 DEF ProvisionStart, PanicInv, TypeOK, Return, CloseCancel
  <1>2. CASE RestartCommand
    BY <1>2, <1>0 DEF RestartCommand, PanicInv, TypeOK, Return, CloseCancel
  <1>3. CASE RetryGiveUp
    BY <1>3, <1>0 DEF RetryGiveUp, PanicInv, TypeOK, Return, CloseCancel
  <1>4. CASE CheckReboot
    BY <1>4, <1>0 DEF CheckReboot, PanicInv, TypeOK, Return, CloseCancel
  <1>5. CASE MainWaitDone
    BY <1>5, <1>0 DEF MainWaitDone, PanicInv, TypeOK, Return, CloseCancel
  <1>6. CASE MainTimeout
    BY <1>6, <1>0 DEF MainTimeout, PanicInv, TypeOK, Return, CloseCancel
  <1>7. CASE MainCancelled
    BY <1>7, <1>0 DEF MainCancelled, PanicInv, TypeOK, Return, CloseCancel
  <1>8. CASE TimerFire
    BY <1>8, <1>0 DEF TimerFire, PanicInv, TypeOK, Return, CloseCancel
  <1>9. CASE WaiterCancelled
    BY <1>9, <1>0 DEF WaiterCancelled, PanicInv, TypeOK, Return, CloseCancel
  <1>10. CASE WaiterConnected
    BY <1>10, <1>0 DEF WaiterConnected, PanicInv, TypeOK, Return, CloseCancel
  <1>11. CASE WaiterSend
    BY <1>11, <1>0 DEF WaiterSend, PanicInv, TypeOK, Return, CloseCancel
  <1>12. CASE Cancel
    BY <1>12, <1>0 DEF Cancel, PanicInv, TypeOK, Return, CloseCancel
  <1>13. CASE MachineDown
    BY <1>13, <1>0 DEF MachineDown, PanicInv, TypeOK, Return, CloseCancel
  <1>14. CASE MachineBoot
    BY <1>14, <1>0 DEF MachineBoot, PanicInv, TypeOK, Return, CloseCancel
  <1>15. CASE UNCHANGED vars
    BY <1>15 DEF vars, PanicInv, TypeOK
  <1>16. QED
    BY <1>1, <1>2, <1>3, <1>4, <1>5, <1>6, <1>7, <1>8, <1>9, <1>10, <1>11, <1>12, <1>13, <1>14, <1>15 DEF Next

\* Only a Cancel call can make the runtime panic: whatever order the main
\* goroutine, the waiter, the timer and the machine take, without Cancel
\* p.cancel is never closed twice and waitDone is never sent on closed.
THEOREM PanicOnlyFromCancelTheorem == Spec => []PanicOnlyFromCancel
  <1>1. PanicInv => PanicOnlyFromCancel
    BY DEF PanicInv, PanicOnlyFromCancel, TypeOK
  <1>2. QED
    BY <1>1, InitPanicInv, StepPanicInv, PTL DEF Spec

-----------------------------------------------------------------------------

\* The initial state satisfies RebootInv.
LEMMA InitRebootInv == Init => RebootInv
  BY InitTypeOK DEF Init, RebootInv

\* Without flaky checks, every step keeps RebootInv.
LEMMA StepRebootInv ==
    ASSUME ~FlakyCheck
    PROVE  RebootInv /\ [Next]_vars => RebootInv'
  <1> SUFFICES ASSUME RebootInv, [Next]_vars PROVE RebootInv'
    OBVIOUS
  <1>0. TypeOK'
    BY StepTypeOK DEF RebootInv
  <1>1. CASE ProvisionStart
    BY <1>1, <1>0 DEF ProvisionStart, RebootInv, Return, CloseCancel
  <1>2. CASE RestartCommand
    BY <1>2, <1>0 DEF RestartCommand, RebootInv, Return, CloseCancel
  <1>3. CASE RetryGiveUp
    BY <1>3, <1>0 DEF RetryGiveUp, RebootInv, Return, CloseCancel
  <1>4. CASE CheckReboot
    BY <1>4, <1>0 DEF CheckReboot, RebootInv, Return, CloseCancel
  <1>5. CASE MainWaitDone
    <2>1. CASE werr = "err"
      BY <1>5, <2>1, <1>0 DEF MainWaitDone, RebootInv, Return, CloseCancel
    <2>2. CASE werr = "nil"
      <3>1. wpc = "exited" /\ machine = "rebooted"
        BY <1>5, <2>2 DEF MainWaitDone, RebootInv
      <3>2. QED
        BY <1>5, <2>2, <3>1, <1>0 DEF MainWaitDone, RebootInv, Return, CloseCancel
    <2>3. QED
      BY <2>1, <2>2 DEF RebootInv, TypeOK
  <1>6. CASE MainTimeout
    BY <1>6, <1>0 DEF MainTimeout, RebootInv, Return, CloseCancel
  <1>7. CASE MainCancelled
    BY <1>7, <1>0 DEF MainCancelled, RebootInv, Return, CloseCancel
  <1>8. CASE TimerFire
    BY <1>8, <1>0 DEF TimerFire, RebootInv, Return, CloseCancel
  <1>9. CASE WaiterCancelled
    BY <1>9, <1>0 DEF WaiterCancelled, RebootInv, Return, CloseCancel
  <1>10. CASE WaiterConnected
    BY <1>10, <1>0 DEF WaiterConnected, RebootInv, Return, CloseCancel
  <1>11. CASE WaiterSend
    BY <1>11, <1>0 DEF WaiterSend, RebootInv, Return, CloseCancel
  <1>12. CASE Cancel
    BY <1>12, <1>0 DEF Cancel, RebootInv, Return, CloseCancel
  <1>13. CASE MachineDown
    BY <1>13, <1>0 DEF MachineDown, RebootInv, Return, CloseCancel
  <1>14. CASE MachineBoot
    BY <1>14, <1>0 DEF MachineBoot, RebootInv, Return, CloseCancel
  <1>15. CASE UNCHANGED vars
    BY <1>15, <1>0 DEF vars, RebootInv
  <1>16. QED
    BY <1>1, <1>2, <1>3, <1>4, <1>5, <1>6, <1>7, <1>8, <1>9, <1>10, <1>11, <1>12, <1>13, <1>14, <1>15 DEF Next

\* When the reboot-check command cannot fail to start on a running machine,
\* Provision reports success only after the machine rebooted: the waiter
\* starts once the machine went down and answers nil only after the boot.
\* (The restart_flaky run shows the hypothesis is needed.)
THEOREM SuccessMeansRebootedTheorem ==
    ASSUME ~FlakyCheck
    PROVE  Spec => []SuccessMeansRebooted
  <1>1. RebootInv => SuccessMeansRebooted
    BY DEF RebootInv, SuccessMeansRebooted
  <1>2. RebootInv /\ [Next]_vars => RebootInv'
    BY StepRebootInv
  <1>3. QED
    BY <1>1, <1>2, InitRebootInv, PTL DEF Spec

=============================================================================
