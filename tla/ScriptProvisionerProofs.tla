--------------------- MODULE ScriptProvisionerProofs ---------------------
(***************************************************************************)
(* Proofs about the script provisioners, for every bound on the number of *)
(* scripts and every configuration: the type invariant, that no script is *)
(* executed twice, and that New plus Provision implement the abstract     *)
(* provisioner.                                                            *)
(***************************************************************************)
EXTENDS ScriptProvisioner, TLAPS

\* A configuration names at most MaxScripts files plus the inline file.
LEMMA NumScriptsBound ==
    ASSUME NEW c \in Configs
    PROVE  NumScripts(c) \in 0..(MaxScripts + 1)
  BY ScriptProvisionerAssumption
     DEF Configs, NumScripts, FileScripts, InlineScripts

\* A configuration Prepare accepts names either files or inline commands,
\* never both, so at most MaxScripts scripts.
LEMMA PreparedBound ==
    ASSUME NEW k \in Kinds, NEW c \in Configs, PrepareOK(k, c)
    PROVE  NumScripts(c) <= MaxScripts
  <1>1. SourcesOK(c)
    BY ScriptProvisionerAssumption
       DEF PrepareOK, PrepareSSH, PreparePowershell, PrepareCmd
  <1>2. QED
    BY <1>1, ScriptProvisionerAssumption
       DEF SourcesOK, Configs, NumScripts, FileScripts, InlineScripts

(***************************************************************************)
(* The inductive invariant.  Scripts run in index order: nothing after    *)
(* idx has run, idx itself has run exactly when Provision is cleaning it  *)
(* up (or has just failed on it), and every earlier script ran once.  The *)
(* loop never goes past the last configured script, and Provision        *)
(* succeeds only at the end of it.                                        *)
(***************************************************************************)
RunInv ==
    /\ TypeOK
    /\ idx <= NumScripts(cfg) + 1
    /\ \A i \in ScriptIdx : runs[i] <= 1
    /\ \A i \in ScriptIdx : i > idx => runs[i] = 0
    /\ pc \in {"connect", "prepare", "extract", "open", "run"} => runs[idx] = 0
    /\ pc \in {"run", "cleanup"} => idx <= NumScripts(cfg)
    /\ pc = "cleanup" => runs[idx] = 1
    /\ (pc = "done") <=> (result # "none")
    /\ result = "ok" => idx = NumScripts(cfg) + 1 /\ runs[idx] = 0
    /\ pc \in {"extract", "open", "run", "cleanup"} \/ result = "ok"
          => NumScripts(cfg) <= MaxScripts

\* The initial states satisfy RunInv.
LEMMA InitRunInv == Init => RunInv
  <1> SUFFICES ASSUME Init PROVE RunInv
    OBVIOUS
  <1>1. NumScripts(cfg) \in 0..(MaxScripts + 1)
    BY NumScriptsBound DEF Init
  <1>2. 1 \in ScriptIdx
    BY ScriptProvisionerAssumption DEF ScriptIdx
  <1>3. TypeOK
    <2>1. runs \in [ScriptIdx -> 0..2]
      BY DEF Init
    <2>2. QED
      BY <1>2, <2>1, Zenon DEF Init, TypeOK
  <1>4. idx <= NumScripts(cfg) + 1
    BY <1>1 DEF Init
  <1>5. \A i \in ScriptIdx : runs[i] = 0
    BY DEF Init
  <1>6. QED
    BY <1>1, <1>2, <1>3, <1>4, <1>5 DEF Init, RunInv

\* OpenScript without the runners it uploads: it ends the loop, or moves
\* to the run, or fails.
LEMMA OpenScriptShape ==
    ASSUME OpenScript
    PROVE  /\ pc = "open"
           /\ UNCHANGED <<kind, cfg, idx, runs, completed, leftover>>
           /\ IF idx > NumScripts(cfg)
              THEN Return("ok")
              ELSE (pc' = "run" /\ UNCHANGED result) \/ Return("err")
  BY Zenon DEF OpenScript

\* Every step keeps RunInv: one step per action of Provision and New.
LEMMA StepRunInv == RunInv /\ [Next]_vars => RunInv'
  <1> SUFFICES ASSUME RunInv, [Next]_vars PROVE RunInv'
    OBVIOUS
  <1> USE DEF RunInv, TypeOK
  <1>0. /\ NumScripts(cfg) \in 0..(MaxScripts + 1)
        /\ ScriptIdx = 1..(MaxScripts + 1)
        /\ MaxScripts \in Nat
    BY NumScriptsBound, ScriptProvisionerAssumption DEF ScriptIdx
  <1>1. CASE Connect
    BY <1>1 DEF Connect, Return
  <1>2. CASE Prepare
    <2>1. CASE PrepareOK(kind, cfg)
      BY <1>2, <2>1, PreparedBound DEF Prepare
    <2>2. CASE ~PrepareOK(kind, cfg)
      BY <1>2, <2>2 DEF Prepare, Return
    <2>3. QED
      BY <2>1, <2>2
  <1>3. CASE ExtractInline
    BY <1>3 DEF ExtractInline, Return
  <1>4. CASE OpenScript
    <2>1. wrappers' \in Nat
      BY <1>4 DEF OpenScript, RunnerUploads
    <2>2. /\ pc = "open" /\ UNCHANGED <<kind, cfg, idx, runs, completed, leftover>>
          /\ \/ idx > NumScripts(cfg) /\ Return("ok")
             \/ idx <= NumScripts(cfg) /\ pc' = "run" /\ UNCHANGED result
             \/ idx <= NumScripts(cfg) /\ Return("err")
      BY <1>0, <1>4, OpenScriptShape
    <2>3. QED
      BY <1>0, <2>1, <2>2 DEF Return
  <1>5. CASE RunScript
    <2>1. PICK status \in Statuses(kind) :
            /\ completed' = IF status = "valid" THEN completed \cup {idx}
                                               ELSE completed
            /\ IF Accept(kind, cfg, status)
               THEN /\ pc' = IF kind = "ssh" /\ cfg.skipClean THEN "open"
                                                             ELSE "cleanup"
                    /\ idx' = IF kind = "ssh" /\ cfg.skipClean THEN idx + 1
                                                              ELSE idx
                    /\ UNCHANGED result
               ELSE Return("err") /\ UNCHANGED idx
      BY <1>5 DEF RunScript
    <2>2. /\ pc = "run" /\ leftover' = TRUE
          /\ runs' = [runs EXCEPT ![idx] = @ + 1]
          /\ UNCHANGED <<kind, cfg, wrappers>>
      BY <1>5 DEF RunScript
    <2>3. /\ runs'[idx] = 1
          /\ \A i \in ScriptIdx : i # idx => runs'[i] = runs[i]
      BY <1>0, <2>2
    <2>4. completed' \subseteq ScriptIdx
      BY <2>1
    <2>5. CASE Accept(kind, cfg, status) /\ kind = "ssh" /\ cfg.skipClean
      BY <1>0, <2>1, <2>2, <2>3, <2>4, <2>5
    <2>6. CASE Accept(kind, cfg, status) /\ ~(kind = "ssh" /\ cfg.skipClean)
      BY <1>0, <2>1, <2>2, <2>3, <2>4, <2>6
    <2>7. CASE ~Accept(kind, cfg, status)
      BY <1>0, <2>1, <2>2, <2>3, <2>4, <2>7 DEF Return
    <2>8. QED
      BY <2>5, <2>6, <2>7
  <1>6. CASE AttemptFails
    BY <1>6 DEF AttemptFails
  <1>7. CASE RetryGiveUp
    BY <1>7 DEF RetryGiveUp, Return
  <1>8. CASE Cleanup
    <2>1. /\ pc = "cleanup" /\ pc' = "open" /\ idx' = idx + 1
          /\ UNCHANGED <<kind, cfg, runs, completed, wrappers, result>>
          /\ leftover' \in BOOLEAN
      BY <1>8 DEF Cleanup
    <2>2. idx + 1 \in ScriptIdx /\ idx + 1 <= NumScripts(cfg) + 1
      BY <1>0, <2>1
    <2>3. runs[idx + 1] = 0
      BY <1>0, <2>2
    <2>4. TypeOK'
      BY <2>1, <2>2
    <2>5. NumScripts(cfg)' = NumScripts(cfg)
      BY <2>1 DEF NumScripts, FileScripts, InlineScripts
    <2>6. QED
      BY <2>1, <2>2, <2>3, <2>4, <2>5
  <1>9. CASE UNCHANGED vars
    BY <1>9 DEF vars
  <1>10. QED
    BY <1>1, <1>2, <1>3, <1>4, <1>5, <1>6, <1>7, <1>8, <1>9 DEF Next

\* RunInv holds in every reachable state.
LEMMA AlwaysRunInv == Spec => []RunInv
  BY InitRunInv, StepRunInv, PTL DEF Spec

\* New and Provision keep every variable within its type.
THEOREM TypeCorrect == Spec => []TypeOK
  BY AlwaysRunInv, PTL DEF RunInv

\* retryable repeats only attempts whose command never started, so no
\* script is executed twice on the remote host, whatever the configuration
\* and however many scripts it names.
THEOREM ExactlyOnceTheorem == Spec => []ExactlyOnce
  <1>1. RunInv => ExactlyOnce
    BY DEF RunInv, ExactlyOnce
  <1>2. QED
    BY AlwaysRunInv, <1>1, PTL

-----------------------------------------------------------------------------
(* Refinement: the abstract provisioner under the mapping of Abstract.    *)

\* Provision returns an error without running another script.
LEMMA FailStep ==
    ASSUME RunInv, result = "none", result' = "err",
           UNCHANGED <<cfg, idx, runs>>
    PROVE  Abstract!Fail
  BY DEF Abstract!Fail, RunInv

\* A step that changes none of the mapped state.
LEMMA StutterStep ==
    ASSUME UNCHANGED <<cfg, idx, runs, result>>
    PROVE  UNCHANGED Abstract!vars
  BY DEF Abstract!vars, NumScripts, FileScripts, InlineScripts

\* New plus Provision implement the abstract provisioner: every step
\* runs the next script once, succeeds after the last, fails, or leaves
\* the mapped state unchanged (connecting, preparing, retrying, cleanup).
THEOREM Refinement == Spec => AbstractSpec
  <1>1. Init => Abstract!Init
    <2> SUFFICES ASSUME Init PROVE Abstract!Init
      OBVIOUS
    <2>1. NumScripts(cfg) \in Nat
      BY NumScriptsBound, ScriptProvisionerAssumption DEF Init
    <2>2. 1 \in ScriptIdx
      BY ScriptProvisionerAssumption DEF ScriptIdx
    <2>3. QED
      BY <2>1, <2>2 DEF Init, Abstract!Init
  <1>2. RunInv /\ [Next]_vars => [Abstract!Next]_Abstract!vars
    <2> SUFFICES ASSUME RunInv, [Next]_vars
                 PROVE  [Abstract!Next]_Abstract!vars
      OBVIOUS
    <2>0. /\ NumScripts(cfg) \in 0..(MaxScripts + 1)
          /\ ScriptIdx = 1..(MaxScripts + 1)
          /\ MaxScripts \in Nat
      BY NumScriptsBound, ScriptProvisionerAssumption DEF RunInv, TypeOK, ScriptIdx
    <2>a. pc # "done" => result = "none"
      BY DEF RunInv
    <2>b. idx \in Nat /\ runs \in [ScriptIdx -> Nat]
      BY <2>0 DEF RunInv, TypeOK
    <2>1. CASE Connect
      <3>1. CASE pc' = "prepare" /\ UNCHANGED result
        BY <2>1, <3>1, StutterStep DEF Connect
      <3>2. CASE Return("err")
        BY <2>1, <2>a, <3>2, FailStep DEF Connect, Return, Abstract!Next
      <3>3. QED
        BY <2>1, <3>1, <3>2 DEF Connect
    <2>2. CASE Prepare
      <3>1. CASE PrepareOK(kind, cfg)
        BY <2>2, <3>1, StutterStep DEF Prepare
      <3>2. CASE ~PrepareOK(kind, cfg)
        BY <2>2, <2>a, <3>2, FailStep DEF Prepare, Return, Abstract!Next
      <3>3. QED
        BY <3>1, <3>2
    <2>3. CASE ExtractInline
      <3>1. CASE pc' = "open" /\ UNCHANGED result
        BY <2>3, <3>1, StutterStep DEF ExtractInline
      <3>2. CASE Return("err")
        BY <2>3, <2>a, <3>2, FailStep DEF ExtractInline, Return, Abstract!Next
      <3>3. QED
        BY <2>3, <3>1, <3>2 DEF ExtractInline
    <2>4. CASE OpenScript
      <3>1. CASE idx > NumScripts(cfg)
        <4>1. idx = NumScripts(cfg) + 1 /\ runs[idx] = 0
          BY <2>4, <3>1, <2>0, <2>b DEF OpenScript, RunInv
        <4>2. result = "none" /\ result' = "ok" /\ UNCHANGED <<cfg, idx, runs>>
          BY <2>4, <2>a, <3>1 DEF OpenScript, Return
        <4>3. Abstract!Succeed
          BY <4>1, <4>2, <2>0 DEF Abstract!Succeed
        <4>4. QED
          BY <4>3 DEF Abstract!Next
      <3>2. CASE idx <= NumScripts(cfg)
        <4>1. CASE pc' = "run" /\ UNCHANGED result
          BY <2>4, <4>1, StutterStep DEF OpenScript
        <4>2. CASE Return("err")
          BY <2>4, <2>a, <4>2, FailStep DEF OpenScript, Return, Abstract!Next
        <4>3. (pc' = "run" /\ UNCHANGED result) \/ Return("err")
          BY <2>4, <3>2, <2>0, <2>b, OpenScriptShape
        <4>4. QED
          BY <4>1, <4>2, <4>3
      <3>3. QED
        BY <3>1, <3>2, <2>0, <2>b
    <2>5. CASE RunScript
      <3>1. /\ pc = "run" /\ runs' = [runs EXCEPT ![idx] = @ + 1]
            /\ UNCHANGED cfg
        BY <2>5 DEF RunScript
      <3>2. /\ idx <= NumScripts(cfg) /\ runs[idx] = 0 /\ result = "none"
            /\ idx \in ScriptIdx
        BY <3>1 DEF RunInv, TypeOK
      <3>3. /\ \/ idx' = idx
               \/ idx' = idx + 1 /\ idx + 1 \in ScriptIdx /\ runs[idx + 1] = 0
            /\ result' \in {"none", "err"}
        BY <2>5, <3>2, <2>0 DEF RunScript, Return, RunInv
      <3>4. idx' - 1 + runs'[idx'] = idx - 1 + runs[idx] + 1
        <4>1. CASE idx' = idx
          BY <3>1, <3>2, <4>1, <2>b
        <4>2. CASE idx' = idx + 1 /\ idx + 1 \in ScriptIdx /\ runs[idx + 1] = 0
          BY <3>1, <3>2, <4>2, <2>b
        <4>3. QED
          BY <3>3, <4>1, <4>2
      <3>5. Abstract!Run
        BY <3>1, <3>2, <3>3, <3>4, <2>0
           DEF Abstract!Run, NumScripts, FileScripts, InlineScripts
      <3>6. QED
        BY <3>5 DEF Abstract!Next
    <2>6. CASE AttemptFails
      BY <2>6, StutterStep DEF AttemptFails
    <2>7. CASE RetryGiveUp
      BY <2>7, <2>a, FailStep DEF RetryGiveUp, Return, Abstract!Next
    <2>8. CASE Cleanup
      <3>1. /\ pc = "cleanup" /\ idx' = idx + 1
            /\ UNCHANGED <<cfg, runs, result>>
        BY <2>8 DEF Cleanup
      <3>2. /\ idx + 1 \in ScriptIdx /\ runs[idx + 1] = 0 /\ runs[idx] = 1
            /\ idx \in ScriptIdx
        BY <3>1, <2>0 DEF RunInv, TypeOK
      <3>3. UNCHANGED Abstract!vars
        BY <3>1, <3>2, <2>0
           DEF Abstract!vars, NumScripts, FileScripts, InlineScripts
      <3>4. QED
        BY <3>3
    <2>9. CASE UNCHANGED vars
      BY <2>9, StutterStep DEF vars
    <2>10. QED
      BY <2>1, <2>2, <2>3, <2>4, <2>5, <2>6, <2>7, <2>8, <2>9 DEF Next
  <1>3. QED
    BY <1>1, <1>2, AlwaysRunInv, PTL DEF Spec, AbstractSpec, Abstract!Spec

-----------------------------------------------------------------------------
(* Cleanup and completion.                                                 *)

\* Why success leaves no script behind: whenever Provision is between
\* scripts (or has succeeded) the last upload has been removed, unless SSH
\* skips the cleanup.
CleanInv ==
    pc \in {"connect", "prepare", "extract", "open"} \/ result = "ok"
        => ~leftover \/ (kind = "ssh" /\ cfg.skipClean)

\* Why a Windows provisioner's success means every script completed: the
\* scripts before idx completed, idx itself once it is being cleaned up.
CompletedInv ==
    kind # "ssh" =>
        /\ pc \in {"connect", "prepare", "extract", "open", "run"}
               => completed = 1..(idx - 1)
        /\ pc = "cleanup" => completed = 1..idx
        /\ result = "ok" => completed = 1..(idx - 1)

\* The initial states satisfy CleanInv and CompletedInv.
LEMMA InitCleanCompleted == Init => CleanInv /\ CompletedInv
  BY DEF Init, CleanInv, CompletedInv

\* Every step keeps CleanInv.
LEMMA StepCleanInv == RunInv /\ CleanInv /\ [Next]_vars => CleanInv'
  <1> SUFFICES ASSUME RunInv, CleanInv, [Next]_vars PROVE CleanInv'
    OBVIOUS
  <1>1. CASE Connect
    BY <1>1 DEF Connect, Return, CleanInv
  <1>2. CASE Prepare
    BY <1>2 DEF Prepare, Return, CleanInv
  <1>3. CASE ExtractInline
    BY <1>3 DEF ExtractInline, Return, CleanInv
  <1>4. CASE OpenScript
    BY <1>4 DEF OpenScript, Return, CleanInv
  <1>5. CASE RunScript
    BY <1>5 DEF RunScript, Return, CleanInv, RunInv
  <1>6. CASE AttemptFails
    BY <1>6 DEF AttemptFails, CleanInv, RunInv
  <1>7. CASE RetryGiveUp
    BY <1>7 DEF RetryGiveUp, Return, CleanInv
  <1>8. CASE Cleanup
    BY <1>8 DEF Cleanup, CleanInv
  <1>9. CASE UNCHANGED vars
    BY <1>9 DEF vars, CleanInv
  <1>10. QED
    BY <1>1, <1>2, <1>3, <1>4, <1>5, <1>6, <1>7, <1>8, <1>9 DEF Next

\* The Windows kinds accept exactly the statuses of a finished script.
LEMMA WindowsAccept ==
    ASSUME NEW k \in Kinds, k # "ssh", NEW c, NEW st
    PROVE  Accept(k, c, st) <=> st = "valid"
  BY ScriptProvisionerAssumption
     DEF Accept, AcceptPowershell, AcceptCmd

\* Every step keeps CompletedInv.
LEMMA StepCompletedInv ==
    RunInv /\ CompletedInv /\ [Next]_vars => CompletedInv'
  <1> SUFFICES ASSUME RunInv, CompletedInv, [Next]_vars, kind' # "ssh"
               PROVE  CompletedInv'
    BY DEF CompletedInv
  <1>a. kind' = kind
    BY DEF Next, vars, Connect, Prepare, ExtractInline, OpenScript,
           RunScript, AttemptFails, RetryGiveUp, Cleanup
  <1>b. idx \in Nat \ {0} /\ kind \in Kinds
    BY ScriptProvisionerAssumption DEF RunInv, TypeOK, ScriptIdx
  <1>0. kind # "ssh" /\ kind \in Kinds /\ idx \in Nat \ {0}
    BY <1>a, <1>b
  <1>1. CASE Connect
    BY <1>0, <1>1 DEF Connect, Return, CompletedInv
  <1>2. CASE Prepare
    BY <1>0, <1>2 DEF Prepare, Return, CompletedInv
  <1>3. CASE ExtractInline
    BY <1>0, <1>3 DEF ExtractInline, Return, CompletedInv
  <1>4. CASE OpenScript
    BY <1>0, <1>4 DEF OpenScript, Return, CompletedInv
  <1>5. CASE RunScript
    <2>1. PICK st \in Statuses(kind) :
            /\ completed' = IF st = "valid" THEN completed \cup {idx}
                                             ELSE completed
            /\ IF Accept(kind, cfg, st)
               THEN /\ pc' = IF kind = "ssh" /\ cfg.skipClean THEN "open"
                                                              ELSE "cleanup"
                    /\ idx' = IF kind = "ssh" /\ cfg.skipClean THEN idx + 1
                                                               ELSE idx
                    /\ UNCHANGED result
               ELSE Return("err") /\ UNCHANGED idx
      BY <1>5 DEF RunScript
    <2>2. completed = 1..(idx - 1)
      BY <1>0, <1>5 DEF RunScript, CompletedInv
    <2>3. CASE st = "valid"
      <3>0. result = "none"
        BY <1>5 DEF RunScript, RunInv
      <3>1. /\ pc' = "cleanup" /\ idx' = idx /\ result' = "none"
            /\ completed' = completed \cup {idx}
        BY <1>0, <2>1, <2>3, <3>0, WindowsAccept
      <3>2. 1..(idx - 1) \cup {idx} = 1..idx
        BY <1>0
      <3>3. completed' = 1..idx'
        BY <2>2, <3>1, <3>2
      <3>4. QED
        BY <3>1, <3>3 DEF CompletedInv
    <2>4. CASE st # "valid"
      <3>1. pc' = "done" /\ result' = "err"
        BY <1>0, <2>1, <2>4, WindowsAccept DEF Return
      <3>2. QED
        BY <3>1 DEF CompletedInv
    <2>5. QED
      BY <2>3, <2>4
  <1>6. CASE AttemptFails
    BY <1>0, <1>6 DEF AttemptFails, CompletedInv
  <1>7. CASE RetryGiveUp
    BY <1>0, <1>7 DEF RetryGiveUp, Return, CompletedInv
  <1>8. CASE Cleanup
    BY <1>0, <1>8 DEF Cleanup, CompletedInv
  <1>9. CASE UNCHANGED vars
    BY <1>9 DEF vars, CompletedInv
  <1>10. QED
    BY <1>1, <1>2, <1>3, <1>4, <1>5, <1>6, <1>7, <1>8, <1>9 DEF Next

\* A successful Provision removed the copy of every script it uploaded to
\* RemotePath (cleanupRemoteFile), unless SSH was told to skip the cleanup,
\* for every kind and number of scripts.  The elevated runners are not
\* covered: no code removes them.
THEOREM CleanOnSuccessTheorem == Spec => []CleanOnSuccess
  <1>1. RunInv /\ CleanInv => CleanOnSuccess
    BY DEF CleanInv, CleanOnSuccess
  <1>2. QED
    BY <1>1, InitRunInv, StepRunInv, InitCleanCompleted, StepCleanInv,
       PTL DEF Spec

\* The PowerShell and Windows shell provisioners succeed only after every
\* script of the configuration finished with an accepted status, for
\* every number of scripts.  (The SSH provisioner does not: see the
\* script_ssh_disconnect run.)
THEOREM SuccessMeansAllCompletedTheorem ==
    ASSUME "ssh" \notin Kinds
    PROVE  Spec => []SuccessMeansAllCompleted
  <1>1. RunInv /\ CompletedInv => SuccessMeansAllCompleted
    <2> SUFFICES ASSUME RunInv, CompletedInv, result = "ok"
                 PROVE  completed = 1..NumScripts(cfg)
      BY DEF SuccessMeansAllCompleted
    <2>1. kind # "ssh"
      BY DEF RunInv, TypeOK
    <2>2. idx = NumScripts(cfg) + 1 /\ completed = 1..(idx - 1)
      BY <2>1 DEF RunInv, CompletedInv
    <2>3. NumScripts(cfg) \in Nat
      BY NumScriptsBound DEF RunInv, TypeOK
    <2>4. QED
      BY <2>2, <2>3
  <1>2. QED
    BY <1>1, InitRunInv, StepRunInv, InitCleanCompleted, StepCompletedInv,
       PTL DEF Spec

=============================================================================
