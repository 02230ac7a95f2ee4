# Formal models of laforge

This directory holds TLA+ models of the laforge build engine and its
provisioners, together with the TLC configurations that model-check them and
TLAPS proofs. `PROJECT.json` lists the components, runs, mutants, the map
from each definition to the source lines it models, findings, hazards and
theorems. Run `tlc -workers 2 -config X.cfg MC_M` in this directory to repeat
a run, and `tlapm OrchestratorProofs.tla` (likewise `ScriptProvisionerProofs`,
`RetryableProofs`, `WindowsRestartProofs`, `RevisionPathProofs`) to check the
proofs.

## 1. Inventory of the system

| Part | Source | State | Operations | Module |
|---|---|---|---|---|
| Revision record | `src/core/revision.go` | status, checksum, external id, timestamp, path | `Touch`, `TouchWithID`, `Taint`, `AbsPath`, `Filename`, `ParseRevisionFile`, JSON I/O | `Revision` (status, checksum, id, mutators), `RevisionPath` (paths, load) |
| Build orchestrator + classifier | not under `src/`; `spec.md` 4.3–4.5 | desired topology, records on disk, per-pass phase and decision | classify, settle, skip, apply, commit, fail, cancel, crash, end of pass | `Orchestrator` (spec-modelled) |
| Windows restart provisioner | `src/provisioner/windows_restart.go` | `p.cancel` channel, `waitDone` channel, timer, waiter goroutine, machine | `Provision`, `waitForRestart`, `waitForCommunicator`, `Cancel`, `retryable` | `WindowsRestart` |
| Script provisioners + `New` | `src/provisioner/cmd.go` (Windows shell and SSH), `src/unnamed/part_003` (PowerShell), `src/unnamed/part_002` (`New`) | configuration, current script, uploaded remote file | `New` (connect, `SetConfig`→`Prepare`), `Provision` (extract inline, upload+run in `retryable`, exit check, `cleanupRemoteFile`) | `ScriptProvisioner`, refining `AbstractProvisioner`; `Retryable` (the retry loop in seconds) |
| Config helpers | `src/provisioner/cmd.go:417-460` | none | build config structs | not modelled (values enter as configurations) |
| Fingerprint `Remote.Hash` | `src/core/remote_state_config.go` | none | xxhash of a `%v`-formatted string | `RemoteHash` (the formatting exactly, xxhash as injective) |
| Formatter, AMI, Local, DNS template, CLI UI | `src/core/formatter`, `src/core/ami.go`, `src/unnamed/part_000..002` | none | printing, templates, predicates | not modelled (out of scope per `spec.md`) |

**How the parts interact.** A build pass walks the topology from the
Environment down. For each node, the classifier compares the stored revision
with the node's fingerprint. Its decision table yields CREATE, TOUCH, DELETE,
REBUILD or NONE. The orchestrator hands changed nodes to a provisioning
collaborator, parents before children. On success it commits
`TouchWithID` (CREATE) or `Touch` (TOUCH/REBUILD) to the revision file. The
collaborators are the provisioners. `New` connects a communicator (SSH or
WinRM) and validates the configuration. `Provision` then uploads and runs
scripts, or restarts a Windows machine and waits for it to return. An
operator can `Cancel` a provisioner from another goroutine.

**What is hard.**
- The restart provisioner closes one channel from two goroutines: the
  main `WaitLoop` and a concurrent `Cancel`. It also shares `waitDone`
  between the main loop and the waiter goroutine.
- Every provisioner retries until a start timeout, and an upload can
  reach the host on an attempt that later fails.
- Across build passes, records persist while the operator edits the
  topology, taints records, cancels passes, or the process crashes.

**What makes each part correct.**
- Orchestrator:
  - Dependency order holds.
  - A clean re-run is a no-op.
  - No ACTIVE record lacks its external id.
  - Every pass ends.
- Restart provisioner:
  - It never panics.
  - It reports success only after a reboot.
  - It always returns, and its goroutine exits.
- Script provisioners:
  - They succeed only when every script finished with an accepted status.
  - They never run a script twice.
  - They leave no uploaded script behind on success.
  - They run the scripts once each, in order (the abstract provisioner).
  - Their retries stop within the start timeout plus one sleep and call.
- Revision paths: no two nodes share a revision file.
- Fingerprints: two different definitions never share a fingerprint.

## 2. Modules and how they correspond to the code

- **`Revision`**. `Revision` is the record type (`revision.go:52-61`), with
  `RevStatuses` and `RevMods` from the constant blocks. The mutators
  `Touch`, `TouchWithID` and `Taint` are record updates:
  - `Touch` sets ACTIVE and nothing else, as in the code. It does not set
    the checksum or the id.
  - `Taint` sets STALE and the sentinel checksum 666.

  The fingerprints (`Fingerprints`) and external ids (`ExternalIDs`) are
  constants. The timestamp is left out because no property reads it.
- **`Orchestrator`**.
  - Variables:
    - the desired topology: `present`, `fp` and `forced`;
    - the store: `onDisk` and `rec`;
    - the pass: `inPass`, `phase` and `action`;
    - bounded counters: `passes` and `edits`.
  - `Classify(n)` is the decision table of `spec.md` 4.3. A tainted record
    (status STALE, `Taint` at `revision.go:102-107`) is classified TOUCH
    whatever its checksum, as a FAILED one is (`spec.md` lines 69, 114,
    123); only the other present records compare checksum and fingerprint.
  - One action per engine step:
    - `StartPass`;
    - `ClassifyNode` (once the parent has finished);
    - `Settle`, which ends a NONE node;
    - `SkipNode`, under a FAILED or SKIPPED parent;
    - `BeginApply`, under a COMMITTED parent;
    - `CommitCreate`, `CommitTouch`, `CommitDelete` and `ApplyFail`;
    - `EndPass`.
  - The environment's actions:
    - `Cancel`, which saves FAILED records for nodes in flight;
    - `Crash`, which loses the in-memory pass;
    - operator edits (`ChangeNode`, `PruneNode`, `RestoreNode`,
      `SetForced`, `TaintNode`).
  - The constant `CreateFailPersists` chooses between two readings of
    `spec.md` 4.4: whether a failed CREATE saves a FAILED record for a node
    that had none.
- **`WindowsRestart`**.
  - `mpc` is the main goroutine's place: restart command, reboot-check
    loop, `WaitLoop`.
  - `wpc` is the waiter goroutine's place.
  - `cancelCh` is `p.cancel` (nil, open or closed).
  - `waitDone` is a buffered channel of capacity 1: its state and the
    count of items in its buffer.
  - `timeoutFired` is the `time.After` timer, and `machine` is the host
    (up, pending shutdown, down, rebooted).
  - `panicked` records a close of a closed channel or a send on one.
  - Each `select` case is its own action: `MainWaitDone`, `MainTimeout`,
    `MainCancelled`, `WaiterCancelled` and `WaiterConnected`.
  - `Cancel` models `WindowsRestartProvisioner.Cancel` and is called up to
    `MaxCancels` times. `FlakyCheck` allows a transient failure of the
    reboot-check command.
- **`ScriptProvisioner`**.
  - `Init` picks a kind (ssh, powershell, windows-shell) and a
    configuration. A configuration is abstracted to what the code branches
    on:
    - `Script` set or not, and the length of `Scripts`;
    - `Inline` nil, empty or given;
    - whether the files exist and the `Vars` are well formed;
    - elevated user and password;
    - `ExpectDisconnect` and `SkipClean`.
  - `Connect` and `Prepare` model `New`. `PrepareSSH`, `PreparePowershell`
    and `PrepareCmd` are the validations of the three `Prepare` methods.
  - `ExtractInline`, `OpenScript`, `RunScript`, `AttemptFails` and
    `Cleanup` are the steps of `Provision`. `RetryGiveUp` is `retryable`
    giving up after the start timeout.
  - A command that ran ends with a status. The status is `valid`,
    `invalid` or, for SSH only, `disconnect`. `AcceptSSH`,
    `AcceptPowershell` and `AcceptCmd` are each kind's exit check.
  - `runs`, `completed` and `leftover` record what happened on the remote
    host: the executions, the scripts that finished, and whether the copy
    at `RemotePath` is still there.
  - `wrappers` counts the elevated runners on the host. With an
    `ElevatedUser` (`Elevated`), `createCommandText` renders the command
    through `generateElevatedRunner`, which uploads a runner holding the
    elevated password to a fresh `C:/Windows/Temp/packer-elevated-shell-<uuid>.ps1`
    (`part_003:401-497`). `RunnerUploads` is what one rendering leaves:
    one runner when it returned a command, none or one when it failed.
    No code removes a runner.
  - `Abstract` instantiates `AbstractProvisioner` with the mapping
    `total <- NumScripts(cfg)`, `ran <- idx - 1 + runs[idx]` and `status`
    from `result`; `AbstractSpec` is its specification.
- **`AbstractProvisioner`**. What a script provisioner promises: it runs
  scripts one at a time (`Run`), each at most once, may fail at any point
  (`Fail`), and succeeds only after the last (`Succeed`).
- **`Retryable`**. The `retryable` loop that the SSH, Windows shell and
  PowerShell provisioners each copy, with time in seconds:
  - `Init` takes the `StartRetryTimeout` a configuration can hold
    (`WindowsPowershellConfig` passes the caller's `retry` seconds).
  - `Prepare` applies the kinds' defaults: `PreparedTimeout` replaces 0 by
    five minutes for the Windows kinds, while SSH keeps the parsed value.
  - `Start` arms `time.After` once; a duration <= 0 fires at once
    (`Window`).
  - `Attempt` is a call of `f`: it succeeds, or fails after up to
    `MaxAttempt` seconds.
  - `Select` returns the error if the timer fired, or sleeps `Sleep`.
- **`RevisionPath`**.
  - A node ID is a sequence of path segments; `Base` and `Dir` are
    `path.Base` and `filepath.Dir`.
  - `Filename` and `AbsPath` build the file names as the code does.
  - `files` maps each path to the node whose record was last saved there.
  - `Save`, `Remove` and `Load` (`ParseRevisionFile`) act on it.
  - Four conditions on a topology (`OneEnvironment`, `IDsDistinct`,
    `ConnectionFilesDistinct`, `ConnectionDirsDistinct`) are what
    `AbsPathInjective` needs; `MC_RevisionPath` checks with ASSUMEs that
    the `revpath_core` topology meets them.
- **`RemoteHash`**.
  - `FormatStringMap` is fmt's `%v` of a `map[string]string`: `map[`,
    `k:v` pairs in key order separated by spaces, `]`.
  - `Hash` is the `"id=%v type=%v config=%v"` string; xxhash is taken as
    injective, so any collision comes from the formatting.
  - `def`, `applied` and `stored` are the current definition, the applied
    one and the stored fingerprint. `Edit` and `Apply` are the operator
    and the commit.

The MC modules (`MC_Orchestrator`, `MC_WindowsRestart`,
`MC_ScriptProvisioner`, `MC_Retryable`, `MC_RevisionPath`, `MC_RemoteHash`)
give the constants their values for TLC. `OrchestratorProofs`,
`ScriptProvisionerProofs`, `RetryableProofs`, `WindowsRestartProofs` and
`RevisionPathProofs` hold the TLAPS proofs.

## 3. Runs

| Run | Expect | Checks | Shows |
|---|---|---|---|
| `orch_core` | pass | TaintRoundTrip, ParentBeforeChild, Idempotence, ActiveHasExternalID, PassCompletes | Tainted nodes are re-applied even when a fingerprint equals the sentinel 666; dependency order, no-op re-runs, ids on ACTIVE records and termination of passes, under edits, taints, failures, cancels and crashes |
| `restart_core` | pass | TypeOK, PanicOnlyFromCancel, SuccessMeansRebooted, ProvisionReturns, WaiterExits | Only a concurrent Cancel can panic. Success implies a reboot. Provision returns and the waiter exits |
| `restart_cancel_panic` | violation | NoPanic | Cancel racing the timeout case closes `p.cancel` twice |
| `restart_flaky` | violation | SuccessMeansRebooted | A failed reboot check makes Provision succeed before the reboot |
| `script_core` | pass | TypeOK, ExactlyOnce, CleanOnSuccess, AbstractSpec | Retries never run a script twice, success leaves no copy at `RemotePath` on the host (the elevated runners stay: no code removes them), and New plus Provision implement the abstract provisioner |
| `script_windows` | pass | SuccessMeansAllCompleted | PowerShell and Windows shell succeed only if all scripts finished |
| `script_ssh_disconnect` | violation | SuccessMeansAllCompleted | SSH with `ExpectDisconnect` (always set by `LinuxShellConfig`) reports a dropped script as success |
| `retry_bounded` | pass | BoundedRetry | For timeouts -3, 0 and 7 s, SSH and PowerShell, a failing `f` is retried for less than the window plus one sleep and one call |
| `restart_lost_cancel` | violation | CancelHonoured | A Cancel before Provision creates `p.cancel` is dropped, and the restart still succeeds |
| `revpath_core` | pass | LoadReturnsOwn | Environment, network, two hosts, one connection and two steps have distinct revision files |
| `revpath_conn` | violation | LoadReturnsOwn | Two connections of one host share `.connection.lfrevision` |
| `remote_hash_collision` | violation | NoneOnlyWhenUnchanged | `{bucket: "b key:s"}` and `{bucket: "b", key: "s"}` get the same fingerprint, so the edit is classified NONE |

Each property of a passing run has a mutant in `PROJECT.json`: a plausible
bug in a mapped definition, which TLC then finds.

**Bounds.**
- Orchestrator:
  - The tree is four nodes: env → net → {h1, h2}. This gives a
    grandparent chain and two siblings, so skipping, ordering and sibling
    interleaving all occur.
  - Fingerprints are {1, 666}. The value 666 lets a real fingerprint
    equal the taint sentinel, the case in which a classifier comparing
    checksums only would call a tainted node NONE (`TaintRoundTrip`).
  - There is one external id, 3 passes and 2 edits. This is enough for a
    create, an edit or taint, and a re-classification; the run explores
    about 1.6 million states.
- Restart: `MaxCancels = 2`. Script provisioners: `MaxScripts = 2`, which
  covers a list of two scripts and the second of them failing.
- Retry: the real 300 s default and a 2 s sleep, with timeouts -3, 0 and
  7 s and calls of 0 or 1 s; every branch of the select is reached and the
  SSH zero timeout (no retry at all) is among the cases. `MaxClock = 400`
  only binds in the faulty variant that re-arms the timer.
- Revision paths: seven nodes covering every special case of `AbsPath`;
  `host2` sits next to `host`, so a path that dropped the last ID segment
  would collide.
- Remote hash: two keys and three values, one of them holding `' key:'`,
  enough for a missing key, a changed value and the separator collision.
- `CHECK_DEADLOCK FALSE` is used because in each model a finished
  Provision or pass is a real final state.

**Fairness.**
- Orchestrator: weak fairness on the engine's own steps only. The engine
  does not block except in collaborators, which always answer (success or
  failure, `spec.md` 5). Operator edits, cancels, crashes and new passes
  are not fair.
- Restart: weak fairness on every goroutine step, on the timer and on the
  machine going down after the scheduled shutdown. The reboot itself
  (`MachineBoot`) is not fair. The restart timeout guarantees that
  Provision returns anyway, once the reboot-check loop has ended. That
  loop (`windows_restart.go:149`) has no timeout of its own, so
  `ProvisionReturns` relies on the machine going down: a machine that
  stays in the pending shutdown forever is excluded by
  `WF_vars(MachineDown)` and not covered.
- The script provisioner and retry runs check safety only; the refinement
  is a safety property too, since `AbstractProvisioner` has no fairness.

## 4. Proofs

Every obligation of the five proof modules is checked by `tlapm`. Each
strengthened invariant was first checked by TLC, as an invariant of the
run's configuration, before it was proved.

`OrchestratorProofs.tla` proves five theorems for every topology,
fingerprint set and bound:
- `TypeCorrect`: `Spec => []TypeOK`.
  - `TypeOK` is inductive by itself.
  - The proof has one step per action (`StepType`).
  - It rests on lemmas that `Touch`, `TouchWithID`, `Taint`, `Classify`,
    `FailRecords` and the edit helper preserve the record type.
- `ActiveHasExternalIDTheorem`: under `~CreateFailPersists`,
  `Spec => []ActiveHasExternalID`.
  - The invariant is not inductive as it stands, because `Touch` can turn a
    FAILED record into an ACTIVE one.
  - It is strengthened to `IDInv == TypeOK /\ OnDiskHasID`: every record on
    disk has an external id. This holds because the only step that creates
    a record is `CommitCreate` (via `TouchWithID`), and `Cancel` saves
    FAILED records only for nodes already on disk (lemma
    `FailRecordsKeepIDs`).
  - With `CreateFailPersists`, a CREATE that failed and is retried as
    TOUCH becomes ACTIVE without an id, so the assumption is needed; no
    run is kept for that reading.
- `ParentBeforeChildTheorem`: `Spec => []ParentBeforeChild`, for every
  setting of `CreateFailPersists`.
  - The property is inductive relative to `TypeOK`.
  - Within a pass a phase only moves forward, so a committed parent stays
    committed until `StartPass` resets every node at once.
  - A child reaches APPLYING only through `BeginApply`, which waits for its
    parent to commit.
  - `Cancel` fails only nodes that were applying. Those nodes' parents had
    therefore committed and are not themselves applying.
- `IdempotenceTheorem`: `Spec => []Idempotence`, for both readings of a
  failed CREATE.
  - The strengthening `IdemInv` is stated per node (`NodeInv`), around
    `Settled(n)`: the store agrees with the topology for `n`.
  - In a running pass, a classified or applying node's verb equals what
    `Classify` answers now. The operator edits only between passes, and a
    node's verdict reads only its own entries (lemma `ClassifyLocal`).
  - A node committed in the running pass is settled: each commit writes
    the fingerprint with an ACTIVE status, or removes an unwanted record
    (lemma `ClassifyFacts`).
  - A clean `EndPass` leaves every node committed and settled
    (`CleanSettled`).
  - In the pass after a clean pass, a still-pending node is settled, so
    classifying it gives NONE unless it is forced.
  - Lemma `NodeInvFrame` carries the other nodes through each step.
- `TaintRoundTripTheorem`: `Spec => []TaintRoundTrip`, from the same
  `IdemInv`.
  - A tainted record (STALE) is not settled, and `ClassifyFacts` says an
    unsettled present node is never classified NONE.
  - `NodeInv` also says that a node that is APPLYING, FAILED or SKIPPED
    in the running pass was given a verb other than NONE, and a classified
    node's verb is what `Classify` answers now. The taint stays on disk
    until the node's own commit replaces it.

`ScriptProvisionerProofs.tla` proves, for every set of kinds and every
`MaxScripts`:
- `TypeCorrect` and `ExactlyOnceTheorem` (`Spec => []ExactlyOnce`).
  - `ExactlyOnce` is not inductive: a retry of `RunScript` would break it
    unless the loop position is known. `RunInv` adds that `runs` is 0
    beyond `idx` and at `idx` before the run step, 1 in cleanup, that the
    loop index stays within `NumScripts(cfg) + 1`, and that a prepared
    configuration has at most `MaxScripts` scripts (lemma `PreparedBound`),
    so `idx + 1` stays in the domain of `runs`.
- `Refinement`: `Spec => AbstractSpec`. Initial states map to the
  abstract initial state; under `RunInv` every step is `Run` (the run
  step; the skip_clean path also moves `idx`), `Succeed` (the loop ends
  with `idx = NumScripts + 1` and `runs[idx] = 0`, so `ran = total`),
  `Fail` (any error return), or a stutter (connect, prepare, extract, a
  failed attempt, cleanup, which moves `idx` while `runs[idx]` drops from
  1 to 0).

`RetryableProofs.tla` proves `BoundedRetryTheorem`: `Spec => []BoundedRetry`
for every set of timeouts, sleep and call duration (the typing of the
state follows from the same invariant). The strengthening
`RetryInv` says the timer is armed once at clock 0 with `Window(timeout)`,
the clock before a call is below the deadline plus one sleep, and after a
failed call below the deadline plus one sleep and one call.

`ScriptProvisionerProofs.tla` also proves the following.
- `CleanOnSuccessTheorem`: `Spec => []CleanOnSuccess`: after a success
  no copy of a script remains at `RemotePath`, unless SSH skips cleanup.
  - `CleanInv` says such a copy can exist only between the upload and the
    cleanup, unless the SSH config skips cleanup.
  - The elevated runners are outside it: `wrappers` only grows, and no
    code removes them (section 6).
  - It holds on top of `RunInv`.
- `SuccessMeansAllCompletedTheorem`: under `"ssh" \notin Kinds`,
  `Spec => []SuccessMeansAllCompleted`.
  - `CompletedInv` ties the completed set to the loop index
    (`1..(idx-1)`, or `1..idx` in cleanup) for every kind except SSH.
  - For Windows kinds, `Accept` is exactly a valid exit status (lemma
    `WindowsAccept`).
  - SSH is excluded because `script_ssh_disconnect` shows the property
    fails there: a dropped session is accepted.

`WindowsRestartProofs.tla` proves three theorems for every `MaxCancels`.
- `TypeCorrect`.
- `PanicOnlyFromCancelTheorem`.
  - `PanicInv` says that without a cancel nothing has panicked, the cancel
    channel is still open before `Provision` returns, and the waiter's done
    channel has not been closed.
- `SuccessMeansRebootedTheorem`, under `~FlakyCheck`.
  - `RebootInv` says the waiter goroutine is started only when `Provision`
    enters its wait loop, and no result exists before `Provision` returns.
  - It also says a waiter that sends with no error, or a buffered done
    value, means the machine has rebooted.
  - The hypothesis is needed: `restart_flaky` shows a success without a
    reboot when the check can pass on a machine that has not gone down.

`RevisionPathProofs.tla` proves three theorems for every set of nodes,
kinds, IDs and base directory.
- `AbsPathInjective`: under the four conditions, distinct nodes have
  distinct `AbsPath`s.
  - `NodePath`: every non-environment path is `BaseDir`, a middle part (the
    ID, or its parent for a connection) and the file name.
  - `NodePathCancel`: two such equal paths have equal middle parts and
    file names (append injectivity and left cancellation of `\o`).
  - `EnvPathShort`: the environment's one-segment path equals another
    node's only for a connection with an empty base and middle part, whose
    file name differs by `ConnectionFilesDistinct`.
  - The case split on kinds then uses `IDsDistinct` or
    `ConnectionDirsDistinct`.
- `ConnectionsShareFile`: two connections whose IDs share a parent have
  one path, and loading one after the other was saved returns the other's
  record. So the fourth condition cannot be dropped.
- `LoadReturnsOwnTheorem`: under the four conditions,
  `Spec => []LoadReturnsOwn`.
  - `StoreInv` says every file holds nothing or a record saved at that
    path, and every load returned nothing or a record saved at the node's
    own path.
  - `AbsPathInjective` turns "same path" into "same node".

TLC alone checks these, and why:
- Liveness (`PassCompletes`, `ProvisionReturns`, `WaiterExits`): TLAPS does
  not handle liveness under fairness, or ENABLED.
- `ConnectionFilesDistinct` for a given topology, and `RemoteHash`'s
  `NoneOnlyWhenUnchanged`: both are about formatted strings, so the first
  is a hypothesis of the proofs, which `MC_RevisionPath` evaluates.
  - The provers treat string concatenation as opaque.
  - A collision-freedom argument over `%v` formatting would need induction
    over the characters.
- The violation runs: they show properties that do not hold.

## 5. Not modelled

- JSON encoding (`ToJSONString`, the unmarshal in `ParseRevisionFile`) and
  the timestamp: pure I/O; a load returns the record saved at the path.
- xxhash itself: taken as injective, the best case for the code.
- The PowerShell elevated runner's scheduled task and the template
  rendering: the rendering is a step that succeeds or fails, and the
  runner is modelled only by its upload (`wrappers`).
- Overflow of `time.Duration(retry) * time.Second` for very large `retry`:
  TLC's integers are too narrow for nanosecond durations.
- Formatter, AMI, Local OS helpers, DNS template and CLI UI: printing and
  pure predicates.

## 6. Findings

- `restart_cancel_panic`, `restart_flaky` and `script_ssh_disconnect`, as
  above.
- `restart_lost_cancel`: `Cancel` only closes a non-nil `p.cancel`, and
  `Provision` creates the channel at `windows_restart.go:110`; an early
  Cancel is lost (spec.md 4.5 asks collaborators to honour cancellation).
- `revpath_conn`: connection revision files depend only on the type and
  the parent directory (`revision.go:115`).
- `remote_hash_collision`: `%v` does not escape map keys or values
  (`remote_state_config.go:40`).
- Not a run: each script with an `ElevatedUser` leaves an elevated runner,
  holding the elevated password, in `C:/Windows/Temp`
  (`part_003:489-495`). `cleanupRemoteFile` removes only `RemotePath`,
  and nothing else removes a runner. `spec.md` says nothing of cleanup, so
  the leak is recorded as a hazard and in `wrappers`, with no property.
- Not a run: with `CreateFailPersists = TRUE`, a failed CREATE leaves a
  FAILED record without an id. Its retry is a TOUCH, and the record turns
  ACTIVE with no external id. `orch_core` fixes the other reading, under
  which `ActiveHasExternalID` is proved.

## 7. Plan for the next steps

1. Compose `Orchestrator` with the provisioner outcomes: an apply succeeds
   exactly when the provisioner model returns ok. This carries the SSH
   disconnect finding into the records.
2. Concurrent sibling application bounded by a worker pool (`spec.md` 5),
   extending the proof of `ParentBeforeChild` to siblings applied concurrently.
3. An abstract specification, "after a clean pass the store reflects the
   desired topology", and a refinement mapping from `Orchestrator`. The
   `Settled` predicate of `IdempotenceTheorem` is the core of this mapping.
