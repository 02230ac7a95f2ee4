------------------------- MODULE ScriptProvisioner -------------------------
(***************************************************************************)
(* The script provisioners of src/provisioner: New (part_002) connects   *)
(* the communicator and calls SetConfig/Prepare; Provision then uploads   *)
(* and runs each script inside retryable, checks its exit status and      *)
(* removes the remote copy (cleanupRemoteFile).  The three kinds differ   *)
(* in what Prepare validates and in which exit statuses they accept:      *)
(*   ssh            (SSHProvisioner, cmd.go)   a disconnect passes if      *)
(*                                             ExpectDisconnect is set     *)
(*   powershell     (PowershellProvisioner,    exit status in             *)
(*                   part_003)                 ValidExitCodes              *)
(*   windows-shell  (WindowsCmdProvisioner,    exit status 0               *)
(*                   cmd.go)                                               *)
(*                                                                         *)
(* A configuration is abstracted to what Prepare and Provision branch on. *)
(* An attempt whose upload or start fails is retried (AttemptFails); the  *)
(* retry loop ends when an attempt runs or, after a failure, the start    *)
(* timeout has passed (RetryGiveUp).                                      *)
(***************************************************************************)
EXTENDS Naturals

CONSTANTS
    Kinds,          \* the provisioner kinds under study
    MaxScripts      \* bound on the length of Config.Scripts

ASSUME ScriptProvisionerAssumption ==
    /\ Kinds \subseteq {"ssh", "powershell", "windows-shell"}
    /\ Kinds # {}
    /\ MaxScripts \in Nat \ {0}

\* The fields of a provisioner Config that Prepare and Provision read.
Configs ==
    [script : BOOLEAN,                  \* Script # ""
     scripts : 0..MaxScripts,           \* len(Scripts)
     inline : {"nil", "empty", "some"}, \* Inline: nil, [] or commands
     filesExist : BOOLEAN,              \* os.Stat succeeds on every path
     varsOK : BOOLEAN,                  \* every Vars entry is key=value
     elevUser : BOOLEAN,                \* ElevatedUser # ""
     elevPass : BOOLEAN,                \* ElevatedPassword # ""
     expectDisconnect : BOOLEAN,
     skipClean : BOOLEAN]

VARIABLES
    kind,       \* which provisioner New built
    cfg,        \* its configuration
    pc,         \* where New/Provision is
    idx,        \* the script being run (1-based)
    runs,       \* runs[i]: how many times script i was executed remotely
    completed,  \* the scripts that ran to the end with an accepted status
    leftover,   \* the script's copy at RemotePath is still on the host
    wrappers,   \* elevated shell wrappers uploaded to the host so far
    result      \* what New or Provision returned

vars == <<kind, cfg, pc, idx, runs, completed, leftover, wrappers, result>>

\* Prepare: Inline = [] is taken as nil, Script replaces Scripts.
InlineScripts(c) == IF c.inline = "some" THEN 1 ELSE 0
FileScripts(c) == IF c.script THEN 1 ELSE c.scripts

\* The scripts Provision runs: the files, then the extracted inline file.
NumScripts(c) == FileScripts(c) + InlineScripts(c)

ScriptIdx == 1..(MaxScripts + 1)

\* createCommandText: with an ElevatedUser the command is wrapped in an
\* elevated runner, a script (holding the elevated password) that
\* generateElevatedRunner uploads under a fresh name.
Elevated(k, c) == k = "powershell" /\ c.elevUser

\* The runners one createCommandText leaves on the host: none without an
\* elevated user; one when it returned a command; none or one when it
\* failed (rendering failed before the upload, or the upload failed after
\* the file reached the host).
RunnerUploads(k, c, rendered) ==
    CASE ~Elevated(k, c) -> {0}
      [] rendered -> {1}
      [] OTHER -> {0, 1}

TypeOK ==
    /\ kind \in Kinds
    /\ cfg \in Configs
    /\ pc \in {"connect", "prepare", "extract", "open", "run", "cleanup",
               "done"}
    /\ idx \in ScriptIdx
    /\ runs \in [ScriptIdx -> 0..2]
    /\ completed \subseteq ScriptIdx
    /\ leftover \in BOOLEAN
    /\ wrappers \in Nat
    /\ result \in {"none", "ok", "err"}

\* Provision or New returns r.
Return(r) == pc' = "done" /\ result' = r

-----------------------------------------------------------------------------
(* Prepare, per kind: the checks that fill errs.                           *)

\* The checks the three Prepare functions share: one script source, the
\* files exist, the Vars are key=value.
SourcesOK(c) ==
    /\ ~(c.script /\ c.scripts > 0)
    /\ FileScripts(c) + InlineScripts(c) > 0
    /\ ~(FileScripts(c) > 0 /\ c.inline = "some")
    /\ c.filesExist \/ FileScripts(c) = 0
    /\ c.varsOK

\* SSHProvisioner.Prepare; the durations are parsed from their defaults.
PrepareSSH(c) == SourcesOK(c)

\* PowershellProvisioner.Prepare also pairs the elevated user and password.
PreparePowershell(c) ==
    /\ SourcesOK(c)
    /\ c.elevUser <=> c.elevPass

\* WindowsCmdProvisioner.Prepare.
PrepareCmd(c) == SourcesOK(c)

PrepareOK(k, c) ==
    CASE k = "ssh" -> PrepareSSH(c)
      [] k = "powershell" -> PreparePowershell(c)
      [] k = "windows-shell" -> PrepareCmd(c)

-----------------------------------------------------------------------------
(* How each kind judges the finished command.                              *)

\* SSH: a disconnect passes only with ExpectDisconnect, other non-zero
\* statuses fail.
AcceptSSH(c, status) ==
    status = "valid" \/ (status = "disconnect" /\ c.expectDisconnect)

\* Powershell: the status must be one of ValidExitCodes (default [0]); a
\* WinRM disconnect reports a status outside them.  "valid" stands for a
\* status the kind accepts as the script having finished (0, or a member
\* of ValidExitCodes).
AcceptPowershell(c, status) == status = "valid"

\* Mutant: the exit status is not checked.
AcceptCmdAny(c, status) == TRUE

\* Windows shell: any non-zero status fails.
AcceptCmd(c, status) == status = "valid"

Accept(k, c, status) ==
    CASE k = "ssh" -> AcceptSSH(c, status)
      [] k = "powershell" -> AcceptPowershell(c, status)
      [] k = "windows-shell" -> AcceptCmd(c, status)

\* The statuses a command that started can end with.
Statuses(k) ==
    IF k = "ssh" THEN {"valid", "invalid", "disconnect"} ELSE {"valid", "invalid"}

-----------------------------------------------------------------------------

Init ==
    /\ kind \in Kinds
    /\ cfg \in Configs
    /\ pc = "connect"
    /\ idx = 1
    /\ runs = [i \in ScriptIdx |-> 0]
    /\ completed = {}
    /\ leftover = FALSE
    /\ wrappers = 0
    /\ result = "none"

\* New: the communicator connects (or New fails), then SetConfig.
Connect ==
    /\ pc = "connect"
    /\ \/ pc' = "prepare" /\ UNCHANGED result
       \/ Return("err")
    /\ UNCHANGED <<kind, cfg, idx, runs, completed, leftover, wrappers>>

\* SetConfig -> Prepare: a failed validation makes New fail.
Prepare ==
    /\ pc = "prepare"
    /\ IF PrepareOK(kind, cfg)
       THEN pc' = "extract" /\ UNCHANGED result
       ELSE Return("err")
    /\ UNCHANGED <<kind, cfg, idx, runs, completed, leftover, wrappers>>

\* Provision: the inline commands are written to a temporary file; if
\* that fails the script list ends in a path that cannot be opened.
ExtractInline ==
    /\ pc = "extract"
    /\ \/ pc' = "open" /\ UNCHANGED result
       \/ cfg.inline = "some" /\ Return("err")
    /\ UNCHANGED <<kind, cfg, idx, runs, completed, leftover, wrappers>>

\* Mutant: the loop ends one script early (off by one).
OpenScriptOffByOne ==
    /\ pc = "open"
    /\ IF idx >= NumScripts(cfg)
       THEN Return("ok")
       ELSE \/ pc' = "run" /\ UNCHANGED result
            \/ Return("err")
    /\ UNCHANGED <<kind, cfg, idx, runs, completed, leftover, wrappers>>

\* Mutant: the loop does not stop after the last script.
OpenScriptNoEnd ==
    /\ pc = "open"
    /\ pc' = "run"
    /\ UNCHANGED <<kind, cfg, idx, runs, completed, leftover, wrappers, result>>

\* The loop over the scripts: open the next one and render the command
\* (createCommandText), or return nil once every script is done.  Opening
\* or rendering may fail; with an elevated user the rendering uploads the
\* elevated runner, and an upload that fails may still have reached the
\* host.  No code removes a runner.
OpenScript ==
    /\ pc = "open"
    /\ IF idx > NumScripts(cfg)
       THEN Return("ok") /\ UNCHANGED wrappers
       ELSE \/ pc' = "run" /\ UNCHANGED result
               /\ \E u \in RunnerUploads(kind, cfg, TRUE) : wrappers' = wrappers + u
            \/ Return("err")
               /\ \E u \in RunnerUploads(kind, cfg, FALSE) : wrappers' = wrappers + u
    /\ UNCHANGED <<kind, cfg, idx, runs, completed, leftover>>

\* Mutant: a rejected exit status is returned as an error from inside
\* the retried function, as cleanupRemoteFile does, so it is retried.
RunScriptRetryOnExit ==
    /\ pc = "run"
    /\ leftover' = TRUE
    /\ runs' = [runs EXCEPT ![idx] = @ + 1]
    /\ \E status \in Statuses(kind) :
          /\ completed' = IF status = "valid" THEN completed \cup {idx}
                                             ELSE completed
          /\ pc' = IF Accept(kind, cfg, status) THEN "cleanup" ELSE "run"
    /\ UNCHANGED <<kind, cfg, idx, wrappers, result>>

\* retryable(upload and run): the script is uploaded and the command
\* started; it ends with some status, which the kind accepts or not.
RunScript ==
    /\ pc = "run"
    /\ leftover' = TRUE
    /\ runs' = [runs EXCEPT ![idx] = @ + 1]
    /\ \E status \in Statuses(kind) :
          /\ completed' = IF status = "valid" THEN completed \cup {idx}
                                             ELSE completed
          /\ IF Accept(kind, cfg, status)
             THEN /\ pc' = IF kind = "ssh" /\ cfg.skipClean THEN "open"
                                                           ELSE "cleanup"
                  /\ idx' = IF kind = "ssh" /\ cfg.skipClean THEN idx + 1
                                                            ELSE idx
                  /\ UNCHANGED result
             ELSE Return("err") /\ UNCHANGED idx
    /\ UNCHANGED <<kind, cfg, wrappers>>

\* retryable: an attempt failed and the start timeout has passed.
RetryGiveUp ==
    /\ pc \in {"run", "cleanup"}
    /\ Return("err")
    /\ UNCHANGED <<kind, cfg, idx, runs, completed, leftover, wrappers>>

\* retryable(upload and run): the upload or the start of the command
\* failed; the upload may have reached the host before the failure.
AttemptFails ==
    /\ pc = "run"
    /\ leftover' \in {leftover, TRUE}
    /\ UNCHANGED <<kind, cfg, pc, idx, runs, completed, wrappers, result>>

\* Mutant: the cleanup moves on without removing the file.
CleanupKeepsFile ==
    /\ pc = "cleanup"
    /\ pc' = "open"
    /\ idx' = idx + 1
    /\ UNCHANGED <<kind, cfg, runs, completed, leftover, wrappers, result>>

\* cleanupRemoteFile: "rm -f" / "del /f" of the remote copy inside
\* retryable; a failed start, a disconnect and a non-zero status are all
\* retried, so the cleanup ends by succeeding or by RetryGiveUp.
Cleanup ==
    /\ pc = "cleanup"
    /\ leftover' = FALSE
    /\ pc' = "open"
    /\ idx' = idx + 1
    /\ UNCHANGED <<kind, cfg, runs, completed, wrappers, result>>

Next ==
    \/ Connect \/ Prepare \/ ExtractInline \/ OpenScript \/ RunScript
    \/ AttemptFails \/ RetryGiveUp \/ Cleanup

Spec == Init /\ [][Next]_vars

-----------------------------------------------------------------------------
(* Properties.                                                             *)

\* A successful Provision ran every script of the configuration to the end
\* with an accepted exit status: what the orchestrator takes a successful
\* apply to mean.
SuccessMeansAllCompleted ==
    result = "ok" => completed = 1..NumScripts(cfg)

\* retryable repeats only attempts whose command never started, so no
\* script is ever executed twice on the remote host.
ExactlyOnce == \A i \in ScriptIdx : runs[i] <= 1

\* A successful Provision leaves no copy of a script at RemotePath behind
\* on the host (cleanupRemoteFile after each script), unless the SSH
\* configuration asks to skip the cleanup.  It says nothing of the
\* elevated runners (wrappers), which no code removes.
CleanOnSuccess ==
    result = "ok" => ~leftover \/ (kind = "ssh" /\ cfg.skipClean)

\* The abstract provisioner under the refinement mapping: the scripts the
\* configuration names, the scripts executed so far (those before idx,
\* and idx itself once it has run) and what Provision returned.
Abstract == INSTANCE AbstractProvisioner
    WITH total <- NumScripts(cfg),
         ran <- idx - 1 + runs[idx],
         status <- IF result = "none" THEN "running" ELSE result

\* New and Provision, with all their retries, uploads and cleanups,
\* implement the abstract provisioner: scripts run in order, each once,
\* and success comes only after the last one.
AbstractSpec == Abstract!Spec

=============================================================================
