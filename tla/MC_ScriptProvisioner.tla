------------------------ MODULE MC_ScriptProvisioner ------------------------
EXTENDS ScriptProvisioner

\* The Windows kinds, whose Provision accepts only a finished script.
MCWindowsKinds == {"powershell", "windows-shell"}

\* Every kind New builds a script provisioner for.
MCAllKinds == {"ssh", "powershell", "windows-shell"}

=============================================================================
