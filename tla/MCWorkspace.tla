---------------------------- MODULE MCWorkspace ----------------------------
(***************************************************************************)
(* The configuration with its approvals, and the files of jobs.  They      *)
(* share no state: a behaviour follows one, the focus, and the other stays *)
(* at rest, with no fair step to take.                                     *)
(***************************************************************************)
EXTENDS MCConfigEdit, MCJobFiles

VARIABLE focus

WorkspaceInit ==
    /\ focus \in {"config", "files"}
    /\ ConfigInit /\ FilesInit
    /\ focus = "config" => transport = "local"

WorkspaceNext ==
    /\ \/ focus = "config" /\ Next /\ UNCHANGED filesVars
       \/ focus = "files" /\ FilesNext /\ UNCHANGED vars
    /\ UNCHANGED focus

WorkspaceSpec ==
    /\ WorkspaceInit /\ [][WorkspaceNext]_<<focus, vars, filesVars>>
    /\ Fairness /\ FilesFair
=============================================================================
