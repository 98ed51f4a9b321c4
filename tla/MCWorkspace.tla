----------------------------- MODULE MCWorkspace ----------------------------
(* Merged jobs with a job of each other scope.                              *)
EXTENDS Workspace, TLC

CONSTANTS a, b, c

WithRunScope == (a :> "job") @@ (b :> "job") @@ (c :> "run")

WithUnmerged == (a :> "job") @@ (b :> "unmerged")
=============================================================================
