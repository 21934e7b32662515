-------------------------- MODULE MCWorkspacePage --------------------------
(* WorkspacePage, whose constants are values. *)
EXTENDS WorkspacePage
=============================================================================
