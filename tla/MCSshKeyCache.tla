---------------------------- MODULE MCSshKeyCache ----------------------------
(* SshKeyCache, whose constants are values. *)
EXTENDS SshKeyCache
=============================================================================
