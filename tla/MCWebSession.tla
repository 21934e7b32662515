---------------------------- MODULE MCWebSession ----------------------------
(* WebSession, whose constants are values. *)
EXTENDS WebSession
=============================================================================
