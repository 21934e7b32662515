--------------------------- MODULE MCProjectPages ---------------------------
(* ProjectPages, whose constants are values. *)
EXTENDS ProjectPages
=============================================================================
