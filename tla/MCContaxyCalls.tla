--------------------------- MODULE MCContaxyCalls ---------------------------
(* ContaxyCalls, called with ids that hold what separates a path. *)
EXTENDS ContaxyCalls

Ids == {<< >>, <<"me">>, <<"a", "/", "%">>, <<"a", ":", "metadata">>}
=============================================================================
