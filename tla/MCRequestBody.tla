--------------------------- MODULE MCRequestBody ---------------------------
(***************************************************************************)
(* A client's body for RequestBody.                                        *)
(***************************************************************************)
EXTENDS RequestBody

ThreeChunks == <<"a", "b", "c">>
=============================================================================
