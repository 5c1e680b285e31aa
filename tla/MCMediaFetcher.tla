--------------------------- MODULE MCMediaFetcher ---------------------------
(***************************************************************************)
(* Two processes over two rows, each of a workspace of its own, with room  *)
(* for one of them in a sweep.                                             *)
(***************************************************************************)
EXTENDS MediaFetcher

CONSTANTS W1, W2

MCRows == 1..2
MCWorkspaceOf == <<W1, W2>>
=============================================================================
