----------------------------- MODULE MCConflist -----------------------------
(***************************************************************************)
(* A small instance of Conflist: two lists of two parts.                   *)
(***************************************************************************)
EXTENDS Conflist

CONSTANTS old, new
MCContent == {old, new}
=============================================================================
