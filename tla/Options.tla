------------------------------- MODULE Options -------------------------------
(***************************************************************************)
(* Option::None, for modules that a proof module extends together.         *)
(***************************************************************************)
CONSTANT None
=============================================================================
