--------------------------- MODULE MCSoftBinding ---------------------------
(***************************************************************************)
(* Model values for SoftBinding: one allowlisted and one foreign origin,   *)
(* one algorithm, a manifest id, an answer of up to three matches where *)
(* two are accepted.                                                       *)
(***************************************************************************)
EXTENDS SoftBinding
============================================================================
