---------------------------- MODULE MCVerifyCache ----------------------------
(***************************************************************************)
(* Instance of VerifyCache for TLC.                                        *)
(***************************************************************************)
EXTENDS VerifyCache

\* Trust lists are only compared.
TrustSymmetry == Permutations(Trusts)
=============================================================================
