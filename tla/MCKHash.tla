------------------------------ MODULE MCKHash ------------------------------
(***************************************************************************)
(* KHash for TLC.  Small keys are their own hash: key ^ key << 11 ends in  *)
(* the bits of key.                                                        *)
(***************************************************************************)
EXTENDS KHash

MCHash(key) == key
=============================================================================
