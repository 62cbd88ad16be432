-------------------------- MODULE MCConfiguration --------------------------
(***************************************************************************)
(* Two of the three keys, the one that is imported and the one that is     *)
(* set, and two commands at a time.                                        *)
(***************************************************************************)
EXTENDS ConfigurationHistory, TLC

CONSTANTS c1, c2

MCClient == {c1, c2}
MCKeyOrder == <<"bsvPrivateKey", "bsvIdentityKey">>
MCSymmetry == Permutations(MCClient)
=============================================================================
