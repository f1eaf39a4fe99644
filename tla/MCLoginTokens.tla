---------------------------- MODULE MCLoginTokens ----------------------------
(***************************************************************************)
(* Small instances of LoginTokens for TLC.                                 *)
(***************************************************************************)
EXTENDS LoginTokens, TLC

Everyone == Permutations(Handlers) \cup Permutations(Users)
=============================================================================
