-------------------------- MODULE MCImportStaging --------------------------
(***************************************************************************)
(* Small instances of ImportStaging for TLC.                               *)
(***************************************************************************)
EXTENDS ImportStaging, TLC

Everyone == Permutations(Handlers) \cup Permutations(Operators)
              \cup Permutations(Paths) \cup Permutations(Names)

\* Files of one program each, and one that declares them all.
SomeTexts == {{n} : n \in Names} \cup {Names}
=============================================================================
