------------------------- MODULE MCServiceLifecycle -------------------------
(***************************************************************************)
(* Small instances of ServiceLifecycle for TLC.  Names, paths, ports and   *)
(* handlers are interchangeable: no action compares them with anything but *)
(* each other, so the runs of safety properties use their symmetry.        *)
(***************************************************************************)
EXTENDS ServiceLifecycle, TLC

Everyone == Permutations(Handlers) \cup Permutations(Names)
              \cup Permutations(Paths) \cup Permutations(Ports)
=============================================================================
