------------------------- MODULE MCDesktopLifecycle -------------------------
(* TLC instance of DesktopLifecycle: Cores are interchangeable.             *)
EXTENDS DesktopLifecycle, TLC

Symmetry == Permutations(Cores)
=============================================================================
