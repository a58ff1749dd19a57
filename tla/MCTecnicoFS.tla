----------------------------- MODULE MCTecnicoFS -----------------------------
(* Small instances of TecnicoFS for TLC.                                   *)
EXTENDS TecnicoFS, TLC

\* Names are interchangeable; used by the run that checks invariants only.
Symmetry == Permutations(Names)

=============================================================================
