-------------------------------- MODULE MCTdq -------------------------------
(***************************************************************************)
(* Small instances of Tdq for TLC.                                         *)
(***************************************************************************)
EXTENDS Tdq

\* Two nice values, one of them negative; with NICE_BASE 2 they give 1 and 2
\* tickets.
MCNice == {-1, 0}

\* Sound where Root and NoLoad treat all threads alike.
Symmetry == Permutations(Threads \ Fifo)
=============================================================================
