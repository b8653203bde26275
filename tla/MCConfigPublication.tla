------------------------ MODULE MCConfigPublication ------------------------
(***************************************************************************)
(* Instances of ConfigPublication.                                         *)
(***************************************************************************)
EXTENDS ConfigPublication, TLC

CONSTANTS i1, i2

NoEntry == <<>>
ReloaderSymmetry == Permutations(Reloader)
=============================================================================
