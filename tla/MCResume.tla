------------------------------ MODULE MCResume ------------------------------
(* An instance of Resume for TLC.                                          *)
EXTENDS Resume, TLC

CONSTANTS d1, d2

MCDirs == {d1, d2}

DirSymmetry == Permutations(MCDirs)
=============================================================================
