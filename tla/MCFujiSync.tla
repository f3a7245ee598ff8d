----------------------------- MODULE MCFujiSync -----------------------------
(***************************************************************************)
(* Instances of FujiSync for TLC.  Shots are interchangeable, devices are  *)
(* not (their ids break ties).                                             *)
(***************************************************************************)
EXTENDS FujiSync, TLC

ShotSymmetry == Permutations(Keys)

=============================================================================
