----------------------------- MODULE MCLottery -----------------------------
(***************************************************************************)
(* Instances of Lottery for TLC.                                           *)
(***************************************************************************)
EXTENDS Lottery, TLC

CpuSymmetry == Permutations(CPUS)
============================================================================
