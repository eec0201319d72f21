------------------------------- MODULE MCProc -------------------------------
(***************************************************************************)
(* Instances of Proc for TLC.                                              *)
(***************************************************************************)
EXTENDS Proc, TLC

\* CPUs other than the boot CPU are interchangeable.
CpuSymmetry == Permutations(CPUS \ {BootCpu})
=============================================================================
