------------------------------ MODULE MCPinfo ------------------------------
(***************************************************************************)
(* Instances of Pinfo for TLC.                                             *)
(***************************************************************************)
EXTENDS Pinfo, TLC

\* CPUs other than the boot CPU are interchangeable.
CpuSymmetry == Permutations(CPUS \ {BootCpu})

\* Of the processes that init and its children create, process 3 kills.
OneKiller == {<<2, "kill">>, <<4, "kill">>}
============================================================================
