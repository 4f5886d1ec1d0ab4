--------------------------- MODULE MCCCLLifecycle ---------------------------
(***************************************************************************)
(* Small instances for the life of the global objects: two Java threads,    *)
(* which are model values of the configuration and interchangeable.         *)
(***************************************************************************)
EXTENDS CCLLifecycle, TLC

MCCallers == Permutations(Callers)
=============================================================================
