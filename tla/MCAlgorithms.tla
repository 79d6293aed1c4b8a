---------------------------- MODULE MCAlgorithms ----------------------------
(* The pure algorithms, one input to a state: the rules of the services,
   Volatility's walks over the structures of a Linux kernel, and how it finds the
   kernel's symbols and modules. *)
EXTENDS MCRules, MCKernel, MCSymbols

Init == RulesInit \/ KernelInit \/ SymbolsInit
=============================================================================
