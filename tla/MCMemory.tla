------------------------------ MODULE MCMemory -------------------------------
(* One source with two versions, and a bank of at most three units. *)
EXTENDS MemoryClient
=============================================================================
