-------------------------- MODULE MCEquivMalloc --------------------------
(* An instance of EquivMalloc for TLC: some requests fit a free block      *)
(* exactly, some split it, some leave too little to split.                 *)
EXTENDS EquivMalloc

Sizes == {8, 24, 40}
=============================================================================
