------------------------------- MODULE MC_GC -------------------------------
(* A heap of three slots: an old object, a young one it refers to and one    *)
(* that the mutator moves references through.                                *)
EXTENDS GC
=============================================================================
