-------------------------------- MODULE MCWSI --------------------------------
(* The handles of WSI are interchangeable, and so are the images.           *)
EXTENDS WSI, TLC

Symmetry == Permutations(Handles) \cup Permutations(Images)
=============================================================================
