--------------------------- MODULE MCControlPlane ---------------------------
(***************************************************************************)
(* Instances of ControlPlane for TLC.                                      *)
(***************************************************************************)
EXTENDS RegistryRefinement, TLC

\* Keys only say which sender is which, and Call-IDs and signal addresses
\* which client: any renaming of them maps behaviours to behaviours.
KeyAndIdSymmetry == Permutations(Keys) \cup Permutations(UUIDs)
Symmetry == KeyAndIdSymmetry \cup Permutations(SignalAddrs)
=============================================================================
