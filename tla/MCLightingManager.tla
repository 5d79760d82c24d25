------------------------- MODULE MCLightingManager -------------------------
(* Small instances of LightingManager for TLC. *)
EXTENDS LightingManager, TLC

\* Keys and providers are interchangeable.
Symmetry == Permutations(Keys) \cup Permutations(Providers)
=============================================================================
