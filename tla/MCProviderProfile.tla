-------------------------- MODULE MCProviderProfile --------------------------
(* ProviderProfile for TLC: threads are interchangeable.                    *)
EXTENDS ProviderProfile, TLC

Symmetry == Permutations(Threads)
=============================================================================
