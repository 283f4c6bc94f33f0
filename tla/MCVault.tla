------------------------------- MODULE MCVault -------------------------------
(* Instances of Vault for TLC. *)
EXTENDS Vault, TLC

CONSTANTS k1, p1, c1, adm1, adm2, adm3

\* The requests are interchangeable.
Symmetry == Permutations(Admin)

\* A hash that is left behind stays so (HashStaysAstray in Vault_proofs), and
\* every property but the types is silent for good: such a state is checked, but
\* not followed.
HashInPlace == "hash" \notin astray
=============================================================================
