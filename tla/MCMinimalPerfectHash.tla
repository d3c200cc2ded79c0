------------------------ MODULE MCMinimalPerfectHash ------------------------
(* MinimalPerfectHash for TLC: with every hash function into 0 .. 2, and   *)
(* with jevhash_32 on names of thread ports.                               *)
EXTENDS MinimalPerfectHash, JevHash, TLC

CONSTANTS k1, k2, k3

Symmetric == Permutations({k1, k2, k3})

AnyHash == [Key -> [0 .. MaxSalt -> 0 .. 2]]

\* Two threads' port names, 0x1103 and 0x2a03
Ports == {<<0, 4355>>, <<0, 10755>>}

\* Hashes are kept modulo 12, a multiple of every number of keys up to 4.
JevHashes == {[k \in Key |-> [d \in 0 .. MaxSalt |-> Mod(Hash(k, d), 12)]]}
=============================================================================
