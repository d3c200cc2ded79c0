------------------------------ MODULE JevHash -------------------------------
(***************************************************************************)
(* jevhash_32 (lib/xnu-trace/MinimalPerfectHash.cpp) for keys of at most   *)
(* 32 bits.  A 32 bit word is the pair of its halves <<high, low>>.        *)
(***************************************************************************)
EXTENDS Naturals, Bitwise

Half == 2^16

Word(hi, lo) == <<hi % Half, lo % Half>>

Add(a, b) == Word(a[1] + b[1] + (a[2] + b[2]) \div Half, a[2] + b[2])

WordXor(a, b) == <<a[1] ^^ b[1], a[2] ^^ b[2]>>

\* a * m for m < 2^14
Times(a, m) == Word(a[1] * m + (a[2] * m) \div Half, a[2] * m)

\* XXH_PRIME32_2 = 0x85EBCA77
Prime32_2 == <<34283, 51831>>

\* XXH_rotl32(a, 13)
Rotl13(a) ==
  <<(a[1] % 2^3) * 2^13 + a[2] \div 2^3, (a[2] % 2^3) * 2^13 + a[1] \div 2^3>>

\* jevhash_32::hash; val >> 32 is 0
Hash(val, seed) == Rotl13(WordXor(Add(Times(Prime32_2, seed + 1), <<0, seed>>), val))

\* mod: fastmod_u32 is the remainder
Mod(a, n) == ((a[1] % n) * (Half % n) + (a[2] % n)) % n
=============================================================================
