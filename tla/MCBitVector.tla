---------------------------- MODULE MCBitVector -----------------------------
(* BitVector for TLC: values zero, one, the least and minus one.           *)
EXTENDS BitVector

SampleBits(w) == {{}, {0}, {w - 1}, 0 .. w - 1}
=============================================================================
