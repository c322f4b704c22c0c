------------------------------ MODULE HashBytes -------------------------------
(***************************************************************************)
(* The hash function of main.c's tables: hash_bytes of hash.c, of the four *)
(* bytes of an int.                                                        *)
(***************************************************************************)
EXTENDS Integers, SequencesExt, Bitwise

\* The low byte of the 32-bit Fowler-Noll-Vo hash.  It depends on the low bytes
\* of the two constants only, and there are fewer than 256 buckets.
FNV_32_PRIME == 16777619 % 256
FNV_32_BASIS == 197 \* 2166136261 % 256
Byte(v, k)   == (v \div 256^k) % 256

hash_int(v) ==
  FoldLeft(LAMBDA h, b : ((h * FNV_32_PRIME) % 256) ^^ b, FNV_32_BASIS,
           [k \in 1..4 |-> Byte(v, k - 1)])
===============================================================================
