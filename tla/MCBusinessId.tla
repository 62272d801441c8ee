--------------------------- MODULE MCBusinessId ---------------------------
(***************************************************************************)
(* BusinessId with half words of two bits and a domain that holds a little *)
(* more than half of the words, as 36^6 holds of 2^32.                     *)
(***************************************************************************)
EXTENDS BusinessId, Bitwise, TLC

MCStarts == {-1, 7}
\* Calls differ in nothing but their name.
Interchangeable == Permutations(Calls)

MCMix(a, b) == a ^^ b
\* Any half word will do; with this one some walks take four permutations.
MCDigest(t, i, r) == (((3 * (t[1] + i + 1) + t[2] + r) * (r + i + 1)) \div 2) % 4
=============================================================================
