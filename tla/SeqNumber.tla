------------------------------ MODULE SeqNumber ------------------------------
(***************************************************************************)
(* Wrapping sequence numbers (tunshell-client/src/p2p/udp/seq_number.rs).  *)
(*                                                                         *)
(* The code counts in u32: SeqModulus stands for 2^32 and SeqModulus - 1   *)
(* for u32::MAX, so the arithmetic and the comparison can be checked with  *)
(* a small modulus and proved for every one.                               *)
(***************************************************************************)
EXTENDS Integers

CONSTANT SeqModulus

ASSUME SeqModulusAssumption == SeqModulus \in Nat /\ SeqModulus >= 4

SeqNum == 0 .. (SeqModulus - 1)

\* Mutant: an addition that does not wrap.
SeqAddUnwrapped(a, n) == a + n

\* `a + SequenceNumber(n)`: wrapping_add.
SeqAdd(a, n) == (a + n) % SeqModulus

\* The constant u32::MAX / 2 that partial_cmp compares distances with.
HalfRange == (SeqModulus - 1) \div 2

\* partial_cmp answers Greater.
SeqGt(a, b) ==
  \/ a > b /\ a - b < HalfRange
  \/ a < b /\ ~(b - a < HalfRange)

\* partial_cmp answers Less.
SeqLt(a, b) ==
  \/ a > b /\ ~(a - b < HalfRange)
  \/ a < b /\ b - a < HalfRange

\* The provided comparisons of PartialOrd: `<=` and `>=`.
SeqLeq(a, b) == a = b \/ SeqLt(a, b)
SeqGeq(a, b) == a = b \/ SeqGt(a, b)

=============================================================================
