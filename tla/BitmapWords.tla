----------------------------- MODULE BitmapWords -----------------------------
(* How the keys of the three-layer bitmap (ticks/bitmap.rs) fall into words. *)
EXTENDS Integers

CONSTANTS
  WordBits,  \* bits in a word (64)
  Cap,       \* exclusive bound on the keys
  KeyMax     \* u16::MAX

ASSUME WordAssumption ==
  /\ WordBits \in Nat \ {0} /\ KeyMax \in Nat
  /\ Cap \in 0 .. KeyMax + 1
  /\ Cap <= WordBits * WordBits * WordBits   \* layer2 is a single word

CeilDiv(a, b) == (a + b - 1) \div b
Bits   == 0 .. WordBits - 1
Words0 == 0 .. CeilDiv(Cap, WordBits) - 1
Words1 == 0 .. CeilDiv(CeilDiv(Cap, WordBits), WordBits) - 1
AllKeys == 0 .. KeyMax

WordOf(i) == i \div WordBits
BitOf(i)  == i % WordBits
=============================================================================
