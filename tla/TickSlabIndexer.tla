--------------------------- MODULE TickSlabIndexer ---------------------------
(***************************************************************************)
(* The order-preserving key of a tick (types/tick_slab_indexer.rs): the    *)
(* tick divided by the spacing, cut to as few bits as the spacing leaves,  *)
(* with the sign bit flipped; the low bits of the key are the slot in a    *)
(* page and the rest the page.  The machine walks over ticks one by one.   *)
(***************************************************************************)
EXTENDS Integers

CONSTANTS
  MinTick, MaxTick,  \* TickIndex::MIN and MAX
  SlotBits,          \* bits of the slot index (5)
  Visited,           \* the ticks walked over
  Spacings           \* the spacings tried

\* A swap may leave the pool one tick below the lowest.
PoolTicks == MinTick - 1 .. MaxTick

TopBit     == 30      \* of a positive i32
PageBits   == 16      \* a page is a u16
MaxSpacing == 32767   \* TickSpacing::MAX

\* The position of the highest set bit: 31 - leading_zeros.
HighestBit(n) == CHOOSE b \in 0 .. TopBit : 2^b <= n /\ n < 2^(b + 1)

\* Ticks and spacings fit 31 bits, and the pages of spacing one a u16.
ASSUME IndexerAssumption ==
  /\ MaxTick \in MaxSpacing .. 2^TopBit /\ MinTick = -MaxTick
  /\ SlotBits \in Nat
  /\ MaxTick + 2^(HighestBit(MaxTick) + 1) < (2^PageBits - 1) * 2^SlotBits
  /\ Visited \subseteq PoolTicks
  /\ Spacings \subseteq 1 .. MaxSpacing

VARIABLES tick, spacing

\* Mutants: the division truncates toward zero, or one bit too few is kept.
Compressed_Truncated(t, s) == IF t < 0 THEN -((-t) \div s) ELSE t \div s
KeyBits_RoundedUp(s) == HighestBit(MaxTick) + 1 - HighestBit(s)

\* div_euclid.
Compressed(t, s) == t \div s

\* MAX_BITS less the bits the spacing takes away.
KeyBits(s) == HighestBit(MaxTick) + 2 - HighestBit(s)

SignBit(s) == 2^(KeyBits(s) - 1)

FlipSign(x, s) == IF x < SignBit(s) THEN x + SignBit(s) ELSE x - SignBit(s)

FromTick(t, s) == FlipSign(Compressed(t, s) % 2^KeyBits(s), s)

\* Flip the sign bit back and extend it.
ToTick(key, s) ==
  LET raw == FlipSign(key, s)
  IN  s * (IF raw < SignBit(s) THEN raw ELSE raw - 2^KeyBits(s))

PageOf(key) == (key \div 2^SlotBits) % 2^PageBits
SlotOf(key) == key % 2^SlotBits
FromParts(page, slot) == page * 2^SlotBits + slot

\* calculate_cache_cap.
CacheCap(s) == PageOf(FromTick(MaxTick, s)) + 1

KeyInit ==
  /\ tick \in {t \in Visited : t - 1 \notin Visited}
  /\ spacing \in Spacings

KeyStep == tick + 1 \in Visited /\ tick' = tick + 1 /\ UNCHANGED spacing

KeySpec == KeyInit /\ [][KeyStep]_<<tick, spacing>>

-----------------------------------------------------------------------------
\* From one tick to the next the key stays, or grows by one where a multiple
\* of the spacing is passed: keys are ordered as ticks are, across zero and at
\* both ends of the range, and no two boundaries share one.
KeysFollowTicks ==
  [][FromTick(tick', spacing)
       = FromTick(tick, spacing) + (IF tick' % spacing = 0 THEN 1 ELSE 0)]_<<tick, spacing>>

\* Every key lies in the cache the constructor sizes, survives the split into
\* page and slot, and decodes to the boundary at or below the tick.
KeysDecode ==
  LET key == FromTick(tick, spacing)
  IN  /\ PageOf(key) < CacheCap(spacing)
      /\ CacheCap(spacing) < 2^PageBits
      /\ FromParts(PageOf(key), SlotOf(key)) = key
      /\ ToTick(key, spacing) = tick - (tick % spacing)
=============================================================================
