---------------------------- MODULE PoolStorage ----------------------------
(***************************************************************************)
(* A pool in the storage of the on-chain PoolManager and how               *)
(* xtask/src/rpc.rs reads it back: slot0's bit fields, the words of the    *)
(* tick bitmap, the three slots of a tick, requests in batches.  The slots *)
(* keep their layout, their fields are narrower: PriceBits stands for 160, *)
(* FieldBits for 24, InfoBits for 128, WordBits for 256 and Batch for      *)
(* STORAGE_BATCH_SIZE.  A price is a number that grows from tick to tick,  *)
(* with one number exactly at a tick and one for all prices up to the next.*)
(***************************************************************************)
EXTENDS Integers, SequencesExt

CONSTANTS
  MinTick, MaxTick,         \* TickIndex::MIN and MAX
  TickSpacing,              \* the spacing of the pool
  WordBits, FieldBits, PriceBits, InfoBits, Batch,
  MaxFee, MaxProtocolFee    \* the largest fees Fee::new and ProtocolFee::new accept

ASSUME StorageAssumption ==
  /\ MinTick \in Int /\ MaxTick \in Int /\ MinTick < MaxTick
  /\ TickSpacing \in Nat \ {0} /\ WordBits \in Nat \ {0} /\ Batch \in Nat \ {0}
  /\ FieldBits \in Nat \ {0} /\ PriceBits \in Nat \ {0} /\ InfoBits \in Nat \ {0}
  /\ MaxFee \in Nat /\ MaxProtocolFee \in Nat

TickIndices == MinTick .. MaxTick

\* The elements of a set in an order.
InOrder(S, Before(_, _)) ==
  [i \in 1 .. Cardinality(S) |->
     CHOOSE x \in S : Cardinality({y \in S : Before(y, x)}) = i - 1]

\* The entries of a sequence at some places, in their order.
Kept(s, places) ==
  LET order == InOrder(places, <) IN [i \in DOMAIN order |-> s[order[i]]]

Aligned == {t \in TickIndices : t % TickSpacing = 0}

Signed(bits) == -(2^(bits - 1)) .. 2^(bits - 1) - 1

\* The price exactly at a tick, and the tick at or below a price.  Zero is the
\* price of a pool that was not initialized.
PriceAt(t) == 2 * (t - MinTick) + 1
FloorTick(price) == MinTick + (price - 1) \div 2

\* max_liquidity_per_tick.
MaxLiquidityPerTick ==
  (2^InfoBits - 1) \div (MaxTick \div TickSpacing - MinTick \div TickSpacing + 1)

\* The pools the storage can hold: their numbers fit its fields, and they have
\* entries for the ticks that are in use.
TickEntries == [gross : 1 .. 2^InfoBits - 1, net : Signed(InfoBits), outside : Int \X Int]

Storable(pool) ==
  /\ pool \in [price : 0 .. 2^PriceBits - 1, tick : Signed(FieldBits),
               growth : Int \X Int, liquidity : Int,
               fee : 0 .. 2^FieldBits - 1, protocolFee : 0 .. 2^FieldBits - 1,
               ticks : {pool.ticks}]
  /\ DOMAIN pool.ticks \subseteq Aligned
  /\ pool.ticks \in [DOMAIN pool.ticks -> TickEntries]

NoTick == [gross |-> 0, net |-> 0, outside |-> <<0, 0>>]   \* TickInfoInner::DEFAULT

-----------------------------------------------------------------------------
(* The layout (Solidity's; ticks and bitmap are mappings without an entry for  *)
(* ticks nobody uses)                                                          *)

Compressed(tick) == tick \div TickSpacing

\* The bits a word of the bitmap has set.
StoredWord(ticks, word) ==
  {Compressed(t) % WordBits : t \in {u \in DOMAIN ticks : Compressed(u) \div WordBits = word}}

StoredSlot0(pool) ==
  pool.price
  + 2^PriceBits * ((pool.tick % 2^FieldBits)
                   + 2^FieldBits * (pool.protocolFee + 2^FieldBits * pool.fee))

StoredTick(info, part) ==
  CASE part = 1 -> (info.net % 2^InfoBits) * 2^InfoBits + info.gross
    [] part = 2 -> info.outside[1]
    [] part = 3 -> info.outside[2]

Stored(pool, slot) ==
  CASE slot[1] = "slot0"     -> StoredSlot0(pool)
    [] slot[1] = "growth0"   -> pool.growth[1]
    [] slot[1] = "growth1"   -> pool.growth[2]
    [] slot[1] = "liquidity" -> pool.liquidity
    [] slot[1] = "word"      -> StoredWord(pool.ticks, slot[2])
    [] slot[1] = "tick"      ->
         StoredTick(IF slot[2] \in DOMAIN pool.ticks THEN pool.ticks[slot[2]] ELSE NoTick, slot[3])

-----------------------------------------------------------------------------
(* Reading                                                                     *)

\* `slots.chunks(size)`.
Chunks(s, size) ==
  [i \in 1 .. (Len(s) + size - 1) \div size |->
     SubSeq(s, (i - 1) * size + 1, IF i * size < Len(s) THEN i * size ELSE Len(s))]

\* storage_slots: one extsload per batch, the answers one after the other.
StorageSlots(pool, slots) ==
  LET batches == Chunks(slots, Batch)
  IN  FlattenSeq([b \in DOMAIN batches |->
                    [i \in DOMAIN batches[b] |-> Stored(pool, batches[b][i])]])

Field(value, low, bits) == (value \div 2^low) % 2^bits

\* sign_extend_24, and i128::from_be_bytes.
SignExtend(value, bits) == IF value < 2^(bits - 1) THEN value ELSE value - 2^bits

\* pool_core_snapshot and the fields parse_slot0 cuts out.
PoolCoreSnapshot(pool) ==
  LET v == StorageSlots(pool, << <<"slot0">>, <<"growth0">>, <<"growth1">>, <<"liquidity">> >>)
  IN  [price       |-> Field(v[1], 0, PriceBits),
       tick        |-> SignExtend(Field(v[1], PriceBits, FieldBits), FieldBits),
       protocolFee |-> Field(v[1], PriceBits + FieldBits, FieldBits),
       fee         |-> Field(v[1], PriceBits + 2 * FieldBits, FieldBits),
       growth      |-> <<v[2], v[3]>>,
       liquidity   |-> v[4]]

\* What parse_slot0 and pool_core_snapshot make of the fields; anything else is
\* an error.  A protocol fee is two fees, one per direction.
Parses(core) ==
  /\ PriceAt(MinTick) <= core.price /\ core.price <= PriceAt(MaxTick)
  /\ core.tick \in TickIndices
  /\ core.protocolFee % 2^(FieldBits \div 2) <= MaxProtocolFee
  /\ core.protocolFee \div 2^(FieldBits \div 2) <= MaxProtocolFee
  /\ core.fee <= MaxFee

\* parse_tick_info_slots: liquidity packs its gross and its net amount.
TickInfoOf(liquidity, outside0, outside1) ==
  [gross   |-> Field(liquidity, 0, InfoBits),
   net     |-> SignExtend(Field(liquidity, InfoBits, InfoBits), InfoBits),
   outside |-> <<outside0, outside1>>]

\* tick_infos: the three slots of each tick, in one list.
TickInfos(pool, ticks) ==
  LET order  == InOrder(ticks, <)
      slots  == FlattenSeq([i \in DOMAIN order |-> [k \in 1..3 |-> <<"tick", order[i], k>>]])
      values == StorageSlots(pool, slots)
      at(t)  == 3 * (CHOOSE i \in DOMAIN order : order[i] = t)
  IN  [t \in ticks |-> TickInfoOf(values[at(t) - 2], values[at(t) - 1], values[at(t)])]

\* Mutant: Rust's `/` rounds towards zero: the lowest word is not read.
WordPositions_Truncated ==
  0 - ((0 - MinTick) \div TickSpacing) \div WordBits .. (MaxTick \div TickSpacing) \div WordBits

\* initialized_tick_bitmap_slots: div_euclid rounds down.
WordPositions ==
  (MinTick \div TickSpacing) \div WordBits .. (MaxTick \div TickSpacing) \div WordBits

\* initialized_ticks: the set bits that are ticks, if the tick has liquidity.
InitializedTicks(pool) ==
  LET words      == InOrder(WordPositions, <)
      bitmaps    == StorageSlots(pool, [i \in DOMAIN words |-> <<"word", words[i]>>])
      candidates == {t \in TickIndices : \E i \in DOMAIN words : \E bit \in bitmaps[i] :
                                            t = (words[i] * WordBits + bit) * TickSpacing}
      infos      == TickInfos(pool, candidates)
  IN  [t \in {u \in candidates : infos[u].gross # 0} |-> infos[t]]

\* pool_snapshot.
PoolSnapshot(pool) == [core |-> PoolCoreSnapshot(pool), ticks |-> InitializedTicks(pool)]

\* sparse_checkpoint_ticks: a touched tick that is no longer used reads as default.
SparseTicks(touched, infos) ==
  [t \in touched |-> IF t \in DOMAIN infos /\ infos[t].gross # 0 THEN infos[t] ELSE NoTick]

\* pool_checkpoint.
PoolCheckpoint(pool, touched) ==
  [core |-> PoolCoreSnapshot(pool), ticks |-> SparseTicks(touched, TickInfos(pool, touched))]

=============================================================================
