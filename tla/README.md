# A verification project for rm-uniswap

`rm-uniswap` is a Rust library that simulates Uniswap v3/v4 concentrated-liquidity
pools off chain: the tick and position state of a pool, the swap loop with its exact
integer rounding, the fee accounting, the v4 hook lifecycle and one dynamic-fee hook.
The library is sequential: no threads, no messages, no persistence other than serialized
snapshots. What is hard to get right in it is *state*: many structures that must agree
after any sequence of mints, burns, swaps and failing calls, and arithmetic whose rounding
directions must fit together. Next to it stands `xtask`, a tool that fetches the history
of an on-chain pool and turns it into a replay fixture. It is concurrent: streams of
requests to remote endpoints, answered in any order, incompletely or not at all.

Paths below are relative to the library's crate, `src/src/`, or start with `xtask/src/`.

## 1. The system

| Component | State | Operations | Hard part | What makes it correct |
|---|---|---|---|---|
| Pool (`core/concentrated/pool.rs`, `types/pool_state.rs`) | price, tick, active liquidity, two fee-growth globals | `modify_liquidity`, `swap`, `quote_swap`, `set_protocol_fee`, snapshot validation | several writes per call, each followed by `?`; crossings happen before the swap commits | the tick follows the price; active liquidity is the net of the ticks below; a healthy pool passes its own validation; the loop ends |
| Positions (`core/concentrated/position.rs`) | liquidity and fee checkpoints per owner, range, salt | `update_position`, `validate_against_ticks` | fee growth inside a range from wrapping differences of values at ticks that come and go | fees go to positions in range, never more than was charged |
| Tick store (`core/concentrated/ticks/slab.rs`, `slab_value.rs`, `mod.rs`) | pages in a slab allocator, page cache, bitmap, page links | insert, get, update, remove, `next_initialized_tick`, snapshot | four structures updated together, pages freed and keys reused | it answers like an ordered map |
| Bitmap (`core/concentrated/ticks/bitmap.rs`) | three layers of words | set, remove, contains, four searches | summaries, word boundaries, padding | it answers like a set |
| Tick keys (`types/tick_slab_indexer.rs`, `tick_spacing.rs`) | none | tick to key and back | sign, width and order of the key | order-preserving, decodable, inside the cache |
| Step math (`math/swap.rs`, `math/sqrt_price.rs`) | none | `compute_swap_step`, amounts, next prices | rounding, 256-bit fallback, dust | solvency, exact amounts, legal fees |
| Fees (`types/fee/*`) | LP fee, protocol fees, two cached effective fees | `set_lp_fee`, `set_protocol_fee`, share of a step | cache next to its inputs | the cache is fresh, the share fits in the fee |
| Pool manager and hooks (`core/concentrated/pool_manager.rs`, `types/hooks.rs`, `types/delta.rs`) | a pool, an optional hook, a block number | `swap`, `modify_liquidity`, `donate` | hook callbacks around the pool, failure after the pool has changed | the caller's exact amount is kept, the right fee is charged |
| Stable-pair hook (`v4/stable_pair.rs`) | per-block fee, price and block | `before_swap_fee` | a value cached per block, a decay over blocks that may skip or go back | one fee per block and direction, decay never underflows nor restarts |
| Wide arithmetic (`math/full.rs`, `math/small_ratio.rs`) | none | `mul_div`, `mul_q96_div`, limb-wise ratios | 512-bit products, a modular inverse, carries | the exact quotient, or an error |
| Tick math (`math/tick.rs`) | none | tick to price and back | a logarithm in fixed point, two offsets that bracket its error | the floor tick of every price |
| Replay generator (`xtask/src/historical_replay.rs`, `xtask/src/rpc.rs`) | the received logs and traces, the replayed pool, a queue of checkpoint fetches | read storage, fetch, decode, replay, checkpoint, write | concurrent requests, answers out of order, missing or incomplete; checkpoints read while the replay goes on | what is written is the chain |
| v3 facade (`v3.rs`) | a pool | mint, burn, swap | signs and widths | (not modelled) |

The manager calls the hook, then the pool, then the hook; the pool calls the step
math in a loop, and the tick store for the next initialized tick, for each crossing and
for each boundary a liquidity change touches; the tick store finds pages by key through
its cache and bitmap; positions read fee growth from the pool and its ticks. The generator
builds a pool from the storage it reads and calls the library for each decoded operation.

## 2. Modules

| Module | Models | State and its counterpart |
|---|---|---|
| `Pool` | pool, positions, ticks as a map | `tick`, `sqrtPrice`, `liquidity`, `feeGrowth` = `PoolState`; `ticks` = the initialized ticks; `positions` = `Positions`; `swap` = the locals of `swap_inner` between two iterations; `unclaimed` and `tainted` are history variables |
| `TickStore` | what the tick storage promises: an ordered map | `store`; `answer` = the call just made and its result |
| `TickSlab` | the paged tick store | `bitmap`, `cache`, `values` as in `TickSlab`; `answer` as in `TickStore` |
| `KeySet` | what the bitmap promises: a set | `keys`, `answer` |
| `BitmapWords`, `HierBitmap` | the three-layer bitmap | `layer0`, `layer1`, `layer2`, words as sets of bits |
| `TickSlabIndexer` | the key of a tick, at its real width | the tick walked to, the spacing |
| `FeeMath`, `SqrtPriceMath`, `SwapMath` | the arithmetic of a swap step | operators; an `Option` or `Result` is the set of its values |
| `FullMath`, `SmallRatio`, `TickMath` | the wide arithmetic and the tick conversion, step by step | operators; the word sizes, fixed-point formats and tables are constants |
| `Numerics` | what those three promise | a machine that walks through the operands |
| `RangeSwaps` | `swap_inner` with the real arithmetic in one range of liquidity | `sqrtPrice`, `swap` = the amounts of `swap_inner`; `held` = the tokens of the pool (history) |
| `PoolManager` | manager, hook adapter, swap-fee cache | `dynamic`, `swapFee` = `SwapFee`; `call` = the operation in progress, one action per callback |
| `StablePair` | the stable-pair hook | `state` = `StableFeeState`; `price`, `block` of its environment; `quoted`, `epoch` are history |
| `PoolStorage` | a pool in the storage slots of the on-chain manager, and the readers of `rpc.rs` | operators; slots keep their layout, fields are narrower |
| `HistoricalReplay` | the generator, over any chain history | `phase` = where `run` stands; `fetch` = a `buffer_unordered` stream; `logs`, `scan`, `traces`, `replay` = the locals of its functions; `queue` = `CheckpointQueue`; `file` = the fixture; `input` = history and arguments; `faults` is a history variable |
| `PoolProofs`, `TickSlabProofs`, `HierBitmapProofs`, `PoolManagerProofs`, `StablePairProofs`, `ReplayProofs` | proofs about `Pool`, `TickSlab`, `HierBitmap`, `PoolManager`, `StablePair` and `HistoricalReplay` | - |
| `ArithmeticProofs` | proofs about `RangeSwaps` and what a step is built from: `FullMath` and `SmallRatio` (through `Numerics`), `TickSlabIndexer` | - |
| `BasicLemmas` | what the proofs need of integers, rounded quotients, powers of two, iteration and sums over finite sets | - |

`MCPool`, `MCTickStorage`, `MCNumerics`, `MCRangeSwaps`, `MCPoolManager` and `MCReplay` give
constants their values for TLC; `StablePair` takes them from its `.cfg`. `MCTickStorage` runs
`TickSlab` and `HierBitmap`, and `MCNumerics` the walk of `TickSlabIndexer` and the machines
of `Numerics`, side by side: an initial state picks the one that moves.

The abstract modules record in `answer` which call was made with which key, so the
refinements say that every single answer is right, not only that some call could have given it.
The answer is taken (`Return`) before the next call is made.

Two abstractions join the modules. *Ticks*: `Pool` uses the tick store as a map; that the
paged store is one is the refinement `TickSlab` => `TickStore`, and that its bitmap may be
taken as a set is `HierBitmap` => `KeySet`. *Steps*: `Pool` takes the arithmetic of a step
as any outcome a contract allows (`StepPrice`, `StepExhausts`: it ends between start and
target; short of the target the amount is used up; an empty step uses nothing).
`RangeSwaps` checks that contract of the real formulas on small values (`StepHonoursContract`),
and `ContractHonoured` proves it for all.

Actions follow the code statement by statement where it matters: `ModifyLiquidity`
leaves behind what a call that fails half way leaves behind; `SwapStep` is one iteration of
the loop with the crossing it ends with; `SwapCommit` is `StateAccess::set`; `SwapFail` is
any checked operation of an iteration returning an error. The failing operations depend on
magnitudes the model does not carry, so `Pool` lets any running swap fail; `RangeSwaps`
shows when a step really fails.

In `HistoricalReplay` the chain is a constant: transactions with the frames of their call
traces. From it follow, by definition, the events, the storage at the end of each block and
what an endpoint answers with. The pool's own arithmetic is reduced to ticks, net liquidity and a
fee-growth counter: enough to tell a wrong operation, order, fee or tick from a right one. Of
the price it keeps what validation looks at: on which tick it is, or between which two.
`LoadInitialPool` reads `PoolStorage` word by word as `pool_snapshot` does, and stops where the words
cannot be parsed (`Parses`); `TracesDone` makes a pool of the snapshot, unless
`PoolSnapshot::validate` refuses it (`Accepted`). A request is
started when the stream has room (`StartRequest`), answered at any later time
(`LogsArrive`, `TraceArrives`, `CheckpointArrives`), or fails after its retries. A log answer may lack the
events of one kind and a trace one subtree, again and again: `faults` records the kinds (`MayLose`). Every transaction is decoded and
replayed by one action (`ReplayTransaction`); pushing a checkpoint and collecting one are
actions of their own, between which any answer may arrive.

## 3. Runs

| Run | Question | Bounds, and why they suffice |
|---|---|---|
| `MCPool_state` | Do types and the tick-price relation survive every sequence of calls, failing ones included, and does every swap end? | three ticks with a price on and between each; two ranges sharing a tick; words of two ticks, so that word boundaries and initialized ticks are met separately and together; `u128` up to 7 and `i128` up to 3, so that each of the checked operations of `update_tick` fails in some state |
| `MCPool_liquidity` | Do active liquidity, the per-tick cap and validation agree with the ticks? | spacing 2, twelve ticks of which six are aligned, four ranges that overlap, adjoin and share boundaries and a misaligned one; `u128` up to 23 and with it `i128` up to 11, which gives a per-tick cap of 3, and deltas below and above it. Three ranges open at once at the cap reach a depth of 9: with one tick less to divide by, the sums of the validation pass `i128`, and with nothing divided the depth passes `u128`; a half-updated pool is checked but not used on |
| `MCPool_fees` | Are fees paid to positions in range, once? | fee growth modulo 7, so that the accumulators of the ticks wrap; nested ranges sharing boundaries, ticks removed and initialized again; fees of one token, the other being its mirror image; same constraint |
| `MCTickStorage` | Is the paged store an ordered map, and the bitmap a set? | three pages (a first, a middle, a last one) of two slots, three slab keys in any order, two payloads, keys outside the cache; all sets of 7 keys in words of 2 bits: three layers, more than one word in two of them, padding in the last word, keys past the capacity |
| `MCNumerics` | Are keys ordered, decodable, inside the cache? Are quotients exact, ticks floors? | the real tick range and widths of the keys, windows at both ends, at zero and in between, spacings that are and are not powers of two; every operand of 6-bit words (double-word products, odd and even divisors), of four limbs of 3 bits, and every price between the tick bounds of a table of six entries |
| `MCRangeSwaps_ledger` | Can rounding drain the pool? Is the contract of a step kept? | prices 2..11 with unit 4, three liquidities, five fee settings from none to 100%, amounts up to 12, step boundaries at every price; `U256Max` small enough for the fallback formula; pools with a surplus of at most 2 (a larger one changes no behaviour) |
| `StablePair` | One fee per block; decay without underflow or restart? | nine prices inside, near and far from the optimal range on both sides; six block numbers with gaps of 0 to 7, going back too |
| `MCPoolManager` | Does the hook lifecycle keep the caller's amount and charge the right fee? | static and dynamic pools; hook deltas that overshoot the amount in both directions, fees of 100% and the dynamic flag, `i128` small enough to overflow |
| `MCPool_floor_tick` (violation) | Is the tick the floor tick? | as `MCPool_state` |
| `MCReplay` | Is what the generator writes the chain? Does it end, and with a file? | eight histories of up to 4 transactions (several in a block, reverted, nested and foreign calls, a swap in an after-hook, a donation, a position that comes and goes, dynamic fees, a downward swap that stops on a tick and one that stops on the lowest, a pool nobody initialized, one whose hook returns deltas), seven sets of arguments (bounds of zero, chunks of one block and of all, a cut in the middle of a block, an empty range), any number of incomplete answers of one kind, any request failing, every order of answers; ticks -6 to 7 in bitmap words of two bits, so that the lowest word is partial, and batches of two slots; prices of 5 bits and liquidity of 5 bits hold these pools |
| `MCReplay_nested_fees` (violation) | Does each swap get the fee of its own event? | as `MCReplay`, a swap inside the before-hook of another |
| `MCPool_reconcile` (violation) | Do positions reconcile with ticks? | as `MCPool_state` |

`CHECK_DEADLOCK FALSE` is set where the state space ends by construction: the two runs
with the constraint `Untainted`, `MCNumerics`, whose walks end at their last operand, and
the two runs of the generator, a program that ends.

**Fairness.** Two specifications have it. In `Pool`, `SwapTerminates` needs weak fairness of
the actions of a running swap (`SwapAdvances`). The loop is sequential code, so once entered it keeps being
executed; nothing else can run in between. Fairness does not prefer commit to another step.
In `HistoricalReplay` the runtime keeps polling the pipeline, so a step of it that stays
possible is taken in the end (`CanStep` is the enabling condition of `Steps`, written out),
and every request in flight is answered or given up (`WF_vars(Answers)`): `rpc.rs` bounds
its retries. Nothing says that an answer is complete or that the last retry succeeds. That each
attempt ends is an assumption about the environment: `rpc.rs` sets no timeout on a connection, so
against an endpoint that accepts a request and stays silent for ever neither property holds.
`Succeeds` also assumes full answers, a `slot0` that can be parsed at every block of the range,
no donation, and a start block whose pool has the floor tick of its price (finding 1): each of the last
three is needed, the histories of `MCReplay` contain a pool that fails it.

## 4. What the runs found

1. **The pool tick is not always the floor tick of the price.** After a downward swap
   stops exactly on a tick, `swap_inner` stores the tick below. `pool_state.rs` and
   `pool.rs` state the floor tick as an invariant and snapshot validation
   enforces it, so such a pool cannot be reloaded from its own snapshot. `SnapshotLoads`
   holds for all others. On the lowest tick this stores `MIN - 1`, built with `new_unchecked`, against the guarantee of
   `TickIndex`; the walk of `MCNumerics` includes that tick, and its key decodes. The generator meets
   both on chain: a start block that ends in the first state is fetched with all its logs and traces and
   then refused by `Pool::try_from` (`Accepted`), a `slot0` with the second is refused by `parse_slot0`
   (`Parses`; Uniswap's own manager does not store it, but which manager is read is an argument).
2. **A rejected `modify_liquidity` leaves its earlier writes.** There is no rollback: a
   burn of more than the position has changes the ticks and returns an error; a rejected
   mint can leave the lower tick changed.
3. **Fees of nested swaps are exchanged.** The generator pairs the n-th swap of a trace,
   in call order, with the n-th `Swap` event. A swap made in the before-hook of another is
   later in call order but first among the events. The decoded operations are in call order,
   too, and so are replayed outer first, where the chain executed the inner one first.
   Without calls in before-hooks the operations are right (`TransactionsAreComplete`), and so
   are the fees of swaps in after-hooks.

Seen on the way, and not a run of its own:

* a liquidity change rejected on a new tick leaves that tick initialized with zero gross
  liquidity (`update_tick` inserts first; the doc of `TickInfoInner::liquidity_gross` says
  such a tick should be removed);
* `SwapStep`'s doc says a price short of the target is strictly between current and target,
  but a step whose fee takes the whole input ends where it started;
* `mint` and `burn` of `v3.rs` convert signed amounts with `U256::from`, which panics on
  negative ones;
* the generator refuses an entirely empty log answer, and counts operations against events
  in each transaction, but a transaction all of whose logs are missing is skipped without
  notice; `CheckpointsHold`, `CheckpointCoversBlock` and `FixtureIsChainPrefix` are stated for
  runs that got all logs;
* it refuses a pool with a dynamic fee and a protocol fee at the start block only: a protocol
  fee set later is not noticed;
* `SinglePoolManager::new` drops the positions of the pool it is given and keeps its ticks.

`tainted` records that some call failed after it changed ticks. The properties about
liquidity and fees are stated for pools without such a call: with one they are false, by
finding 2.

## 5. Proofs

All theorems hold for every value of the constants that meets the named assumptions of the
module.

**The pool.** `PoolProofs` proves, for every tick grid, spacing, word size, strictly increasing price
table, integer bound, set of owners, ranges, deltas, fees and limits that meet the named
assumptions of `Pool`:

* `TypeCorrect`: `Spec => []TypeOK`. Errors included: what a failing call leaves behind is
  well typed, too.
* `TickTracks`: `Spec => []TickTracksPrice`.

`TypeOK` is not inductive. A crossing reads the tick a step walks to, the liquidity after
it is bounded by the checks of the step, and the fee growth by the
`checked_add`; the price after a step lies in the range only because the target does,
and the target because the word boundary is clamped. `TickTracksPrice` speaks of the
running swap or of the committed pool, and each becomes the other at begin and commit, so
the inductive invariant `PoolInv` adds to `TypeOK` that both views track their price. The
step cases rest on lemmas about the floor tick (`TickAtType`, `TickAtUnique`), which need
that a strictly increasing table has a floor: an induction over an interval.
`BasicLemmas` derives it for sets from the library's well-foundedness of the naturals.

On them rest the theorems about liquidity and fees:

* `LiquidityIsNet`: `Spec => []ActiveLiquidityIsNet`, `DepthFits`: `Spec => []DepthWithinU128`,
  and `SnapshotsLoad`: `Spec => []SnapshotLoads`.
* `GrowthToActiveRanges`: `Spec => GrowthGoesToActiveRanges`, an action property.
* `PositionsCovered`: `Spec => []FeesCovered`.

They compare sums over positions with sums over ticks. `BasicLemmas` proves what happens to
such a sum when an entry comes, goes or changes (`SumUpdate`, `SumUnion`, `SumEntry`, ...), by
induction over finite sets (`SetInduction`). The inductive invariant of the liquidity,
`LedgerInv`, adds to `PoolInv` and the shape of ticks and positions that an untainted pool is
`Balanced`: gross and net of every tick are the sums over the positions that begin or end
there, and the active liquidity, of the pool or of the running swap, is the net of the ticks
below. Neither half would do alone: a crossing needs the ticks, a burn the positions. From it
follow the cap (an aligned tick carries at most its share of `u128`, and there are no more
aligned ticks than shares) and what a snapshot is checked for, its overflow checks included.
`validate` and `validate_against_ticks` add up in `i128`, where the cap allows a `u128`. The sums fit
all the same: each position counts at its lower and at its upper tick, so twice the
liquidity of all positions is the gross of all ticks, at most the largest `u128`; every partial sum of net is
the liquidity of some positions, and so is every sum of the reconciliation. Half of the largest
`u128` is the largest `i128`, and that is the one assumption that relates the two
(`DataAssumption`: `U128Max = 2 * I128Max + 1`; `HalfDepth`, `SumsFit`).

Fee growth is arithmetic modulo `FeeMod`. `Same` is congruence, `Raw` the growth inside a range
without wrapping; `RawMove` says that one step of the loop, with or without the crossing it
ends with, moves it by the global growth if the pool is in the range and not at all otherwise.
`FeesInv` adds to `LedgerInv` that what every position has accrued since its checkpoint is
`Covered` by what was charged and not yet claimed. One step credits the positions in range, whose
liquidity sums to the active liquidity (`LedgerInv` again), so the sum grows by no more than the fee;
an update of a position moves its part from one side to the other, rounded down.

**The step arithmetic.** `ArithmeticProofs` proves for every price range, fixed-point unit,
liquidity, pair of fees and amount, with the one assumption that a liquidity times the unit fits in
256 bits (`RangeAssumption`; `u128` and `2^96` do):

* `ContractHonoured`: `Spec => StepHonoursContract`, on which `Pool` relies.
* `FeeIsRate`: `Spec => FeeIsRateOfPayment`.
* `ExactAmountsKept`: `Spec => []AmountNotExceeded`, and `SwapsSucceed`: `Spec => []StepsSucceed`,
  which sets aside an exact output at a fee of 100%, where the code does fail.
* `StaysSolvent`: `Spec => []Solvent`.

`Solvent` speaks of the committed pool and says nothing of the swap that is running, so it is not
inductive. `RangeInv` says that the pool is `Backed`: it holds at least the exact principal,
multiplied out so that no quotient is left and the amounts of successive steps add up; and so it is
in `Pending`, the state it would have if the running swap ended now.
The amounts are characterised once as the least or greatest integers on their side of a product
(`RoundsUp`, `RoundsDown`, `Amount0Up` ... `Amount1Down`). The next prices (`AddAmount0` in both formulas,
the 256-bit fallback included, `SubAmount0`, `AddAmount1`, `SubAmount1`) are bounded against
them, then the fee in its two forms (`FeeOnTop`, `FeeLeftOver`), the combined
fee and the protocol's share (`CombinedFee`, `ShareOfFee`). `GoodStep` collects what a step owes the loop:
it stays between start and target, its input covers the move and its output is within it, the
fee is the rate, what remains keeps its sign. `ExactInStep` and `ExactOutStep` prove it, and
`BackedMove` that such a step keeps the pool backed.

**The wide arithmetic.** `ArithmeticProofs` proves:

* `WordsDividedExactly`: `WalkSpec => []FullMathExact`, for every word width the Newton steps are
  enough for (`FullMathAssumption`: at most four bits doubled `NewtonSteps` times; 256 and 6 meet it
  with equality), and every position of the fixed point.
* `AmountsDividedExactly`: `WalkSpec => []SmallRatioExact`, for every limb width and every bound on
  the small factors up to a limb (`SmallRatioAssumption`).

The walk only supplies the operand; the substance is in the lemmas about the operators. A double word
is divided exactly because its numerator, less the remainder, is a multiple of the divisor: shifting
both by the divisor's trailing zeros loses nothing (`ShiftDropsZeros`, `ShiftDivides`), the odd divisor that is
left (`OddPart`) has an inverse modulo the word, and multiplying by it gives the one quotient
that fits (`InverseDivides`). The inverse is right in four bits at first (`SeedIs`) and in twice as
many after each step, wrapped or not (`NewtonDoubles`, `ModInvIs`). `CoreExact` combines them, and
`DividedExact` and `Q96DividedExact` add the short paths. For the limbs, the recursive functions are
unrolled at their four limbs: `LimbsSpell` says that the limbs of an amount spell it, `ProductStep`
and `DivideStep` what one limb and its carry contribute, and `OneLimb`, `TwoLimbs`, `FourLimbs`
that each path gives quotient and remainder of the whole product; `TopLimbDecides` that the one
overflow check of the code refuses exactly the quotients that need a fifth limb.

**The tick keys.** `ArithmeticProofs` also proves, for every symmetric tick range that holds
the largest spacing, fits 31 bits and whose pages at spacing one fit `u16`
(`IndexerAssumption`; the protocol's range does), and for every spacing up to `TickSpacing::MAX`:

* `KeysOrderedAsTicks`: `KeySpec => KeysFollowTicks`.
* `KeysDecodeToBoundaries`: `KeySpec => []KeysDecode`.

`KeyIs` says what masking and flipping the sign bit amount to: the compressed tick plus half the key
space, with no tick cut off, the one below the lowest included. From it the order and the
decoding (`KeyDecodes`) follow; `PagesFit` adds that the cache the constructor sizes has a place for every key.

These rest on facts about `2^n` that no backend knows. `BasicLemmas` takes them from the library's
theorem on the number of subsets of a finite set (`FS_SUBSET`): `PowNext`, `PowAdd` and
`PowSplit` count subsets. The library's own proof of `FS_SUBSET` leaves one arithmetic
fact open, `2^(n+1) = 2^n + 2^n` (`TwoExpLemma`), so the theorems of these two paragraphs depend on that
fact about the standard operator `^` as well as on the assumptions named.

**The tick store.** `HierBitmapProofs` and `TickSlabProofs` prove, for every
capacity, word size, number of pages and slots, and any slab keys and infos:

* `SummariesStayExact`: `BitmapSpec => []SummariesExact`, and `BitmapIsKeySet`: the three-layer
  bitmap implements `KeySet`.
* `SlabTypeOK`, `PagesStayInStep`, `LinksStayInOrder`: the three invariants of `TickSlab`.
* `SlabIsTickStore`: the paged store implements `TickStore`.

The inductive invariant of the bitmap, `BitmapInv`, says which bits of each layer are set in
terms of the words below; exactness is `SummaryOf`. A search is right because a word is
searched exactly (`FirstInWord`, `LastInWord`) and keys are ordered by word, then bit
(`Split`, `Join`). The inductive invariant of the pages, `SlabInv`, is the conjunction of the
three invariants: none is inductive alone, since a step finds a page through the cache
(`PagesAgree`) and relinks by the links it has (`LinksFollowOrder`). The proof replaces the
`CHOOSE` in the links by `PrevIn` and `NextIn`, and two lemmas say how neighbours
change when a page comes or goes (`NeighboursWith`, `NeighboursWithout`). For the
refinement each call is shown to have the effect of the map's (`TickPut`, `TickTaken`,
`TicksKept`) and each search the result (`NextKeyIsLowest`, `PrevKeyIsHighest`).
The proofs use the least-number principle for a set of naturals (`LeastNatural`).

**The manager.** `PoolManagerProofs` proves `FreshCache`, `AmountKept` and `FeeInForce` for all
fees, amounts, hook answers and integer widths. `ManagerInv` carries the facts a callback
relies on from the one before it: the fee a swap was begun with, and the amount that is left
for the pool after the before-hook, bounded by the caller's.

**The stable-pair hook.** `StablePairProofs` proves `OneFee`, `DecayBounded`, `FeesBounded` and
`FeeFalls` for every configuration, price, block order and decay. `QuoteInv` says that from the first swap of
a block on the state alone determines the fee of each direction. `DecayInv` bounds the decaying fee by the
fee at the price it was recorded at; its arithmetic is the lemmas of `BasicLemmas` on
rounded quotients, one fact at a time.

**The generator.** `ReplayProofs` proves, for every set of histories, every order of the answers and
every unsigned argument, about histories of this kind:

* `ReplayAssumption`, `HistoryAssumption`: a history is a sequence of transactions in the order of their
  blocks, each with an operation of the pool in it that is not reverted. Amounts and ticks of an operation
  are integers, and unless the fee of the pool is dynamic a swap charges the pool's.
* `ChainAssumption`: the pools of a history are ones the storage can hold, their numbers fit its fields and
  ticks in use are aligned, and none of its operations changes the stored fee. Whether they can be parsed, or
  are accepted, is not assumed.

TLC evaluates these on every run of the generator. The theorems:

* `CheckpointsAreQueued`: `Spec => []QueueIsExact`.
* `FixtureIsPrefix`: `Spec => []FixtureIsChainPrefix`, if no history has a call in a before-hook.
* `FixtureIsComplete`: `Spec => []TransactionsAreComplete`, if no history has a call in a before-hook
  and answers of at most one kind (`MaxFaults <= 1`), any number of them, are incomplete.
* `SnapshotIsExact`: `Spec => []SnapshotIsChainState`.
* `CheckpointsAreFound`: `Spec => []CheckpointsHold`, if no history has a call in a before-hook.
* `CheckpointsCoverBlocks`: `Spec => []CheckpointCoversBlock`, if no history has a call in a before-hook.

Both hypotheses are needed. With a call in a before-hook the logs are not in call order (finding 3).
With logs and frames missing the two counts that `decode_operations` compares can agree on too little:
an operation whose event and whose frame are both missing is missed without notice. `PlainHistories`,
which `MCReplay` checks, meets the first and its bound the second.

`QueueInv` says of the three places of a checkpoint (`Waiting`, `Open`, `Fetched`) that they are
disjoint, that together they are those of the prefix replayed so far (`Due`), and that the tasks in
flight are at most as many as the limit, no two with the same index. `QueueIsExact`
counts; the invariant speaks of sets, and `ThreePlaces` goes from one to the other. The steps before the replay
leave the queue alone (`QuietStep`); pushing starts a task only where there is room, a task
that ends stays the task of its checkpoint (`TaskEnds`), and collecting it moves its index from
`Open` to `Fetched` (`CollectQueue`).

The other two are about sequences built by sorting, filtering and flattening. `RankExists` and
`RanksOrder` say that a finite set in a strict order has exactly one element of each rank, so
`InOrder` lists it; `Flattened` where in a flattened sequence each part ends up, by
induction over the parts (`PartialExists`, `PartialGrows`). From these follow the order of the chain's logs
(`ChainLogsOrdered`), that sorting what came, in whatever order, loses and invents none
(`SortedIs`) and that the chunks leave no block out (`ChunksCover`). `LogsInv` says that what is
received is of the range, and that the logs of every chunk answered in full are there; so at the
end of the stream all are (`LogsRead`). `TxOrderIsChainOrder` then counts: the transactions seen
are those between the two blocks (`SeenIs`), so the k-th of them is the k-th after the
start, and `CheckpointsAreLast` says which of them end a block. `FileInv` carries this through the replay
to the file. `OpsInv` adds that what is replayed is complete: the frames decoded
are among the operations, all of them if the trace is whole; if it is not, no log is missing, so there
are at least as many logs as operations (`LogsCount`), and both counts are the same (`DecodedComplete`).

For the snapshot, `StorageSlotsAre` says that cutting the slots in batches and joining the answers gives
the word of every slot; `SignedRead`, `Unpacked` and `PackedTwo` that a field comes out of a word as it
went in, negative ticks and net liquidity included; `Slot0Read` and `TickRead` apply them to the two layouts.
`TicksRead` is about the bitmap: each initialized tick is the one bit of one word, and the words
asked for have them all. `SnapshotIsPool` combines them and `SnapshotInv` carries the snapshot through the replay.

The checkpoints are what the rest is for. `FollowInv` says, as long as no log is missing, that

* the pool of the replay is the chain's after the transaction replayed last (the replay keeps a set of
  outcomes; the chain's, its liquidity and ticks included, is the one in it),
* the ticks touched so far in a block contain every tick whose entry differs between the chain's pool now and
  the one at the end of the block before,
* a checkpoint in flight, waiting or in the file is `PoolCheckpoint` of the chain's pool at the end of its
  block, for those ticks, and the operations in the file are those the chain executed.

That the replay keeps pace is about two folds: `ReplayOps` over the operations of the file and `AfterTx` over the calls
of each transaction. Each gets the sequence of its partial results as a witness, by induction over
the length, and one operation does the same in both: with the fee of the log of a dynamic pool, with the
pool's own otherwise, which is where the two assumptions on fees come in. An operation
changes only ticks it touches: those a swap crosses lie between the ticks before and
after it, and a modification's are its two ends. A checkpoint then says of the ticks it names what the
chain's pool holds, through the same packed words as the snapshot. `ReplayInv`, which both theorems use, is
the conjunction of `QueueInv`, `LogsInv`, `FileInv`, `SnapshotInv` and `FollowInv`.

**Model-checked only.**

* Liveness and `ENABLED` (`SwapTerminates`, `Finishes`, `Succeeds`) are beyond the prover.
* The tick conversion: `TickIsFloor` and `PricesIncrease`. They depend on the numbers of the table and
  on how far the logarithm, computed bit by bit, may be off: facts about the real constants,
  of which the model carries a smaller set.

## 6. What could follow

1. An error bound for the fixed-point logarithm of `TickMath`, as a function of its bits: what
   `TickIsFloor` needs beside the table.
2. The exact arithmetic of `SqrtPriceMath` replaced by that of `FullMath`, now that it is proved.
3. The manager over the proved pool: that `PoolManager`'s pool outcomes are those of `RangeSwaps`.

## 7. Not modelled

* `v3.rs`: sign and width conversions around the modelled pool, nothing calls it.
* The reset of positions in `SinglePoolManager::new`, and what `pool_mut` lets a caller do
  besides setting a protocol fee.
* In `Pool`, the tick-price conversion is a table with named assumptions; `TickMath` checks the
  algorithm for smaller formats, not for the numbers of the real table.
* The fixed-point exponential of the stable-pair decay is any factor not above the exact one
  of four blocks.
* `quote_swap`, which runs the same loop without writes.
* In the generator: argument and pool-key parsing, rotation among endpoints and the delays of
  retries inside the client, progress output.
* Pool-key hashing, serde derives, error formatting, benchmarks, the command line and the
  Solidity fixtures.
