----------------------------- MODULE MCReplay -----------------------------
(* Small histories for the replay generator: ticks -6 .. 7, spacing 2, bitmap *)
(* words of two bits (the lowest word holds tick -6 alone), batches of two    *)
(* slots.                                                                     *)
EXTENDS HistoricalReplay

Swap(zeroForOne, amount, limit) ==
  [kind |-> "swap", zeroForOne |-> zeroForOne, amount |-> amount, limit |-> limit]
Modify(lower, upper, delta) ==
  [kind |-> "modify", lower |-> lower, upper |-> upper, delta |-> delta]
Donate == [kind |-> "donate"]

Frame(parent, size, op, fee) ==
  [parent |-> parent, size |-> size, before |-> FALSE, reverted |-> FALSE, target |-> "pool",
   op |-> op, fee |-> fee]
Router(size) == [Frame(0, size, Donate, 0) EXCEPT !.target = "other"]
Before(frame) == [frame EXCEPT !.before = TRUE]
Reverted(frame) == [frame EXCEPT !.reverted = TRUE]
OtherPool(frame) == [frame EXCEPT !.target = "other"]

Tx(block, frames) == [block |-> block, frames |-> <<Router(Len(frames) + 1)>> \o frames]

\* Liquidity 2 in [-6, 6), 3 in [-2, 2).
Start == [price |-> PriceAt(0) + 1, tick |-> 0, growth |-> <<2, 1>>, liquidity |-> 5,
          fee |-> 1, protocolFee |-> 0,
          ticks |-> (-6 :> [gross |-> 2, net |-> 2, outside |-> <<1, 0>>])
                 @@ (-2 :> [gross |-> 3, net |-> 3, outside |-> <<1, 1>>])
                 @@ (2 :> [gross |-> 3, net |-> -3, outside |-> <<0, 0>>])
                 @@ (6 :> [gross |-> 2, net |-> -2, outside |-> <<0, 0>>])]

\* A static-fee pool: two transactions a block, a reverted call, a call to
\* another pool, a swap in an after-hook, a swap that ends at its limit, a
\* position that is removed again.
Static ==
  [pool |-> Start, dynamic |-> FALSE, returnsDelta |-> FALSE,
   txs |-> <<Tx(1, <<Frame(1, 1, Swap(TRUE, 3, -6), 1)>>),
             Tx(2, <<Frame(1, 1, Modify(-4, 6, 1), 0), Frame(1, 2, Swap(TRUE, 9, -4), 1),
                     Reverted(Frame(3, 1, Modify(-4, 6, -1), 0))>>),
             Tx(2, <<OtherPool(Frame(1, 1, Swap(FALSE, 1, 6), 1)), Frame(1, 2, Swap(FALSE, 2, -2), 1),
                     Frame(3, 1, Modify(-2, 2, -1), 0)>>),
             Tx(3, <<Frame(1, 1, Swap(FALSE, 9, 2), 1), Frame(1, 1, Modify(-4, 6, -1), 0)>>)>>]

\* A dynamic-fee pool: the fee changes from swap to swap.
Dynamic ==
  [pool |-> Start, dynamic |-> TRUE, returnsDelta |-> FALSE,
   txs |-> <<Tx(1, <<Frame(1, 1, Swap(TRUE, 3, -4), 2), Frame(1, 1, Swap(FALSE, 6, 6), 3)>>),
             Tx(2, <<Frame(1, 2, Swap(TRUE, 4, -6), 3), Frame(2, 1, Swap(FALSE, 1, 6), 2)>>)>>]

\* A swap in the before-hook of a swap: it executes first.
Nested ==
  [pool |-> Start, dynamic |-> TRUE, returnsDelta |-> FALSE,
   txs |-> <<Tx(1, <<Frame(1, 2, Swap(TRUE, 1, -6), 2), Before(Frame(2, 1, Swap(TRUE, 1, -6), 3))>>),
             Tx(2, <<Frame(1, 1, Swap(FALSE, 3, 6), 2)>>)>>]

Donated ==
  [Static EXCEPT !.txs = <<Tx(1, <<Frame(1, 1, Modify(-2, 2, 1), 0)>>),
                           Tx(2, <<Frame(1, 1, Donate, 0)>>)>>]

\* A swap that stops on an initialized tick, downwards: the tick is then one
\* below the floor tick of the price.
Downward ==
  [Static EXCEPT !.txs = <<Tx(1, <<Frame(1, 1, Swap(TRUE, 9, -2), 1)>>),
                           Tx(2, <<Frame(1, 1, Swap(FALSE, 3, 6), 1)>>)>>]

\* The same on the lowest tick, which Uniswap's own manager does not allow: the
\* tick stored is no TickIndex.
Lowest ==
  [Static EXCEPT !.txs = <<Tx(1, <<Frame(1, 1, Swap(TRUE, 9, -6), 1)>>),
                           Tx(2, <<Frame(1, 1, Swap(FALSE, 3, 6), 1)>>)>>]

\* Nobody has initialized the pool.
Unborn ==
  [Static EXCEPT !.txs = <<>>,
     !.pool = [price |-> 0, tick |-> 0, growth |-> <<0, 0>>, liquidity |-> 0, fee |-> 0,
               protocolFee |-> 0, ticks |-> <<>>]]

PlainHistories ==
  {Static, Dynamic, Donated, Downward, Lowest, Unborn, [Static EXCEPT !.returnsDelta = TRUE],
   [Dynamic EXCEPT !.pool.protocolFee = 2]}
NestedHistories == {Nested}

Opts(start, chunkSize, log, trace, checkpoint, max) ==
  [start |-> start, end |-> 3, chunkSize |-> chunkSize, logConcurrency |-> log,
   traceConcurrency |-> trace, checkpointConcurrency |-> checkpoint, maxTransactions |-> max]

LowestTick == -6

SomeOptions == {Opts(0, 1, 2, 2, 1, 9), Opts(0, 2, 0, 1, 2, 2), Opts(1, 0, 3, 0, 0, 9),
                Opts(0, 9, 1, 3, 3, 3), [Opts(0, 9, 1, 1, 2, 9) EXCEPT !.end = 2],
                [Opts(2, 1, 2, 1, 1, 9) EXCEPT !.end = 2], Opts(0, 2, 2, 2, 2, 0)}
=============================================================================
