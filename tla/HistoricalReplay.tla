------------------------- MODULE HistoricalReplay -------------------------
(***************************************************************************)
(* The generator of replay fixtures (xtask/src/historical_replay.rs):      *)
(* read the pool's storage at a block, fetch the logs of the blocks after  *)
(* it in concurrent chunks, fetch a trace per transaction concurrently,    *)
(* replay the decoded operations on a Pool, fetch a sparse checkpoint for  *)
(* the last transaction of each block while the replay goes on, and write  *)
(* it all to a file.  Answers come in any order; a request may fail, and   *)
(* an endpoint may answer with less than there is.                         *)
(*                                                                         *)
(* The chain is a constant history: transactions in chain order, each with *)
(* its block and the frames of its call trace in pre-order.  A frame has   *)
(* `parent` (0: the root's), `size` (frames of its subtree), `before` (its *)
(* parent is a pool operation whose before-hook it belongs to), `reverted`,*)
(* `target` ("pool": this pool's manager and key; else "other"), `op` and  *)
(* `fee` (the LP fee a swap was charged).                                  *)
(***************************************************************************)
EXTENDS PoolStorage, FiniteSetsExt, TLC

CONSTANTS
  Histories,   \* what may have happened on chain
  Options,     \* HistoricalReplayArgs
  MaxFaults    \* bound: of how many kinds (logs, traces) answers may hold less
               \* than there is

\* Transactions and frames are in sequences, blocks follow each other, a call is
\* one of the pool manager's operations; the unsigned arguments that count.
ASSUME ReplayAssumption ==
  /\ MaxFaults \in Nat
  /\ \A h \in Histories :
       /\ h.txs \in Seq(ToSet(h.txs))
       /\ \A i, j \in DOMAIN h.txs : i <= j => h.txs[i].block <= h.txs[j].block
       /\ \A tx \in ToSet(h.txs) :
            /\ tx.block \in Nat /\ tx.frames \in Seq(ToSet(tx.frames))
            /\ \A frame \in ToSet(tx.frames) :
                 /\ frame.op.kind \in {"swap", "modify", "donate"}
                 /\ frame.op.kind = "swap" => frame.op.amount \in Nat \ {0} /\ frame.op.limit \in Int
                 /\ frame.op.kind = "modify" => frame.op.lower \in Int /\ frame.op.upper \in Int
  /\ \A o \in Options :
       /\ o.start \in Nat /\ o.end \in Nat /\ o.chunkSize \in Nat
       /\ o.maxTransactions \in Nat /\ o.checkpointConcurrency \in Nat

VARIABLES
  input,    \* the history and the options of this run
  phase,    \* where `run` stands
  fetch,    \* the buffer_unordered stream in progress
  logs,     \* logs received so far, in the order they came
  scan,     \* ScannedTransactions
  traces,   \* the frames received, by transaction
  replay,   \* replay_and_checkpoint's locals
  queue,    \* CheckpointQueue
  file,     \* the fixture, once written
  faults    \* history variable: which answers were incomplete ("logs", "trace")
            \* and whether one never came ("request")

vars == <<input, phase, fetch, logs, scan, traces, replay, queue, file, faults>>

History == input.history
Args    == input.options
Kinds   == <<"swap", "modify", "donate">>   \* POOL_EVENT_TOPICS

-----------------------------------------------------------------------------
(* The pool an operation is applied to, on chain as in the replay.  A swap     *)
(* moves to some price of the tick `amount` ticks on, or up to its limit; an    *)
(* error is the empty set.                                                     *)

Initialized(pool) == DOMAIN pool.ticks

LimitReached(pool, op) ==
  IF op.zeroForOne THEN pool.tick - op.amount < op.limit ELSE pool.tick + op.amount >= op.limit

\* The ticks a step of a swap walks to: initialized, or the last of a word.
StepEnds(pool, t) ==
  t \in Initialized(pool) \/ t = MinTick \/ (t \in Aligned /\ Compressed(t) % WordBits = 0)

\* Where a step downwards ends on its tick, the tick is the one below.
SwapEnd(pool, op) ==
  CASE ~LimitReached(pool, op) -> IF op.zeroForOne THEN pool.tick - op.amount ELSE pool.tick + op.amount
    [] LimitReached(pool, op)  -> IF op.zeroForOne /\ StepEnds(pool, op.limit)
                                  THEN op.limit - 1 ELSE op.limit

SwapPrice(pool, op) ==
  IF LimitReached(pool, op) THEN PriceAt(op.limit) ELSE PriceAt(SwapEnd(pool, op)) + 1

CrossedTicks(pool, op) ==
  {t \in Initialized(pool) :
     IF op.zeroForOne THEN SwapEnd(pool, op) < t /\ t <= pool.tick
     ELSE pool.tick < t /\ t <= SwapEnd(pool, op)}

NetAcross(pool, ticks) == FoldSet(LAMBDA t, sum : pool.ticks[t].net + sum, 0, ticks)

Flipped(info, growth) ==
  [info EXCEPT !.outside = <<growth[1] - @[1], growth[2] - @[2]>>]

Swapped(pool, op, fee) ==
  LET crossed == CrossedTicks(pool, op)
      growth  == [pool.growth EXCEPT ![IF op.zeroForOne THEN 1 ELSE 2] = @ + fee]
      net     == NetAcross(pool, crossed)
  IN  IF (IF op.zeroForOne THEN PriceAt(op.limit) >= pool.price
          ELSE PriceAt(op.limit) <= pool.price) THEN {}
      ELSE {[pool EXCEPT !.tick = SwapEnd(pool, op), !.price = SwapPrice(pool, op),
                         !.growth = growth,
                         !.liquidity = IF op.zeroForOne THEN @ - net ELSE @ + net,
                         !.ticks = [t \in DOMAIN @ |->
                           IF t \in crossed THEN Flipped(@[t], growth) ELSE @[t]]]}

Modified(pool, op) ==
  LET info(t) == IF t \in Initialized(pool) THEN pool.ticks[t]
                 ELSE [NoTick EXCEPT !.outside = IF t <= pool.tick THEN pool.growth ELSE @]
      bounds == {op.lower, op.upper}
      updated == [t \in Initialized(pool) \cup bounds |->
                    IF t \notin bounds THEN pool.ticks[t]
                    ELSE [info(t) EXCEPT !.gross = @ + op.delta,
                                         !.net = @ + (IF t = op.lower THEN op.delta ELSE -op.delta)]]
  IN  IF \E t \in bounds : \/ updated[t].gross < 0
                          \/ (op.delta > 0 /\ updated[t].gross > MaxLiquidityPerTick)
      THEN {}
      ELSE {[pool EXCEPT !.liquidity = IF op.lower <= pool.tick /\ pool.tick < op.upper
                                       THEN @ + op.delta ELSE @,
                         !.ticks = [t \in {u \in DOMAIN updated : updated[u].gross # 0} |->
                                      updated[t]]]}

Applied(pool, op, fee) ==
  CASE op.kind = "swap"   -> Swapped(pool, op, fee)
    [] op.kind = "modify" -> Modified(pool, op)
    [] op.kind = "donate" -> {pool}

-----------------------------------------------------------------------------
(* What happened on chain                                                      *)

InSubtree(frames, i, j) == i <= j /\ j < i + frames[i].size

Persisted(frames) ==
  {i \in DOMAIN frames : /\ frames[i].target = "pool"
                         /\ \A j \in DOMAIN frames : InSubtree(frames, j, i) => ~frames[j].reverted}

\* The transactions that use the pool: those that do not leave no log of it.
\* The fee of a pool is fixed, unless it is dynamic.
ASSUME HistoryAssumption ==
  \A h \in Histories : \A tx \in ToSet(h.txs) :
    /\ Persisted(tx.frames) # {}
    /\ ~h.dynamic => \A i \in Persisted(tx.frames) :
                       tx.frames[i].op.kind = "swap" => tx.frames[i].fee = h.pool.fee

\* j runs in the before-hook of i's operation.
InBeforeHook(frames, i, j) ==
  \E c \in DOMAIN frames : frames[c].parent = i /\ frames[c].before /\ InSubtree(frames, c, j)

ExecutedBefore(frames, i, j) ==
  IF i < j THEN ~InBeforeHook(frames, i, j) ELSE InBeforeHook(frames, j, i)

Executed(tx) ==
  InOrder(Persisted(tx.frames), LAMBDA i, j : ExecutedBefore(tx.frames, i, j))

\* An operation of a transaction, which succeeded.
ChainStep(tx, pool, i) == CHOOSE p \in Applied(pool, tx.frames[i].op, tx.frames[i].fee) : TRUE

AfterTx(pool, tx) == FoldLeft(LAMBDA p, i : ChainStep(tx, p, i), pool, Executed(tx))

\* The pool after the first n transactions, in a table.
ChainPools ==
  [h \in Histories |->
     LET after[n \in 0 .. Len(h.txs)] == IF n = 0 THEN h.pool ELSE AfterTx(after[n - 1], h.txs[n])
     IN  after]

LastTxOf(h, block) == Max({0} \cup {i \in DOMAIN h.txs : h.txs[i].block <= block})

\* What happened was stored, and changed no stored fee.
ASSUME ChainAssumption ==
  \A h \in Histories : \A n \in 0 .. Len(h.txs) :
    Storable(ChainPools[h][n]) /\ ChainPools[h][n].fee = h.pool.fee

PoolAtBlock(block) == ChainPools[History][LastTxOf(History, block)]

\* The logs of the pool, numbered within their block.
LogsOfHistory(h) ==
  LET of(i) == LET order == Executed(h.txs[i])
               IN  [k \in DOMAIN order |->
                      [tx |-> i, block |-> h.txs[i].block, kind |-> h.txs[i].frames[order[k]].op.kind,
                       fee |-> h.txs[i].frames[order[k]].fee]]
      all == FlattenSeq([i \in DOMAIN h.txs |-> of(i)])
  IN  [k \in DOMAIN all |->
         [tx |-> all[k].tx, block |-> all[k].block, kind |-> all[k].kind, fee |-> all[k].fee,
          index |-> Cardinality({m \in 1..k : all[m].block = all[k].block})]]

ChainLogs == [h \in Histories |-> LogsOfHistory(h)]

-----------------------------------------------------------------------------
(* Concurrent requests: a stream of `total` of them, started in order.         *)

\* Mutant: a requested concurrency of zero is taken as it is.
BoundedConcurrency_Zero(requested, total) == Min({requested, Max({total, 1})})

BoundedConcurrency(requested, total) == Min({Max({requested, 1}), Max({total, 1})})

Stream(total, requested) ==
  [total |-> total, limit |-> BoundedConcurrency(requested, total), next |-> 1, running |-> {}]

StreamDone == fetch.next > fetch.total /\ fetch.running = {}

\* Answers of this kind may be incomplete.
MayLose(kind) == Cardinality((faults \ {"request"}) \cup {kind}) <= MaxFaults

\* buffer_unordered pulls the next request when there is room.
StartRequest ==
  /\ phase \in {"logs", "traces"}
  /\ fetch.next <= fetch.total /\ Cardinality(fetch.running) < fetch.limit
  /\ fetch' = [fetch EXCEPT !.next = @ + 1, !.running = @ \cup {fetch.next}]
  /\ UNCHANGED <<input, phase, logs, scan, traces, replay, queue, file, faults>>

Received(i) == fetch' = [fetch EXCEPT !.running = @ \ {i}]

\* Every `?`: what is in flight is dropped, nothing is written.
Drops ==
  /\ phase' = "failed"
  /\ fetch' = [fetch EXCEPT !.running = {}]
  /\ queue' = [queue EXCEPT !.tasks = {}]
  /\ UNCHANGED <<input, logs, scan, traces, replay, file>>

Abort == Drops /\ UNCHANGED faults

\* A request fails although the client has retried and rotated endpoints.
RequestFails ==
  /\ phase = "start" \/ fetch.running # {}
  /\ Drops /\ faults' = faults \cup {"request"}

-----------------------------------------------------------------------------
(* new, load_initial_pool and the checks around them                           *)

Supported ==
  /\ Args.start < Args.end
  /\ ~History.returnsDelta
  /\ History.dynamic => History.pool.protocolFee = 0

\* Pool::try_from refuses a snapshot that does not pass PoolSnapshot::validate or
\* TickSlab::from_snapshot.
Accepted(snapshot) ==
  LET core == snapshot.core
      ticks == snapshot.ticks
      netUpTo(t) == NetAcross(snapshot, {u \in DOMAIN ticks : u <= t})
  IN  /\ FloorTick(core.price) = core.tick
      /\ \A t \in DOMAIN ticks :
           /\ t \in Aligned
           /\ ticks[t].gross # 0 /\ ticks[t].gross <= MaxLiquidityPerTick
           /\ ticks[t].net \in -ticks[t].gross .. ticks[t].gross
           /\ t <= core.tick => netUpTo(t) \in Signed(InfoBits)
      /\ netUpTo(core.tick) >= 0 /\ netUpTo(core.tick) = core.liquidity

\* The pool it makes of a snapshot it accepts, and a consumer of the file too.
PoolOf(snapshot) ==
  [price |-> snapshot.core.price, tick |-> snapshot.core.tick,
   growth |-> snapshot.core.growth, liquidity |-> snapshot.core.liquidity,
   fee |-> snapshot.core.fee, protocolFee |-> snapshot.core.protocolFee, ticks |-> snapshot.ticks]

\* Mutant: the last chunk runs on beyond the end block.
BlockChunks_Beyond(from, to, size) ==
  LET s == Max({size, 1})
  IN  [i \in 1 .. (IF from > to THEN 0 ELSE (to - from) \div s + 1) |->
         [from |-> from + (i - 1) * s, to |-> from + i * s - 1]]

\* block_chunks.
BlockChunks(from, to, size) ==
  LET s == Max({size, 1})
  IN  [i \in 1 .. (IF from > to THEN 0 ELSE (to - from) \div s + 1) |->
         [from |-> from + (i - 1) * s, to |-> Min({to, from + i * s - 1})]]

LogChunks == BlockChunks(Args.start + 1, Args.end, Args.chunkSize)

LoadInitialPool ==
  /\ phase = "start"
  /\ IF ~Supported \/ ~Parses(PoolCoreSnapshot(PoolAtBlock(Args.start))) THEN Abort
     ELSE /\ phase' = "logs"
          /\ replay' = [replay EXCEPT !.initial = {PoolSnapshot(PoolAtBlock(Args.start))}]
          /\ fetch' = Stream(Len(LogChunks), Args.logConcurrency)
          /\ UNCHANGED <<input, logs, scan, traces, queue, file, faults>>

-----------------------------------------------------------------------------
(* scan_transactions                                                           *)

\* pool_logs_chunk: one request per event topic, one after the other.
ChunkLogs(chunk, lost) ==
  LET all == ChainLogs[History]
      of(kind) == Kept(all, {k \in DOMAIN all : /\ all[k].kind = kind
                                                /\ chunk.from <= all[k].block
                                                /\ all[k].block <= chunk.to})
  IN  FlattenSeq([k \in DOMAIN Kinds |-> IF Kinds[k] \in lost THEN <<>> ELSE of(Kinds[k])])

\* An endpoint without the history of a chunk may answer with no logs.
LogsArrive(i, lost) ==
  /\ phase = "logs" /\ i \in fetch.running
  /\ lost # {} => MayLose("logs")
  /\ logs' = logs \o ChunkLogs(LogChunks[i], lost)
  /\ faults' = IF lost = {} THEN faults ELSE faults \cup {"logs"}
  /\ Received(i)
  /\ UNCHANGED <<input, phase, scan, traces, replay, queue, file>>

\* sort_by_key, which is stable.
Sooner(i, j) ==
  \/ logs[i].block < logs[j].block
  \/ /\ logs[i].block = logs[j].block
     /\ logs[i].index < logs[j].index \/ (logs[i].index = logs[j].index /\ i < j)

SortedLogs ==
  LET order == InOrder(DOMAIN logs, Sooner) IN [k \in DOMAIN order |-> logs[order[k]]]

LogsOf(tx) == Kept(SortedLogs, {k \in DOMAIN SortedLogs : SortedLogs[k].tx = tx})

\* The transactions, as their first log comes.
FirstLog(tx) == Min({k \in DOMAIN SortedLogs : SortedLogs[k].tx = tx})

TxOrder ==
  InOrder({tx \in DOMAIN History.txs : \E l \in ToSet(logs) : l.tx = tx},
          LAMBDA t, u : FirstLog(t) < FirstLog(u))

\* Mutant: the first transaction of a block has the checkpoint.
CheckpointTxs_First(order) ==
  {order[i] : i \in {j \in DOMAIN order : \A k \in 1 .. j - 1 :
                       LogsOf(order[k])[1].block # LogsOf(order[j])[1].block}}

\* checkpoint_tx_hashes: the last transaction of each block.
CheckpointTxs(order) ==
  {order[i] : i \in {j \in DOMAIN order : \A k \in j + 1 .. Len(order) :
                       LogsOf(order[k])[1].block # LogsOf(order[j])[1].block}}

ScanTransactions ==
  /\ phase = "logs" /\ StreamDone
  /\ IF logs = <<>> THEN Abort
     ELSE LET order == SubSeq(TxOrder, 1, Min({Len(TxOrder), Args.maxTransactions}))
          IN  /\ scan' = [order |-> order, checkpoints |-> CheckpointTxs(TxOrder)]
              /\ fetch' = Stream(Len(order), Args.traceConcurrency)
              /\ phase' = "traces"
              /\ UNCHANGED <<input, logs, traces, replay, queue, file, faults>>

-----------------------------------------------------------------------------
(* prefetch_traces                                                             *)

\* A tracer may leave out a subtree (`without`, a frame; 0: none).
TraceArrives(i, without) ==
  /\ phase = "traces" /\ i \in fetch.running
  /\ without # 0 => MayLose("trace")
  /\ LET tx == scan.order[i]
         frames == History.txs[tx].frames
     IN  traces' = [traces EXCEPT ![tx] =
                      {k \in DOMAIN frames : without = 0 \/ ~InSubtree(frames, without, k)}]
  /\ faults' = IF without = 0 THEN faults ELSE faults \cup {"trace"}
  /\ Received(i)
  /\ UNCHANGED <<input, phase, logs, scan, replay, queue, file>>

\* Those of the checkpoints whose transactions max_transactions has left.
SelectedCheckpoints == {tx \in ToSet(scan.order) : tx \in scan.checkpoints}

\* CheckpointQueue::new.
NewQueue ==
  [limit |-> BoundedConcurrency(Args.checkpointConcurrency, Cardinality(SelectedCheckpoints)),
   tasks |-> {}, results |-> <<>>]

\* The snapshot read at the beginning is looked at only now.
TracesDone ==
  /\ phase = "traces" /\ StreamDone
  /\ IF \E s \in replay.initial : ~Accepted(s) THEN Abort
     ELSE /\ phase' = "replay"
          /\ queue' = NewQueue
          /\ replay' = [replay EXCEPT !.pools = {PoolOf(s) : s \in replay.initial}]
          /\ UNCHANGED <<input, fetch, logs, scan, traces, file, faults>>

-----------------------------------------------------------------------------
(* replay_and_checkpoint: one transaction at a time                            *)

\* collect_pool_manager_operations: pre-order, without reverted subtrees.
DecodedFrames(tx) == InOrder(Persisted(History.txs[tx].frames) \cap traces[tx], <)

SwapFees(tx) ==
  LET of == LogsOf(tx)
      swaps == Kept(of, {k \in DOMAIN of : of[k].kind = "swap"})
  IN  [k \in DOMAIN swaps |-> swaps[k].fee]

\* Mutant: the decoded operations are not counted against the logs.
DecodedOperations_Uncounted(tx) ==
  LET order == DecodedFrames(tx)
      op(k) == History.txs[tx].frames[order[k]].op
  IN  {[k \in DOMAIN order |-> [op |-> op(k), fee |-> {}]]}

\* decode_operations and attach_swap_lp_fees: in a dynamic-fee pool the n-th
\* swap takes the fee of the n-th Swap event.  No element: an error.
DecodedOperations(tx) ==
  LET order == DecodedFrames(tx)
      op(k) == History.txs[tx].frames[order[k]].op
      swaps(k) == Cardinality({m \in 1..k : op(m).kind = "swap"})
  IN  {ops \in {[k \in DOMAIN order |->
                   [op |-> op(k),
                    fee |-> {SwapFees(tx)[n] : n \in {m \in DOMAIN SwapFees(tx) :
                               History.dynamic /\ op(k).kind = "swap" /\ m = swaps(k)}}]]} :
         /\ order # <<>>
         /\ Len(order) = Len(LogsOf(tx))
         /\ History.dynamic => Len(SwapFees(tx)) = swaps(Len(order))}

\* touched_ticks: what the operation may change, from the pool before it.
TouchedTicks(pool, op) ==
  IF op.kind = "swap"
  THEN {t \in Initialized(pool) : IF op.zeroForOne THEN op.limit <= t /\ t <= pool.tick
                                  ELSE pool.tick <= t /\ t <= op.limit}
  ELSE IF op.kind = "modify" THEN {op.lower, op.upper} ELSE {}

\* replay_on: the event's fee overrides the pool's; donations are refused.
ReplayOn(pool, o) ==
  IF o.op.kind = "donate" THEN {}
  ELSE Applied(pool, o.op, IF o.fee = {} THEN pool.fee ELSE CHOOSE f \in o.fee : TRUE)

\* The pool after an operation, and the ticks touched so far.
ReplayStep(state, o) ==
  {[pool |-> p, touched |-> state.touched \cup TouchedTicks(state.pool, o.op)] :
     p \in ReplayOn(state.pool, o)}

\* The operations of a transaction, until one fails.
ReplayOps(pool, touched, ops) ==
  FoldLeft(LAMBDA S, o : UNION {ReplayStep(s, o) : s \in S}, {[pool |-> pool, touched |-> touched]}, ops)

\* Mutant: the ticks of the block's earlier transactions are forgotten.
TouchedBefore_Cleared(block) == {}

\* The ticks touched so far in this block.
TouchedBefore(block) == IF replay.block = block THEN replay.touched ELSE {}

ReplayTransaction ==
  /\ phase = "replay" /\ replay.waiting = {} /\ replay.next <= Len(scan.order)
  /\ LET tx     == scan.order[replay.next]
         block  == LogsOf(tx)[1].block
         before == CHOOSE p \in replay.pools : TRUE
         ended(ops) == ReplayOps(before, TouchedBefore(block), ops)
     IN  IF \A ops \in DecodedOperations(tx) : ended(ops) = {} THEN Abort
         ELSE \E ops \in DecodedOperations(tx) : \E after \in ended(ops) :
                /\ replay' = [replay EXCEPT
                     !.next = @ + 1, !.pools = {after.pool}, !.block = block,
                     !.touched = after.touched,
                     !.waiting = IF tx \in scan.checkpoints
                                 THEN {[index |-> replay.next, block |-> block,
                                        touched |-> after.touched]}
                                 ELSE {},
                     !.txs = Append(@, [tx |-> tx, ops |-> ops, checkpoint |-> {}])]
                /\ UNCHANGED <<input, phase, fetch, logs, scan, traces, queue, file, faults>>

-----------------------------------------------------------------------------
(* CheckpointQueue: fetches that go on while the replay does                   *)

\* Mutant: one fetch more than allowed.
HasRoom_Late == Cardinality(queue.tasks) <= queue.limit

HasRoom == Cardinality(queue.tasks) < queue.limit

\* push, once there is room: the fetch is spawned.
PushCheckpoint ==
  /\ phase = "replay" /\ replay.waiting # {} /\ HasRoom
  /\ queue' = [queue EXCEPT !.tasks = @ \cup {[task |-> w, result |-> {}, failed |-> FALSE] :
                                                w \in replay.waiting}]
  /\ replay' = [replay EXCEPT !.waiting = {}]
  /\ UNCHANGED <<input, phase, fetch, logs, scan, traces, file, faults>>

Running(t) == t \in queue.tasks /\ t.result = {} /\ ~t.failed

Becomes(t, u) ==
  /\ queue' = [queue EXCEPT !.tasks = (@ \ {t}) \cup {u}]
  /\ UNCHANGED <<input, phase, fetch, logs, scan, traces, replay, file>>

\* pool_checkpoint answers with the storage at the end of the task's block,
\* unless that cannot be parsed.
CheckpointArrives(t) ==
  LET answer == PoolCheckpoint(PoolAtBlock(t.task.block), t.task.touched)
  IN  /\ Running(t)
      /\ Becomes(t, IF Parses(answer.core) THEN [t EXCEPT !.result = {answer}]
                    ELSE [t EXCEPT !.failed = TRUE])
      /\ UNCHANGED faults

CheckpointFails(t) ==
  /\ Running(t)
  /\ Becomes(t, [t EXCEPT !.failed = TRUE])
  /\ faults' = faults \cup {"request"}

ReplayDone == phase = "replay" /\ replay.waiting = {} /\ replay.next > Len(scan.order)

\* Mutant: the queue is not drained at the end.
Collecting_PushOnly == phase = "replay" /\ replay.waiting # {} /\ ~HasRoom

\* push collects while there is no room, finish while there are tasks.
Collecting == (phase = "replay" /\ replay.waiting # {} /\ ~HasRoom) \/ ReplayDone

\* collect_next: any fetch that has ended.
CollectNext(t) ==
  /\ Collecting /\ t \in queue.tasks /\ ~Running(t)
  /\ IF t.failed THEN Abort
     ELSE /\ queue' = [queue EXCEPT !.tasks = @ \ {t},
                                    !.results = [k \in DOMAIN @ \cup {t.task.index} |->
                                      IF k = t.task.index THEN CHOOSE r \in t.result : TRUE ELSE @[k]]]
          /\ UNCHANGED <<input, phase, fetch, logs, scan, traces, replay, file, faults>>

\* The rest of finish, and write_fixture.
WriteFixture ==
  /\ ReplayDone /\ queue.tasks = {}
  /\ LET of(i) == {queue.results[k] : k \in DOMAIN queue.results \cap {i}}
         txs   == [i \in DOMAIN replay.txs |-> [replay.txs[i] EXCEPT !.checkpoint = of(i)]]
     IN  file' = {[initial |-> s, txs |-> txs] : s \in replay.initial}
  /\ phase' = "written"
  /\ UNCHANGED <<input, fetch, logs, scan, traces, replay, queue, faults>>

-----------------------------------------------------------------------------
Init ==
  /\ input \in [history : Histories, options : Options]
  /\ phase = "start"
  /\ fetch = [total |-> 0, limit |-> 1, next |-> 1, running |-> {}]
  /\ logs = <<>>
  /\ scan = [order |-> <<>>, checkpoints |-> {}]
  /\ traces = [tx \in DOMAIN input.history.txs |-> {}]
  /\ replay = [initial |-> {}, pools |-> {}, next |-> 1, block |-> 0, touched |-> {},
               waiting |-> {}, txs |-> <<>>]
  /\ queue = [limit |-> 1, tasks |-> {}, results |-> <<>>]
  /\ file = {}
  /\ faults = {}

Ended == phase \in {"written", "failed"}

\* What the endpoints answer with, and what the generator does with it.
Answers ==
  \/ RequestFails
  \/ \E t \in queue.tasks : CheckpointFails(t) \/ CheckpointArrives(t)
  \/ \E i \in fetch.running, lost \in {{}} \cup {{k} : k \in ToSet(Kinds)} : LogsArrive(i, lost)
  \/ /\ phase = "traces"
     /\ \E i \in fetch.running : \E without \in {0} \cup DOMAIN History.txs[scan.order[i]].frames :
          TraceArrives(i, without)

Steps ==
  \/ LoadInitialPool \/ StartRequest \/ ScanTransactions \/ TracesDone
  \/ ReplayTransaction \/ PushCheckpoint \/ WriteFixture
  \/ \E t \in queue.tasks : CollectNext(t)

\* ENABLED Steps.
CanStep ==
  \/ phase = "start"
  \/ phase \in {"logs", "traces"} /\ fetch.next <= fetch.total /\ Cardinality(fetch.running) < fetch.limit
  \/ phase \in {"logs", "traces"} /\ StreamDone
  \/ phase = "replay" /\ replay.waiting = {} /\ replay.next <= Len(scan.order)
  \/ phase = "replay" /\ replay.waiting # {} /\ HasRoom
  \/ ReplayDone /\ queue.tasks = {}
  \/ Collecting /\ \E t \in queue.tasks : ~Running(t)

Next == Answers \/ Steps

\* The runtime keeps polling the pipeline (weak fairness of Steps, with its
\* enabling condition written out for TLC), and each request is answered in the
\* end or given up on: retries are bounded.
Fairness ==
  /\ []<>~CanStep \/ []<><<Steps>>_vars
  /\ WF_vars(Answers)

Spec == Init /\ [][Next]_vars /\ Fairness

-----------------------------------------------------------------------------
(* Properties *)

LogsComplete == "logs" \notin faults

\* The initial snapshot, read word by word and batch by batch, is the pool as it
\* was at the end of the start block: rpc.rs pool_snapshot.
SnapshotIsChainState ==
  \A s \in replay.initial : PoolOf(s) = PoolAtBlock(Args.start)

\* A checkpoint is at one place only: about to be pushed, being fetched, or
\* fetched; together they are those of the transactions replayed so far, and no
\* more than `limit` fetches are open: CheckpointQueue::push, collect_next.
QueueIsExact ==
  LET waiting == {w.index : w \in replay.waiting}
      open    == {t.task.index : t \in queue.tasks}
      fetched == DOMAIN queue.results
  IN  phase \in {"replay", "written"} =>
        /\ waiting \cup open \cup fetched =
             {i \in 1 .. replay.next - 1 : scan.order[i] \in scan.checkpoints}
        /\ Cardinality(waiting) + Cardinality(open) + Cardinality(fetched) =
             Cardinality(waiting \cup open \cup fetched)
        /\ Cardinality(open) = Cardinality(queue.tasks)
        /\ Cardinality(open) <= BoundedConcurrency(Args.checkpointConcurrency,
                                                   Cardinality(scan.checkpoints))

\* Whoever replays the file finds every checkpoint as recorded, although it was
\* read from the chain while the replay was somewhere else, and its
\* transactions were fetched in any order: the purpose of the fixture.
CheckpointsHold ==
  \A f \in file : LogsComplete =>
    \A k \in DOMAIN f.txs : \A c \in f.txs[k].checkpoint :
      \E end \in ReplayOps(PoolOf(f.initial), {},
                           FlattenSeq([i \in 1..k |-> f.txs[i].ops])) :
        /\ PoolOf([core |-> c.core, ticks |-> end.pool.ticks]) = end.pool
        /\ \A t \in DOMAIN c.ticks :
             c.ticks[t] = IF t \in Initialized(end.pool) THEN end.pool.ticks[t] ELSE NoTick

\* No tick that changed on chain during a block is left out of the block's
\* checkpoint: the sparse checkpoint compares what it should (touched_ticks).
CheckpointCoversBlock ==
  \A f \in file : LogsComplete =>
    \A k \in DOMAIN f.txs :
      LET block == History.txs[f.txs[k].tx].block
          changed == {t \in TickIndices :
                        Stored(PoolAtBlock(block), <<"tick", t, 1>>)
                          # Stored(PoolAtBlock(block - 1), <<"tick", t, 1>>)
                        \/ Stored(PoolAtBlock(block), <<"tick", t, 2>>)
                          # Stored(PoolAtBlock(block - 1), <<"tick", t, 2>>)
                        \/ Stored(PoolAtBlock(block), <<"tick", t, 3>>)
                          # Stored(PoolAtBlock(block - 1), <<"tick", t, 3>>)}
      IN  \A c \in f.txs[k].checkpoint : changed \subseteq DOMAIN c.ticks

\* The file holds the first transactions of the range in chain order, none
\* twice and none skipped, and exactly the last one of each block has a
\* checkpoint, also when max_transactions cuts a block in two.
FixtureIsChainPrefix ==
  \A f \in file : LogsComplete =>
    LET first == LastTxOf(History, Args.start)
        last  == LastTxOf(History, Args.end)
    IN  /\ Len(f.txs) = Min({last - first, Args.maxTransactions})
        /\ \A k \in DOMAIN f.txs :
             /\ f.txs[k].tx = first + k
             /\ f.txs[k].checkpoint # {} <=>
                  f.txs[k].tx = LastTxOf(History, History.txs[f.txs[k].tx].block)

\* A transaction of the file has all the operations the chain executed, with an
\* answer missing logs or a trace missing frames: decode_operations counts.
TransactionsAreComplete ==
  \A f \in file : \A k \in DOMAIN f.txs :
    LET tx == History.txs[f.txs[k].tx]
    IN  [i \in DOMAIN f.txs[k].ops |-> f.txs[k].ops[i].op] =
        [i \in DOMAIN Executed(tx) |-> tx.frames[Executed(tx)[i]].op]

\* "Copies each `Swap` event fee onto the matching swap operation, in order":
\* every swap of the file carries the fee its own event reports.
SwapFeesMatch ==
  \A f \in file : History.dynamic =>
    \A k \in DOMAIN f.txs : \A i \in DOMAIN f.txs[k].ops :
      LET tx == History.txs[f.txs[k].tx]
          frame == tx.frames[DecodedFrames(f.txs[k].tx)[i]]
      IN  f.txs[k].ops[i].op.kind = "swap" => f.txs[k].ops[i].fee = {frame.fee}

\* Every run comes to an end: no stream waits for a request it never starts,
\* no push for room it never makes.
Finishes == <>Ended

\* A supported history without donations is written when every request is
\* answered in full, if what slot0 holds is legal and the start block does not
\* end with a downward swap that stopped on a tick: Pool::try_from refuses that
\* one, after all logs and traces have been fetched.
Replayable ==
  /\ Supported
  /\ \A block \in Args.start .. Args.end : Parses(PoolAtBlock(block))
  /\ PoolAtBlock(Args.start).tick = FloorTick(PoolAtBlock(Args.start).price)
  /\ \E l \in ToSet(ChainLogs[History]) : Args.start < l.block /\ l.block <= Args.end
  /\ \A l \in ToSet(ChainLogs[History]) : l.kind # "donate"

Succeeds == (Replayable /\ [](faults = {})) => <>(phase = "written")

=============================================================================
