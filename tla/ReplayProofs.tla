---------------------------- MODULE ReplayProofs ----------------------------
(***************************************************************************)
(* The replay generator, for every chain, every order of the answers and   *)
(* every concurrency: the checkpoint queue (QueueInv), the logs gathered   *)
(* in chunks and put in order (LogsInv), the transactions written (FileInv *)
(* and FixtureIsPrefix), their operations (OpsInv, FixtureIsComplete), the *)
(* snapshot read from storage (SnapshotInv, SnapshotIsExact), and the      *)
(* replay that follows the chain's pools while checkpoints are fetched     *)
(* (FollowInv, CheckpointsAreFound, CheckpointsCoverBlocks).               *)
(* All but the queue's and the snapshot's are about histories without      *)
(* calls in before-hooks: with them the replay order is not the chain's    *)
(* (MCReplay_nested_fees).                                                 *)
(***************************************************************************)
EXTENDS HistoricalReplay, BasicLemmas

Waiting == {w.index : w \in replay.waiting}
Open    == {t.task.index : t \in queue.tasks}
Fetched == DOMAIN queue.results

\* The checkpoints of the transactions replayed so far.
Due == {i \in 1 .. replay.next - 1 : scan.order[i] \in scan.checkpoints}

\* While the replay goes on, and after it.
Queued ==
  /\ replay.next \in Nat \ {0}
  /\ \A v, w \in replay.waiting : v = w
  /\ \A t \in queue.tasks : DOMAIN t = {"task", "result", "failed"}
  /\ \A t, u \in queue.tasks : t.task.index = u.task.index => t = u
  /\ Waiting \cup Open \cup Fetched = Due
  /\ Waiting \cap Open = {} /\ Waiting \cap Fetched = {} /\ Open \cap Fetched = {}
  /\ IsFiniteSet(queue.tasks)
  /\ queue.limit \in Nat /\ Cardinality(queue.tasks) <= queue.limit
  /\ queue.limit <= BoundedConcurrency(Args.checkpointConcurrency, Cardinality(scan.checkpoints))

\* The queue is empty until the replay begins.
QueueInv ==
  /\ input \in [history : Histories, options : Options]
  /\ DOMAIN replay = {"initial", "pools", "next", "block", "touched", "waiting", "txs"}
  /\ DOMAIN queue = {"limit", "tasks", "results"}
  /\ IsFiniteSet(ToSet(scan.order)) /\ IsFiniteSet(scan.checkpoints)
  /\ phase \in {"start", "logs", "traces"} =>
       replay.next = 1 /\ replay.waiting = {} /\ queue.tasks = {} /\ DOMAIN queue.results = {}
  /\ phase \in {"replay", "written"} => Queued

-----------------------------------------------------------------------------
\* What the assumption says of a history.
LEMMA HistoryKnown ==
  ASSUME NEW h \in Histories
  PROVE  /\ Len(h.txs) \in Nat /\ DOMAIN h.txs = 1 .. Len(h.txs) /\ IsFiniteSet(DOMAIN h.txs)
         /\ \A i \in DOMAIN h.txs :
              /\ h.txs[i].block \in Nat /\ Len(h.txs[i].frames) \in Nat
              /\ DOMAIN h.txs[i].frames = 1 .. Len(h.txs[i].frames)
              /\ \A k \in DOMAIN h.txs[i].frames :
                   h.txs[i].frames[k].op.kind \in {"swap", "modify", "donate"}
         /\ \A i, j \in DOMAIN h.txs : i <= j => h.txs[i].block <= h.txs[j].block
<1>1. /\ h.txs \in Seq(ToSet(h.txs))
      /\ \A i, j \in DOMAIN h.txs : i <= j => h.txs[i].block <= h.txs[j].block
      /\ \A tx \in ToSet(h.txs) :
           /\ tx.block \in Nat /\ tx.frames \in Seq(ToSet(tx.frames))
           /\ \A frame \in ToSet(tx.frames) : frame.op.kind \in {"swap", "modify", "donate"}
  BY ReplayAssumption
<1>2. Len(h.txs) \in Nat /\ DOMAIN h.txs = 1 .. Len(h.txs)
  BY <1>1
<1>3. IsFiniteSet(DOMAIN h.txs)
  BY <1>2, FS_Interval
<1>4. ASSUME NEW i \in DOMAIN h.txs
      PROVE  /\ h.txs[i].block \in Nat /\ Len(h.txs[i].frames) \in Nat
             /\ DOMAIN h.txs[i].frames = 1 .. Len(h.txs[i].frames)
             /\ \A k \in DOMAIN h.txs[i].frames :
                  h.txs[i].frames[k].op.kind \in {"swap", "modify", "donate"}
  <2> DEFINE tx == h.txs[i]
  <2>1. tx \in ToSet(h.txs)
    BY DEF ToSet
  <2> HIDE DEF tx
  <2>2. /\ tx.block \in Nat /\ tx.frames \in Seq(ToSet(tx.frames))
        /\ \A frame \in ToSet(tx.frames) : frame.op.kind \in {"swap", "modify", "donate"}
    BY <1>1, <2>1
  <2>3. \A k \in DOMAIN tx.frames : tx.frames[k] \in ToSet(tx.frames)
    BY DEF ToSet
  <2> QED BY <2>2, <2>3 DEF tx
<1> QED BY <1>1, <1>2, <1>3, <1>4

\* Min and Max of two numbers, and how many requests may be open.
LEMMA Extremes ==
  ASSUME NEW a \in Int, NEW b \in Int
  PROVE  /\ Min({a, b}) = IF a <= b THEN a ELSE b
         /\ Max({a, b}) = IF a <= b THEN b ELSE a
<1>1. ASSUME NEW m \in Int, m = IF a <= b THEN a ELSE b PROVE Min({a, b}) = m
  <2>1. m \in {a, b} /\ \A y \in {a, b} : m =< y
    BY <1>1
  <2>2. \A x \in {a, b} : (\A y \in {a, b} : x =< y) => x = m
    BY <1>1
  <2> QED BY <2>1, <2>2, Zenon DEF Min
<1>2. ASSUME NEW m \in Int, m = IF a <= b THEN b ELSE a PROVE Max({a, b}) = m
  <2>1. m \in {a, b} /\ \A y \in {a, b} : m >= y
    BY <1>2
  <2>2. \A x \in {a, b} : (\A y \in {a, b} : x >= y) => x = m
    BY <1>2
  <2> QED BY <2>1, <2>2, Zenon DEF Max
<1> QED BY <1>1, <1>2

\* The more requests there are, the more may run at once.
LEMMA Concurrency ==
  ASSUME NEW requested \in Nat, NEW total \in Nat, NEW more \in Nat, total <= more
  PROVE  /\ BoundedConcurrency(requested, total) \in Nat
         /\ BoundedConcurrency(requested, total) <= BoundedConcurrency(requested, more)
<1> DEFINE r == Max({requested, 1})
           a == Max({total, 1})
           b == Max({more, 1})
<1>1. r \in Nat /\ a \in Nat /\ b \in Nat /\ a <= b
  <2>1. /\ r = (IF requested <= 1 THEN 1 ELSE requested)
        /\ a = (IF total <= 1 THEN 1 ELSE total)
        /\ b = (IF more <= 1 THEN 1 ELSE more)
    BY Extremes
  <2> HIDE DEF r, a, b
  <2> QED BY <2>1
<1>2. BoundedConcurrency(requested, total) = Min({r, a}) /\ BoundedConcurrency(requested, more) = Min({r, b})
  BY DEF BoundedConcurrency
<1> HIDE DEF r, a, b
<1> QED BY <1>1, <1>2, Extremes

\* The entries of a finite list.
LEMMA EntriesFinite ==
  ASSUME NEW f, IsFiniteSet(DOMAIN f)
  PROVE  IsFiniteSet(ToSet(f))
<1> DEFINE g == [x \in DOMAIN f |-> f[x]]
<1>1. g \in Surjection(DOMAIN f, ToSet(f))
  BY DEF Surjection, ToSet
<1> QED BY <1>1, FS_Surjection

\* At first the queue is empty.
LEMMA InitQueue == Init => QueueInv
<1> SUFFICES ASSUME Init PROVE QueueInv
  OBVIOUS
<1>1. input \in [history : Histories, options : Options] /\ phase = "start"
  BY DEF Init
<1>2. replay = [initial |-> {}, pools |-> {}, next |-> 1, block |-> 0, touched |-> {},
                waiting |-> {}, txs |-> <<>>]
      /\ queue = [limit |-> 1, tasks |-> {}, results |-> <<>>]
      /\ scan = [order |-> <<>>, checkpoints |-> {}]
  BY DEF Init
<1>3. /\ DOMAIN replay = {"initial", "pools", "next", "block", "touched", "waiting", "txs"}
      /\ DOMAIN queue = {"limit", "tasks", "results"}
      /\ replay.next = 1 /\ replay.waiting = {} /\ queue.tasks = {} /\ queue.results = <<>>
      /\ scan.order = <<>> /\ scan.checkpoints = {}
  BY <1>2
<1>4. DOMAIN <<>> = {}
  OBVIOUS
<1>5. IsFiniteSet({}) /\ IsFiniteSet(ToSet(<<>>))
  BY <1>4, FS_EmptySet, EntriesFinite
<1> QED BY <1>1, <1>3, <1>4, <1>5 DEF QueueInv

-----------------------------------------------------------------------------
\* A step that leaves the queue and the progress of the replay alone.
LEMMA QuietStep ==
  ASSUME QueueInv, input' = input, scan' = scan, queue' = queue,
         DOMAIN replay' = DOMAIN replay, replay'.next = replay.next, replay'.waiting = replay.waiting,
         phase' \in {"start", "logs", "traces"} => phase \in {"start", "logs", "traces"},
         phase' \in {"replay", "written"} => phase \in {"replay", "written"}
  PROVE  QueueInv'
<1>1. Waiting' = Waiting /\ Open' = Open /\ Fetched' = Fetched /\ Due' = Due /\ Args' = Args
  BY DEF Waiting, Open, Fetched, Due, Args
<1>2. Queued => Queued'
  BY <1>1 DEF Queued
<1> QED BY <1>2 DEF QueueInv

\* Once given up, nothing is promised.
LEMMA Dropped ==
  ASSUME QueueInv, Drops
  PROVE  QueueInv'
<1>1. /\ phase' = "failed" /\ queue' = [queue EXCEPT !.tasks = {}]
      /\ UNCHANGED <<input, scan, replay>>
  BY DEF Drops
<1>2. DOMAIN queue' = DOMAIN queue
  BY <1>1
<1> QED BY <1>1, <1>2 DEF QueueInv

\* The transactions the logs name are finitely many.
LEMMA OrderFinite ==
  ASSUME input \in [history : Histories, options : Options]
  PROVE  /\ \E n \in Nat : DOMAIN TxOrder = 1 .. n /\ Len(TxOrder) = n
         /\ IsFiniteSet(CheckpointTxs(TxOrder))
         /\ IsFiniteSet(ToSet(SubSeq(TxOrder, 1, Min({Len(TxOrder), Args.maxTransactions}))))
<1> DEFINE S == {tx \in DOMAIN History.txs : \E l \in ToSet(logs) : l.tx = tx}
           n == Cardinality(S)
           max == Args.maxTransactions
<1>1. IsFiniteSet(S) /\ n \in Nat /\ max \in Nat
  <2>1. IsFiniteSet(DOMAIN History.txs) /\ max \in Nat
    <3>1. History \in Histories /\ Args \in Options
      BY DEF History, Args
    <3> QED BY <3>1, HistoryKnown, ReplayAssumption
  <2>2. S \in SUBSET DOMAIN History.txs
    OBVIOUS
  <2> HIDE DEF S
  <2> QED BY <2>1, <2>2, FS_Subset, FS_CardinalityType
<1>2. DOMAIN TxOrder = 1 .. n /\ TxOrder = [i \in 1 .. n |-> TxOrder[i]]
  <2> DEFINE at(i) == CHOOSE x \in S : Cardinality({y \in S : FirstLog(y) < FirstLog(x)}) = i - 1
             f == [i \in 1 .. n |-> at(i)]
  <2>1. TxOrder = f
    BY DEF TxOrder, InOrder
  <2> HIDE DEF S, n, at
  <2>2. DOMAIN f = 1 .. n /\ f = [i \in 1 .. n |-> f[i]]
    OBVIOUS
  <2> HIDE DEF f
  <2> QED BY <2>1, <2>2
<1> HIDE DEF S, n, max
<1>3. Len(TxOrder) = n
  BY <1>1, <1>2
<1>4. IsFiniteSet(CheckpointTxs(TxOrder))
  <2>1. CheckpointTxs(TxOrder) \in SUBSET ToSet(TxOrder)
    BY DEF CheckpointTxs, ToSet
  <2>2. IsFiniteSet(1 .. n)
    BY <1>1, FS_Interval
  <2>3. IsFiniteSet(ToSet(TxOrder))
    BY <1>2, <2>2, EntriesFinite
  <2> QED BY <2>1, <2>3, FS_Subset
<1>5. IsFiniteSet(ToSet(SubSeq(TxOrder, 1, Min({Len(TxOrder), Args.maxTransactions}))))
  <2> DEFINE m == Min({n, max})
             part == SubSeq(TxOrder, 1, m)
  <2>1. m \in Int
    BY <1>1, Extremes
  <2> HIDE DEF m
  <2>2. DOMAIN part = 1 .. m
    BY <2>1
  <2>3. IsFiniteSet(1 .. m)
    BY <2>1, FS_Interval
  <2>4. IsFiniteSet(ToSet(part))
    <3> HIDE DEF part
    <3> QED BY <2>2, <2>3, EntriesFinite
  <2> QED BY <1>3, <2>4 DEF m, max
<1> QED BY <1>1, <1>2, <1>3, <1>4, <1>5

\* The scan names finitely many checkpoints.
LEMMA ScanQueue == QueueInv /\ ScanTransactions => QueueInv'
<1> SUFFICES ASSUME QueueInv, ScanTransactions PROVE QueueInv'
  OBVIOUS
<1> DEFINE order == SubSeq(TxOrder, 1, Min({Len(TxOrder), Args.maxTransactions}))
           found == CheckpointTxs(TxOrder)
<1>1. CASE logs = <<>>
  BY <1>1, Dropped DEF ScanTransactions, Abort
<1>2. CASE logs # <<>>
  <2>1. /\ scan' = [order |-> order, checkpoints |-> found]
        /\ phase = "logs" /\ phase' = "traces" /\ UNCHANGED <<input, replay, queue>>
    BY <1>2 DEF ScanTransactions
  <2>2. IsFiniteSet(ToSet(order)) /\ IsFiniteSet(found)
    BY OrderFinite DEF QueueInv
  <2> HIDE DEF order, found
  <2>3. scan'.order = order /\ scan'.checkpoints = found
    BY <2>1
  <2> QED BY <2>1, <2>2, <2>3 DEF QueueInv
<1> QED BY <1>1, <1>2

\* The replay begins unless the snapshot is refused.
ReplayBegins ==
  /\ phase = "traces" /\ StreamDone
  /\ phase' = "replay" /\ queue' = NewQueue
  /\ replay' = [replay EXCEPT !.pools = {PoolOf(s) : s \in replay.initial}]
  /\ UNCHANGED <<input, fetch, logs, scan, traces, file, faults>>

LEMMA TracesSplit == ASSUME TracesDone PROVE phase = "traces" /\ (Abort \/ ReplayBegins)
<1>1. CASE \E s \in replay.initial : ~Accepted(s)
  BY <1>1, Zenon DEF TracesDone
<1>2. CASE ~\E s \in replay.initial : ~Accepted(s)
  BY <1>2, Zenon DEF TracesDone, ReplayBegins
<1> QED BY <1>1, <1>2

\* The pool of the start block is loaded if it can be.
Loadable == Supported /\ Parses(PoolCoreSnapshot(PoolAtBlock(Args.start)))

LEMMA LoadSplit ==
  ASSUME LoadInitialPool
  PROVE  /\ phase = "start"
         /\ ~Loadable => Abort
         /\ Loadable => /\ phase' = "logs"
                        /\ replay' = [replay EXCEPT !.initial = {PoolSnapshot(PoolAtBlock(Args.start))}]
                        /\ fetch' = Stream(Len(LogChunks), Args.logConcurrency)
                        /\ UNCHANGED <<input, logs, scan, traces, queue, file, faults>>
<1>1. CASE ~Loadable
  BY <1>1, Zenon DEF LoadInitialPool, Loadable
<1>2. CASE Loadable
  BY <1>2, Zenon DEF LoadInitialPool, Loadable
<1> QED BY <1>1, <1>2

\* The replay begins with an empty queue.
LEMMA StartQueue == QueueInv /\ ReplayBegins => QueueInv'
<1> SUFFICES ASSUME QueueInv, ReplayBegins PROVE QueueInv'
  OBVIOUS
<1> DEFINE pools == {PoolOf(s) : s \in replay.initial}
           limit == BoundedConcurrency(Args.checkpointConcurrency, Cardinality(SelectedCheckpoints))
<1>1. /\ phase = "traces" /\ phase' = "replay"
      /\ queue' = [limit |-> limit, tasks |-> {}, results |-> <<>>]
      /\ replay' = [replay EXCEPT !.pools = pools]
      /\ UNCHANGED <<input, scan>>
  BY DEF ReplayBegins, NewQueue
<1>2. limit \in Nat
      /\ limit <= BoundedConcurrency(Args.checkpointConcurrency, Cardinality(scan.checkpoints))
  <2>1. Args.checkpointConcurrency \in Nat
    BY ReplayAssumption DEF QueueInv, Args
  <2>2. SelectedCheckpoints \in SUBSET scan.checkpoints
    BY DEF SelectedCheckpoints
  <2>3. /\ Cardinality(SelectedCheckpoints) \in Nat /\ Cardinality(scan.checkpoints) \in Nat
        /\ Cardinality(SelectedCheckpoints) <= Cardinality(scan.checkpoints)
    BY <2>2, FS_Subset, FS_CardinalityType DEF QueueInv
  <2> QED BY <2>1, <2>3, Concurrency
<1> HIDE DEF pools, limit
<1>3. /\ DOMAIN replay' = DOMAIN replay /\ replay'.next = 1 /\ replay'.waiting = {}
      /\ DOMAIN queue' = {"limit", "tasks", "results"}
      /\ queue'.limit = limit /\ queue'.tasks = {} /\ queue'.results = <<>>
  <2>1. replay.next = 1 /\ replay.waiting = {}
        /\ DOMAIN replay = {"initial", "pools", "next", "block", "touched", "waiting", "txs"}
    BY <1>1 DEF QueueInv
  <2> QED BY <1>1, <2>1
<1>4. Waiting' = {} /\ Open' = {} /\ Fetched' = {} /\ Due' = {} /\ Args' = Args
  BY <1>1, <1>3 DEF Waiting, Open, Fetched, Due, Args
<1>5. Queued'
  BY <1>1, <1>2, <1>3, <1>4, FS_EmptySet DEF Queued
<1> QED BY <1>1, <1>3, <1>5 DEF QueueInv

\* The next transaction: its checkpoint, if it has one, waits to be pushed.
LEMMA ReplayQueue == QueueInv /\ ReplayTransaction => QueueInv'
<1> SUFFICES ASSUME QueueInv, ReplayTransaction PROVE QueueInv'
  OBVIOUS
<1> DEFINE k     == replay.next
           tx    == scan.order[k]
           block == LogsOf(tx)[1].block
           before == CHOOSE p \in replay.pools : TRUE
           ended(ops) == ReplayOps(before, TouchedBefore(block), ops)
<1>1. /\ phase = "replay" /\ replay.waiting = {}
      /\ IF \A ops \in DecodedOperations(tx) : ended(ops) = {} THEN Abort
         ELSE \E ops \in DecodedOperations(tx) : \E after \in ended(ops) :
                /\ replay' = [replay EXCEPT
                     !.next = @ + 1, !.pools = {after.pool}, !.block = block,
                     !.touched = after.touched,
                     !.waiting = IF tx \in scan.checkpoints
                                 THEN {[index |-> k, block |-> block, touched |-> after.touched]}
                                 ELSE {},
                     !.txs = Append(@, [tx |-> tx, ops |-> ops, checkpoint |-> {}])]
                /\ UNCHANGED <<input, phase, fetch, logs, scan, traces, queue, file, faults>>
  BY DEF ReplayTransaction
<1>2. CASE Abort
  BY <1>2, Dropped DEF Abort
<1>3. CASE ~Abort
  <2>1. PICK ops \in DecodedOperations(tx) : \E after \in ended(ops) :
                /\ replay' = [replay EXCEPT
                     !.next = @ + 1, !.pools = {after.pool}, !.block = block,
                     !.touched = after.touched,
                     !.waiting = IF tx \in scan.checkpoints
                                 THEN {[index |-> k, block |-> block, touched |-> after.touched]}
                                 ELSE {},
                     !.txs = Append(@, [tx |-> tx, ops |-> ops, checkpoint |-> {}])]
                /\ UNCHANGED <<input, phase, fetch, logs, scan, traces, queue, file, faults>>
    BY <1>1, <1>3, Zenon
  <2> HIDE DEF ended
  <2>2. PICK after \in ended(ops) :
                /\ replay' = [replay EXCEPT
                     !.next = @ + 1, !.pools = {after.pool}, !.block = block,
                     !.touched = after.touched,
                     !.waiting = IF tx \in scan.checkpoints
                                 THEN {[index |-> k, block |-> block, touched |-> after.touched]}
                                 ELSE {},
                     !.txs = Append(@, [tx |-> tx, ops |-> ops, checkpoint |-> {}])]
                /\ UNCHANGED <<input, phase, fetch, logs, scan, traces, queue, file, faults>>
    BY <2>1, Zenon
  <2> DEFINE w == [index |-> k, block |-> block, touched |-> after.touched]
             here == IF tx \in scan.checkpoints THEN {w} ELSE {}
             step == [tx |-> tx, ops |-> ops, checkpoint |-> {}]
  <2>3. replay' = [replay EXCEPT !.next = k + 1, !.pools = {after.pool}, !.block = block,
                     !.touched = after.touched, !.waiting = here, !.txs = Append(replay.txs, step)]
    BY <2>2
  <2>4. w.index = k
    OBVIOUS
  <2> HIDE DEF w, step, block, before
  <2>5. /\ DOMAIN replay' = DOMAIN replay /\ replay'.next = k + 1 /\ replay'.waiting = here
        /\ UNCHANGED <<input, scan, queue>> /\ phase' = "replay"
    <3>1. DOMAIN replay = {"initial", "pools", "next", "block", "touched", "waiting", "txs"}
      BY DEF QueueInv
    <3> HIDE DEF here, k
    <3> QED BY <1>1, <2>2, <2>3, <3>1
  <2>6. Queued
    BY <1>1 DEF QueueInv
  <2>7. /\ Waiting = {} /\ Waiting' = {v.index : v \in here}
        /\ Open' = Open /\ Fetched' = Fetched /\ Args' = Args
    BY <1>1, <2>5 DEF Waiting, Open, Fetched, Args
  <2>8. /\ k \in Nat \ {0} /\ Due' = {i \in 1 .. k : scan.order[i] \in scan.checkpoints}
        /\ Due = {i \in 1 .. k - 1 : scan.order[i] \in scan.checkpoints}
    BY <2>5, <2>6 DEF Due, Queued
  <2>9. Waiting' \cup Open \cup Fetched = Due' /\ Waiting' \cap Open = {} /\ Waiting' \cap Fetched = {}
    <3>1. Open \cup Fetched = Due /\ k \notin Due
      BY <2>6, <2>7, <2>8 DEF Queued
    <3>2. CASE tx \in scan.checkpoints
      <4>1. here = {w}
        BY <3>2
      <4>2. Waiting' = {k}
        BY <2>4, <2>7, <4>1
      <4>3. Due' = Due \cup {k}
        BY <2>8, <3>2
      <4> QED BY <3>1, <4>2, <4>3
    <3>3. CASE tx \notin scan.checkpoints
      <4>1. here = {}
        BY <3>3
      <4>2. Waiting' = {}
        BY <2>7, <4>1
      <4>3. Due' = Due
        BY <2>8, <3>3
      <4> QED BY <3>1, <4>2, <4>3
    <3> QED BY <3>2, <3>3
  <2>10. \A v, u \in here : v = u
    OBVIOUS
  <2>11. Queued'
    <3>1. k + 1 \in Nat \ {0}
      BY <2>8
    <3> HIDE DEF k, here
    <3> QED BY <2>5, <2>6, <2>7, <2>9, <2>10, <3>1 DEF Queued
  <2> QED BY <2>5, <2>11 DEF QueueInv
<1> QED BY <1>2, <1>3

\* The waiting checkpoint's fetch is spawned.
LEMMA PushQueue == QueueInv /\ PushCheckpoint => QueueInv'
<1> SUFFICES ASSUME QueueInv, PushCheckpoint PROVE QueueInv'
  OBVIOUS
<1> DEFINE new(w) == [task |-> w, result |-> {}, failed |-> FALSE]
<1>1. /\ phase = "replay" /\ replay.waiting # {} /\ Cardinality(queue.tasks) < queue.limit
      /\ queue' = [queue EXCEPT !.tasks = queue.tasks \cup {new(w) : w \in replay.waiting}]
      /\ replay' = [replay EXCEPT !.waiting = {}]
      /\ UNCHANGED <<input, phase, scan>>
  BY DEF PushCheckpoint, HasRoom
<1>2. Queued
  BY <1>1 DEF QueueInv
<1>3. PICK w : replay.waiting = {w}
  <2>1. PICK w : w \in replay.waiting
    BY <1>1
  <2>2. \A v \in replay.waiting : v = w
    BY <1>2, <2>1 DEF Queued
  <2>3. replay.waiting = {w}
    BY <2>1, <2>2
  <2> QED BY <2>3
<1> DEFINE t == new(w)
<1>4. {new(v) : v \in replay.waiting} = {t}
  BY <1>3
<1>5. DOMAIN t = {"task", "result", "failed"} /\ t.task = w
  OBVIOUS
<1> HIDE DEF new, t
<1>6. /\ DOMAIN queue' = DOMAIN queue /\ queue'.limit = queue.limit
      /\ queue'.tasks = queue.tasks \cup {t} /\ queue'.results = queue.results
      /\ DOMAIN replay' = DOMAIN replay /\ replay'.next = replay.next /\ replay'.waiting = {}
  BY <1>1, <1>4 DEF QueueInv
<1>7. /\ Waiting = {w.index} /\ Waiting' = {} /\ Open' = Open \cup {w.index}
      /\ Fetched' = Fetched /\ Due' = Due /\ Args' = Args
  BY <1>1, <1>3, <1>5, <1>6 DEF Waiting, Open, Fetched, Due, Args
<1>8. IsFiniteSet(queue'.tasks) /\ Cardinality(queue'.tasks) <= queue'.limit
  <2>1. /\ IsFiniteSet(queue.tasks \cup {t}) /\ Cardinality(queue.tasks) \in Nat
        /\ \/ Cardinality(queue.tasks \cup {t}) = Cardinality(queue.tasks)
           \/ Cardinality(queue.tasks \cup {t}) = Cardinality(queue.tasks) + 1
    BY <1>2, FS_AddElement, FS_CardinalityType DEF Queued
  <2>2. queue.limit \in Nat /\ Cardinality(queue.tasks) < queue.limit
    BY <1>1, <1>2 DEF Queued
  <2>3. Cardinality(queue.tasks \cup {t}) <= queue.limit
    BY <2>1, <2>2
  <2> QED BY <1>6, <2>1, <2>3
<1>9. \A u, v \in queue'.tasks : u.task.index = v.task.index => u = v
  <2>1. \A u \in queue.tasks : u.task.index # w.index
    BY <1>2, <1>7 DEF Queued, Open
  <2> QED BY <1>2, <1>5, <1>6, <2>1 DEF Queued
<1>10. Queued'
  <2>1. Waiting' \cup Open' \cup Fetched' = Due'
        /\ Waiting' \cap Open' = {} /\ Waiting' \cap Fetched' = {} /\ Open' \cap Fetched' = {}
    BY <1>2, <1>7 DEF Queued
  <2>2. \A u \in queue'.tasks : DOMAIN u = {"task", "result", "failed"}
    BY <1>2, <1>5, <1>6 DEF Queued
  <2> QED BY <1>1, <1>2, <1>6, <1>7, <1>8, <1>9, <2>1, <2>2 DEF Queued
<1> QED BY <1>1, <1>6, <1>10 DEF QueueInv

\* A fetch that ends stays the fetch of its checkpoint.
LEMMA TaskEnds ==
  ASSUME QueueInv, NEW t \in queue.tasks, NEW u, Becomes(t, u),
         DOMAIN u = DOMAIN t, u.task = t.task
  PROVE  QueueInv'
<1> DEFINE rest == queue.tasks \ {t}
<1>1. queue' = [queue EXCEPT !.tasks = rest \cup {u}] /\ UNCHANGED <<input, phase, scan, replay>>
  BY DEF Becomes
<1>2. phase \notin {"start", "logs", "traces"}
  BY DEF QueueInv
<1>3. /\ DOMAIN queue' = DOMAIN queue /\ queue'.limit = queue.limit
      /\ queue'.tasks = rest \cup {u} /\ queue'.results = queue.results
  BY <1>1 DEF QueueInv
<1>4. /\ Waiting' = Waiting /\ Open' = Open /\ Fetched' = Fetched /\ Due' = Due /\ Args' = Args
  BY <1>1, <1>3 DEF Waiting, Open, Fetched, Due, Args
<1>5. ASSUME Queued PROVE Queued'
  <2>1. IsFiniteSet(queue'.tasks) /\ Cardinality(queue'.tasks) <= queue'.limit
    <3>1. /\ IsFiniteSet(rest) /\ Cardinality(rest) = Cardinality(queue.tasks) - 1
      BY <1>5, FS_RemoveElement DEF Queued
    <3>2. Cardinality(rest) \in Nat /\ Cardinality(queue.tasks) \in Nat
      BY <1>5, <3>1, FS_CardinalityType DEF Queued
    <3> HIDE DEF rest
    <3>3. /\ IsFiniteSet(rest \cup {u})
          /\ \/ Cardinality(rest \cup {u}) = Cardinality(rest)
             \/ Cardinality(rest \cup {u}) = Cardinality(rest) + 1
      BY <3>1, FS_AddElement
    <3> QED BY <1>3, <1>5, <3>1, <3>2, <3>3 DEF Queued
  <2>2. \A v, w \in queue'.tasks : v.task.index = w.task.index => v = w
    BY <1>3, <1>5 DEF Queued
  <2>3. \A v \in queue'.tasks : DOMAIN v = {"task", "result", "failed"}
    BY <1>3, <1>5 DEF Queued
  <2> QED BY <1>1, <1>3, <1>4, <1>5, <2>1, <2>2, <2>3 DEF Queued
<1> QED BY <1>1, <1>2, <1>3, <1>5 DEF QueueInv

\* A fetch that is answered, or fails, keeps its place.
LEMMA AnswerQueue ==
  ASSUME QueueInv, NEW t \in queue.tasks, CheckpointFails(t) \/ CheckpointArrives(t)
  PROVE  QueueInv'
<1>1. DOMAIN t = {"task", "result", "failed"} \/ phase \notin {"replay", "written"}
  BY DEF QueueInv, Queued
<1>2. CASE phase \notin {"replay", "written"}
  <2> DEFINE answer == {PoolCheckpoint(PoolAtBlock(t.task.block), t.task.touched)}
  <2>1. PICK u : Becomes(t, u)
    BY DEF CheckpointFails, CheckpointArrives
  <2>2. /\ queue' = [queue EXCEPT !.tasks = (@ \ {t}) \cup {u}]
        /\ UNCHANGED <<input, phase, scan, replay>>
    BY <2>1 DEF Becomes
  <2>3. DOMAIN queue' = DOMAIN queue
    BY <2>2
  <2>4. phase \notin {"start", "logs", "traces"}
    BY DEF QueueInv
  <2> QED BY <1>2, <2>2, <2>3, <2>4 DEF QueueInv
<1>3. CASE DOMAIN t = {"task", "result", "failed"}
  <2>1. CASE CheckpointFails(t)
    <3> DEFINE u == [t EXCEPT !.failed = TRUE]
    <3>1. Becomes(t, u)
      BY <2>1 DEF CheckpointFails
    <3>2. DOMAIN u = DOMAIN t /\ u.task = t.task
      BY <1>3
    <3> HIDE DEF u
    <3> QED BY <3>1, <3>2, TaskEnds
  <2>2. CASE CheckpointArrives(t)
    <3> DEFINE answer == PoolCheckpoint(PoolAtBlock(t.task.block), t.task.touched)
               u == IF Parses(answer.core) THEN [t EXCEPT !.result = {answer}]
                    ELSE [t EXCEPT !.failed = TRUE]
    <3>1. Becomes(t, u)
      BY <2>2, Zenon DEF CheckpointArrives
    <3> HIDE DEF answer
    <3>2. DOMAIN u = DOMAIN t /\ u.task = t.task
      BY <1>3
    <3> HIDE DEF u
    <3> QED BY <3>1, <3>2, TaskEnds
  <2> QED BY <2>1, <2>2
<1> QED BY <1>1, <1>2, <1>3

\* A fetch that has ended is collected: its checkpoint is no longer open.
LEMMA CollectQueue ==
  ASSUME QueueInv, NEW t \in queue.tasks, CollectNext(t)
  PROVE  QueueInv'
<1> DEFINE k    == t.task.index
           rest == queue.tasks \ {t}
           all  == [i \in DOMAIN queue.results \cup {k} |->
                      IF i = k THEN CHOOSE r \in t.result : TRUE ELSE queue.results[i]]
<1>1. CASE t.failed
  BY <1>1, Dropped DEF CollectNext, Abort
<1>2. CASE ~t.failed
  <2>1. /\ queue' = [queue EXCEPT !.tasks = rest, !.results = all]
        /\ phase = "replay" /\ UNCHANGED <<input, phase, scan, replay>>
    BY <1>2 DEF CollectNext, Collecting, ReplayDone
  <2>2. Queued
    BY <2>1 DEF QueueInv
  <2>3. DOMAIN all = Fetched \cup {k}
    BY DEF Fetched
  <2> HIDE DEF all
  <2>4. /\ DOMAIN queue' = DOMAIN queue /\ queue'.limit = queue.limit
        /\ queue'.tasks = rest /\ queue'.results = all
    <3>1. DOMAIN queue = {"limit", "tasks", "results"}
      BY DEF QueueInv
    <3> HIDE DEF rest
    <3> QED BY <2>1, <3>1
  <2>5. Waiting' = Waiting /\ Fetched' = Fetched \cup {k} /\ Due' = Due /\ Args' = Args
    BY <2>1, <2>3, <2>4 DEF Waiting, Fetched, Due, Args
  <2>6. k \in Open /\ Open' = Open \ {k}
    BY <2>2, <2>4 DEF Open, Queued
  <2>7. IsFiniteSet(queue'.tasks) /\ Cardinality(queue'.tasks) <= queue'.limit
    <3>1. IsFiniteSet(rest) /\ Cardinality(rest) = Cardinality(queue.tasks) - 1
      BY <2>2, FS_RemoveElement DEF Queued
    <3>2. Cardinality(queue.tasks) \in Nat /\ queue.limit \in Nat
          /\ Cardinality(queue.tasks) <= queue.limit
      BY <2>2, FS_CardinalityType DEF Queued
    <3> HIDE DEF rest
    <3> QED BY <2>4, <3>1, <3>2
  <2>8. Waiting' \cup Open' \cup Fetched' = Due'
        /\ Waiting' \cap Open' = {} /\ Waiting' \cap Fetched' = {} /\ Open' \cap Fetched' = {}
    BY <2>2, <2>5, <2>6 DEF Queued
  <2>9. /\ \A u \in queue'.tasks : DOMAIN u = {"task", "result", "failed"}
        /\ \A u, v \in queue'.tasks : u.task.index = v.task.index => u = v
    BY <2>2, <2>4 DEF Queued
  <2>10. Queued'
    BY <2>1, <2>2, <2>4, <2>5, <2>7, <2>8, <2>9 DEF Queued
  <2> QED BY <2>1, <2>4, <2>10 DEF QueueInv
<1> QED BY <1>1, <1>2

\* The initial pool is loaded before the queue is used.
LEMMA LoadQueue == QueueInv /\ LoadInitialPool => QueueInv'
<1> SUFFICES ASSUME QueueInv, LoadInitialPool PROVE QueueInv'
  OBVIOUS
<1>1. CASE ~Loadable
  BY <1>1, LoadSplit, Dropped DEF Abort
<1>2. CASE Loadable
  <2> DEFINE loaded == {PoolSnapshot(PoolAtBlock(Args.start))}
  <2>1. /\ phase = "start" /\ phase' = "logs" /\ UNCHANGED <<input, scan, queue>>
        /\ replay' = [replay EXCEPT !.initial = loaded]
    BY <1>2, LoadSplit
  <2> HIDE DEF loaded
  <2>2. DOMAIN replay' = DOMAIN replay /\ replay'.next = replay.next
        /\ replay'.waiting = replay.waiting
    BY <2>1 DEF QueueInv
  <2> QED BY <2>1, <2>2, QuietStep
<1> QED BY <1>1, <1>2

\* The queue invariant is inductive.
LEMMA NextQueue == QueueInv /\ [Next]_vars => QueueInv'
<1> SUFFICES ASSUME QueueInv, [Next]_vars PROVE QueueInv'
  OBVIOUS
<1> DEFINE quiet == /\ input' = input /\ scan' = scan /\ queue' = queue /\ replay' = replay
                    /\ (phase' = phase \/ (phase' = "written" /\ phase = "replay"))
<1>1. CASE quiet
  BY <1>1, QuietStep
<1>2. CASE RequestFails
  BY <1>2, Dropped DEF RequestFails
<1>3. ASSUME NEW t \in queue.tasks, CheckpointFails(t) \/ CheckpointArrives(t) PROVE QueueInv'
  BY <1>3, AnswerQueue
<1>4. ASSUME NEW i \in fetch.running, NEW lost, LogsArrive(i, lost) PROVE QueueInv'
  <2>1. quiet
    BY <1>4 DEF LogsArrive
  <2> QED BY <1>1, <2>1
<1>5. ASSUME NEW i \in fetch.running, NEW without, TraceArrives(i, without) PROVE QueueInv'
  <2>1. quiet
    BY <1>5 DEF TraceArrives
  <2> QED BY <1>1, <2>1
<1>6. CASE LoadInitialPool
  BY <1>6, LoadQueue
<1>7. CASE StartRequest
  <2>1. quiet
    BY <1>7 DEF StartRequest
  <2> QED BY <1>1, <2>1
<1>8. CASE ScanTransactions
  BY <1>8, ScanQueue
<1>9. CASE TracesDone
  BY <1>9, TracesSplit, Dropped, StartQueue DEF Abort
<1>10. CASE ReplayTransaction
  BY <1>10, ReplayQueue
<1>11. CASE PushCheckpoint
  BY <1>11, PushQueue
<1>12. CASE WriteFixture
  <2>1. quiet
    BY <1>12, Zenon DEF WriteFixture, ReplayDone
  <2> QED BY <1>1, <2>1
<1>13. ASSUME NEW t \in queue.tasks, CollectNext(t) PROVE QueueInv'
  BY <1>13, CollectQueue
<1>14. CASE UNCHANGED vars
  <2>1. quiet
    BY <1>14 DEF vars
  <2> QED BY <1>1, <2>1
<1> QED BY <1>2, <1>3, <1>4, <1>5, <1>6, <1>7, <1>8, <1>9, <1>10, <1>11, <1>12, <1>13, <1>14
        DEF Next, Answers, Steps

-----------------------------------------------------------------------------
\* Three places that do not overlap hold together what they hold each.
LEMMA ThreePlaces ==
  ASSUME NEW A, NEW B, NEW C, IsFiniteSet(A), IsFiniteSet(B), IsFiniteSet(C),
         A \cap B = {}, A \cap C = {}, B \cap C = {}
  PROVE  Cardinality(A) + Cardinality(B) + Cardinality(C) = Cardinality(A \cup B \cup C)
<1>1. ASSUME NEW S, NEW T, IsFiniteSet(S), IsFiniteSet(T), S \cap T = {}
      PROVE  IsFiniteSet(S \cup T) /\ Cardinality(S \cup T) = Cardinality(S) + Cardinality(T)
  <2>1. /\ IsFiniteSet(S \cup T)
        /\ Cardinality(S \cup T) = Cardinality(S) + Cardinality(T) - Cardinality(S \cap T)
    BY <1>1, FS_Union
  <2>2. Cardinality(S \cap T) = 0
    BY <1>1, FS_EmptySet
  <2>3. Cardinality(S) \in Nat /\ Cardinality(T) \in Nat
    BY <1>1, FS_CardinalityType
  <2> QED BY <2>1, <2>2, <2>3
<1> DEFINE D == A \cup B
<1>2. IsFiniteSet(D) /\ Cardinality(D) = Cardinality(A) + Cardinality(B)
  BY <1>1
<1>3. D \cap C = {} /\ D \cup C = A \cup B \cup C
  OBVIOUS
<1> HIDE DEF D
<1>4. Cardinality(D \cup C) = Cardinality(D) + Cardinality(C)
  BY <1>1, <1>2, <1>3
<1> QED BY <1>2, <1>3, <1>4

\* ... and says what is checked of the queue.
LEMMA QueuedIsExact == QueueInv => QueueIsExact
<1> SUFFICES ASSUME QueueInv, phase \in {"replay", "written"}
             PROVE  /\ Waiting \cup Open \cup Fetched = Due
                    /\ Cardinality(Waiting) + Cardinality(Open) + Cardinality(Fetched)
                         = Cardinality(Waiting \cup Open \cup Fetched)
                    /\ Cardinality(Open) = Cardinality(queue.tasks)
                    /\ Cardinality(Open) <= BoundedConcurrency(Args.checkpointConcurrency,
                                                               Cardinality(scan.checkpoints))
  BY DEF QueueIsExact, Waiting, Open, Fetched, Due
<1>1. Queued
  BY DEF QueueInv
<1>2. Waiting \cup Open \cup Fetched = Due
  BY <1>1 DEF Queued
<1>3. IsFiniteSet(Waiting) /\ IsFiniteSet(Open) /\ IsFiniteSet(Fetched)
  <2>1. replay.next - 1 \in Int
    BY <1>1 DEF Queued
  <2>2. IsFiniteSet(1 .. replay.next - 1)
    BY <2>1, FS_Interval
  <2>3. /\ Waiting \in SUBSET (1 .. replay.next - 1) /\ Open \in SUBSET (1 .. replay.next - 1)
        /\ Fetched \in SUBSET (1 .. replay.next - 1)
    BY <1>2 DEF Due
  <2> QED BY <2>2, <2>3, FS_Subset
<1>4. Cardinality(Waiting) + Cardinality(Open) + Cardinality(Fetched)
        = Cardinality(Waiting \cup Open \cup Fetched)
  BY <1>1, <1>3, ThreePlaces DEF Queued
<1>5. Cardinality(Open) = Cardinality(queue.tasks)
  <2> DEFINE index == [t \in queue.tasks |-> t.task.index]
  <2>1. index \in Surjection(queue.tasks, Open)
    BY DEF Surjection, Open
  <2>2. index \in Injection(queue.tasks, Open)
    BY <1>1 DEF Injection, Open, Queued, IsInjective
  <2> QED BY <1>1, <2>1, <2>2, FS_Surjection DEF Queued
<1>6. Cardinality(queue.tasks) <= BoundedConcurrency(Args.checkpointConcurrency,
                                                     Cardinality(scan.checkpoints))
  <2> DEFINE bound == BoundedConcurrency(Args.checkpointConcurrency, Cardinality(scan.checkpoints))
  <2>1. Args.checkpointConcurrency \in Nat /\ Cardinality(scan.checkpoints) \in Nat
    BY ReplayAssumption, FS_CardinalityType DEF QueueInv, Args
  <2>2. bound \in Nat
    BY <2>1, Concurrency
  <2>3. /\ queue.limit \in Nat /\ Cardinality(queue.tasks) \in Nat
        /\ Cardinality(queue.tasks) <= queue.limit /\ queue.limit <= bound
    BY <1>1, FS_CardinalityType DEF Queued
  <2> HIDE DEF bound
  <2>4. Cardinality(queue.tasks) <= bound
    BY <2>2, <2>3
  <2> QED BY <2>4 DEF bound
<1> QED BY <1>2, <1>4, <1>5, <1>6

\* Whatever the chain holds and in whatever order the answers come, each
\* checkpoint of the transactions replayed so far waits, is being fetched or is
\* fetched, at one of the three places only, and no more fetches are open than
\* the concurrency that was asked for: CheckpointQueue::push, collect_next.
THEOREM CheckpointsAreQueued == Spec => []QueueIsExact
<1>1. Init => QueueInv
  BY InitQueue
<1>2. QueueInv /\ [Next]_vars => QueueInv'
  BY NextQueue
<1>3. QueueInv => QueueIsExact
  BY QueuedIsExact
<1> QED BY <1>1, <1>2, <1>3, PTL DEF Spec

-----------------------------------------------------------------------------
(* Finite sets in an order                                                     *)

\* R is a strict total order on S.
TotalOrder(S, R) ==
  /\ \A x \in S : <<x, x>> \notin R
  /\ \A x, y, z \in S : <<x, y>> \in R /\ <<y, z>> \in R => <<x, z>> \in R
  /\ \A x, y \in S : x = y \/ <<x, y>> \in R \/ <<y, x>> \in R

Below(S, R, x) == {y \in S : <<y, x>> \in R}

\* f lists the elements of S, each once, in the order R.
Ordered(f, S, R) ==
  /\ Cardinality(S) \in Nat /\ f \in [1 .. Cardinality(S) -> S]
  /\ \A x \in S : \E i \in 1 .. Cardinality(S) : f[i] = x
  /\ \A i, j \in 1 .. Cardinality(S) : i < j <=> <<f[i], f[j]>> \in R
  /\ \A i \in 1 .. Cardinality(S) : Cardinality(Below(S, R, f[i])) = i - 1

\* The higher, the more are below.
LEMMA BelowGrows ==
  ASSUME NEW S, IsFiniteSet(S), NEW R, TotalOrder(S, R), NEW x \in S, NEW y \in S, <<x, y>> \in R
  PROVE  Cardinality(Below(S, R, x)) < Cardinality(Below(S, R, y))
<1> DEFINE A == Below(S, R, x)
           B == Below(S, R, y)
<1>1. A \in SUBSET S /\ B \in SUBSET S
  BY DEF Below
<1>2. x \notin A /\ A \cup {x} \in SUBSET B
  BY DEF Below, TotalOrder
<1> HIDE DEF A, B
<1>3. IsFiniteSet(A) /\ IsFiniteSet(B)
  BY <1>1, FS_Subset
<1>4. IsFiniteSet(A \cup {x}) /\ Cardinality(A \cup {x}) = Cardinality(A) + 1
  BY <1>2, <1>3, FS_AddElement
<1>5. Cardinality(A \cup {x}) <= Cardinality(B)
  BY <1>2, <1>3, FS_Subset
<1>6. Cardinality(A) \in Nat /\ Cardinality(B) \in Nat
  BY <1>3, FS_CardinalityType
<1> QED BY <1>4, <1>5, <1>6 DEF A, B

\* Each element has its rank, and each rank its element.
LEMMA RankExists ==
  ASSUME NEW S, IsFiniteSet(S), NEW R, TotalOrder(S, R)
  PROVE  /\ Cardinality(S) \in Nat
         /\ \A x \in S : Cardinality(Below(S, R, x)) \in 0 .. Cardinality(S) - 1
         /\ \A i \in 1 .. Cardinality(S) : \E x \in S : Cardinality(Below(S, R, x)) = i - 1
<1> DEFINE n == Cardinality(S)
           rank == [x \in S |-> Cardinality(Below(S, R, x)) + 1]
<1>1. n \in Nat
  BY FS_CardinalityType
<1>2. ASSUME NEW x \in S PROVE Cardinality(Below(S, R, x)) \in 0 .. n - 1
  <2> DEFINE A == Below(S, R, x)
  <2>1. A \in SUBSET S /\ x \notin A
    BY DEF Below, TotalOrder
  <2> HIDE DEF A
  <2>2. A \in SUBSET (S \ {x})
    BY <2>1
  <2>3. IsFiniteSet(S \ {x}) /\ Cardinality(S \ {x}) = n - 1
    BY FS_RemoveElement
  <2>4. IsFiniteSet(A) /\ Cardinality(A) <= n - 1
    BY <2>2, <2>3, FS_Subset
  <2>5. Cardinality(A) \in Nat
    BY <2>4, FS_CardinalityType
  <2> QED BY <1>1, <2>4, <2>5 DEF A
<1>3. rank \in [S -> 1 .. n]
  <2> SUFFICES ASSUME NEW x \in S PROVE Cardinality(Below(S, R, x)) + 1 \in 1 .. n
    OBVIOUS
  <2> QED BY <1>1, <1>2
<1>4. ASSUME NEW x \in S, NEW y \in S, rank[x] = rank[y] PROVE x = y
  <2>1. Cardinality(Below(S, R, x)) \in Int /\ Cardinality(Below(S, R, y)) \in Int
    BY <1>1, <1>2
  <2>2. Cardinality(Below(S, R, x)) = Cardinality(Below(S, R, y))
    BY <1>4, <2>1
  <2>3. <<x, y>> \notin R /\ <<y, x>> \notin R
    BY <2>1, <2>2, BelowGrows
  <2> QED BY <2>3 DEF TotalOrder
<1>5. rank \in Injection(S, 1 .. n)
  <2> HIDE DEF rank, n
  <2> QED BY <1>3, <1>4 DEF Injection, IsInjective
<1>6. IsFiniteSet(1 .. n) /\ Cardinality(1 .. n) = n
  BY <1>1, FS_Interval
<1> HIDE DEF rank, n
<1>7. rank \in Surjection(S, 1 .. n)
  <2>1. Cardinality(S) = Cardinality(1 .. n)
    BY <1>6 DEF n
  <2> QED BY <1>5, <1>6, <2>1, FS_Injection
<1>8. ASSUME NEW i \in 1 .. n PROVE \E x \in S : Cardinality(Below(S, R, x)) = i - 1
  <2>1. PICK x \in S : rank[x] = i
    BY <1>7 DEF Surjection
  <2>2. Cardinality(Below(S, R, x)) \in Int /\ Cardinality(Below(S, R, x)) + 1 = i
    BY <1>1, <1>2, <2>1 DEF rank
  <2> QED BY <2>2
<1> QED BY <1>1, <1>2, <1>8 DEF n

\* A function that picks an element of each rank lists the set in order.
LEMMA RanksOrder ==
  ASSUME NEW S, IsFiniteSet(S), NEW R, TotalOrder(S, R), NEW f,
         f = [i \in 1 .. Cardinality(S) |-> f[i]],
         \A i \in 1 .. Cardinality(S) : f[i] \in S /\ Cardinality(Below(S, R, f[i])) = i - 1
  PROVE  Ordered(f, S, R)
<1> DEFINE n == Cardinality(S)
<1>1. /\ n \in Nat
      /\ \A x \in S : Cardinality(Below(S, R, x)) \in 0 .. n - 1
  BY RankExists
<1>2. f \in [1 .. n -> S]
  <2>1. f = [i \in 1 .. n |-> f[i]] /\ \A i \in 1 .. n : f[i] \in S
    OBVIOUS
  <2> HIDE DEF n
  <2> QED BY <2>1
<1> HIDE DEF n
<1>3. ASSUME NEW x \in S, NEW y \in S, Cardinality(Below(S, R, x)) <= Cardinality(Below(S, R, y))
      PROVE  <<y, x>> \notin R
  <2>1. Cardinality(Below(S, R, x)) \in Int /\ Cardinality(Below(S, R, y)) \in Int
    BY <1>1
  <2> QED BY <1>3, <2>1, BelowGrows
<1>4. ASSUME NEW x \in S PROVE \E i \in 1 .. n : f[i] = x
  <2> DEFINE i == Cardinality(Below(S, R, x)) + 1
  <2>1. i \in 1 .. n /\ i - 1 = Cardinality(Below(S, R, x))
    BY <1>1
  <2> HIDE DEF i
  <2>2. f[i] \in S /\ Cardinality(Below(S, R, f[i])) = Cardinality(Below(S, R, x))
    BY <2>1 DEF n
  <2>3. Cardinality(Below(S, R, x)) <= Cardinality(Below(S, R, f[i]))
        /\ Cardinality(Below(S, R, f[i])) <= Cardinality(Below(S, R, x))
    BY <1>1, <2>2
  <2>4. <<x, f[i]>> \notin R /\ <<f[i], x>> \notin R
    BY <1>3, <2>2, <2>3
  <2>5. f[i] = x
    BY <2>2, <2>4 DEF TotalOrder
  <2> QED BY <2>1, <2>5
<1>5. ASSUME NEW i \in 1 .. n, NEW j \in 1 .. n PROVE i < j <=> <<f[i], f[j]>> \in R
  <2>1. /\ f[i] \in S /\ Cardinality(Below(S, R, f[i])) = i - 1
        /\ f[j] \in S /\ Cardinality(Below(S, R, f[j])) = j - 1
    BY DEF n
  <2>2. CASE i < j
    <3>1. Cardinality(Below(S, R, f[i])) <= Cardinality(Below(S, R, f[j]))
          /\ Cardinality(Below(S, R, f[i])) # Cardinality(Below(S, R, f[j]))
      BY <2>1, <2>2
    <3>2. <<f[j], f[i]>> \notin R /\ f[i] # f[j]
      BY <1>3, <2>1, <3>1
    <3> QED BY <2>1, <2>2, <3>2 DEF TotalOrder
  <2>3. CASE ~(i < j)
    <3>1. Cardinality(Below(S, R, f[j])) <= Cardinality(Below(S, R, f[i]))
      BY <2>1, <2>3
    <3> QED BY <1>3, <2>1, <2>3, <3>1
  <2> QED BY <2>2, <2>3
<1>6. \A i \in 1 .. n : Cardinality(Below(S, R, f[i])) = i - 1
  BY DEF n
<1> QED BY <1>1, <1>2, <1>4, <1>5, <1>6 DEF Ordered, n

\* Elements of one rank are one.
LEMMA RankIsUnique ==
  ASSUME NEW S, IsFiniteSet(S), NEW R, TotalOrder(S, R), NEW x \in S, NEW y \in S,
         Cardinality(Below(S, R, x)) = Cardinality(Below(S, R, y))
  PROVE  x = y
<1>1. Cardinality(Below(S, R, x)) \in Int /\ Cardinality(Below(S, R, y)) \in Int
  BY RankExists
<1>2. <<x, y>> \notin R /\ <<y, x>> \notin R
  BY <1>1, BelowGrows
<1> QED BY <1>2 DEF TotalOrder

\* InOrder, of integers.
LEMMA InOrderOfInts ==
  ASSUME NEW S \in SUBSET Int, IsFiniteSet(S)
  PROVE  /\ Cardinality(S) \in Nat /\ InOrder(S, <) \in [1 .. Cardinality(S) -> S]
         /\ \A x \in S : \E i \in 1 .. Cardinality(S) : InOrder(S, <)[i] = x
         /\ \A i, j \in 1 .. Cardinality(S) : i < j <=> InOrder(S, <)[i] < InOrder(S, <)[j]
<1> DEFINE R == {p \in S \X S : p[1] < p[2]}
           f == InOrder(S, <)
           n == Cardinality(S)
           at(i) == CHOOSE x \in S : Cardinality({y \in S : y < x}) = i - 1
<1>1. /\ \A x, y \in S : <<x, y>> \in R <=> x < y
      /\ \A x \in S : x \in Int
  OBVIOUS
<1>2. f = [i \in 1 .. n |-> at(i)]
  BY DEF InOrder
<1> HIDE DEF R, f
<1>3. TotalOrder(S, R)
  <2>1. \A x \in S : <<x, x>> \notin R
    BY <1>1
  <2>2. \A x, y, z \in S : <<x, y>> \in R /\ <<y, z>> \in R => <<x, z>> \in R
    BY <1>1
  <2>3. ASSUME NEW x \in S, NEW y \in S PROVE x = y \/ <<x, y>> \in R \/ <<y, x>> \in R
    <3>1. x = y \/ x < y \/ y < x
      BY <1>1
    <3> QED BY <1>1, <3>1
  <2> QED BY <2>1, <2>2, <2>3 DEF TotalOrder
<1>4. \A x \in S : Below(S, R, x) = {y \in S : y < x}
  BY <1>1 DEF Below
<1>5. ASSUME NEW i \in 1 .. n PROVE at(i) \in S /\ Cardinality(Below(S, R, at(i))) = i - 1
  <2>1. PICK x \in S : Cardinality(Below(S, R, x)) = i - 1
    BY <1>3, RankExists
  <2>2. \E z \in S : Cardinality({y \in S : y < z}) = i - 1
    BY <1>4, <2>1
  <2>3. at(i) \in S /\ Cardinality({y \in S : y < at(i)}) = i - 1
    <3> HIDE DEF n
    <3> QED BY <2>2
  <2> HIDE DEF at
  <2> QED BY <1>4, <2>3
<1> HIDE DEF at
<1>6. f = [i \in 1 .. n |-> f[i]] /\ \A i \in 1 .. n : f[i] = at(i)
  BY <1>2
<1>7. Ordered(f, S, R)
  BY <1>3, <1>5, <1>6, RanksOrder
<1> HIDE DEF n
<1>8. /\ n \in Nat /\ f \in [1 .. n -> S] /\ \A x \in S : \E i \in 1 .. n : f[i] = x
      /\ \A i, j \in 1 .. n : i < j <=> <<f[i], f[j]>> \in R
  BY <1>7 DEF Ordered, n
<1>9. \A i, j \in 1 .. n : i < j <=> f[i] < f[j]
  <2>1. \A i \in 1 .. n : f[i] \in S
    BY <1>8
  <2> QED BY <1>1, <1>8, <2>1
<1> QED BY <1>8, <1>9 DEF f, n

-----------------------------------------------------------------------------
(* Parts of a sequence                                                         *)

\* What concatenation does.
LEMMA Joined ==
  ASSUME NEW W, NEW s \in Seq(W), NEW t \in Seq(W)
  PROVE  /\ s \o t \in Seq(W) /\ Len(s \o t) = Len(s) + Len(t)
         /\ \A k \in 1 .. Len(s) + Len(t) : (s \o t)[k] = IF k <= Len(s) THEN s[k] ELSE t[k - Len(s)]
OBVIOUS

\* The kept entries, which one from where.
KeptInOrder(order, s, places) ==
  /\ Cardinality(places) \in Nat /\ IsFiniteSet(places)
  /\ order \in [1 .. Cardinality(places) -> places]
  /\ Kept(s, places) = [i \in 1 .. Cardinality(places) |-> s[order[i]]]
  /\ \A k \in places : \E i \in 1 .. Cardinality(places) : order[i] = k
  /\ \A i, j \in 1 .. Cardinality(places) : i < j <=> order[i] < order[j]

\* Some such order exists.
LEMMA KeptIs ==
  ASSUME NEW T, NEW s \in Seq(T), NEW places \in SUBSET (1 .. Len(s))
  PROVE  \E order : KeptInOrder(order, s, places)
<1> DEFINE n == Cardinality(places)
           order == InOrder(places, <)
<1>1. IsFiniteSet(places)
  <2>1. IsFiniteSet(1 .. Len(s))
    BY FS_Interval
  <2> QED BY <2>1, FS_Subset
<1>2. places \in SUBSET Int
  OBVIOUS
<1>3. /\ n \in Nat /\ order \in [1 .. n -> places]
      /\ \A k \in places : \E i \in 1 .. n : order[i] = k
      /\ \A i, j \in 1 .. n : i < j <=> order[i] < order[j]
  BY <1>1, <1>2, InOrderOfInts
<1>4. Kept(s, places) = [i \in DOMAIN order |-> s[order[i]]]
  BY DEF Kept
<1> HIDE DEF n, order
<1>5. DOMAIN order = 1 .. n
  BY <1>3
<1>6. KeptInOrder(order, s, places)
  BY <1>1, <1>3, <1>4, <1>5 DEF KeptInOrder, n
<1> QED BY <1>6

-----------------------------------------------------------------------------
(* One sequence after the other                                                *)

\* Where each of n sequences begins in all of them.
Offsets(off, seqs, n) ==
  /\ off \in [0 .. n -> Nat] /\ off[0] = 0
  /\ \A i \in 1 .. n : off[i] = off[i - 1] + Len(seqs[i])

\* The partial results of FlattenSeq.
Partial(fl, seqs, n) ==
  /\ fl[0] = <<>>
  /\ \A i \in 1 .. n : fl[i] = fl[i - 1] \o seqs[i]

\* The first n of the sequences, one after the other, are a sequence.
LEMMA PartialExists ==
  ASSUME NEW W, NEW n \in Nat, NEW seqs \in [1 .. n -> Seq(W)]
  PROVE  \E fl \in [0 .. n -> Seq(W)] : Partial(fl, seqs, n)
<1> DEFINE S == Seq(W)
           g == [k \in 0 .. n |-> [s \in S |-> IF k = 0 THEN s ELSE s \o seqs[k]]]
<1>1. <<>> \in S
  OBVIOUS
<1>2. ASSUME NEW k \in 0 .. n, NEW s \in S PROVE (IF k = 0 THEN s ELSE s \o seqs[k]) \in S
  <2>1. CASE k = 0
    BY <2>1
  <2>2. CASE k # 0
    <3>1. seqs[k] \in Seq(W)
      BY <2>2
    <3> QED BY <2>2, <3>1, Joined
  <2> QED BY <2>1, <2>2
<1> HIDE DEF S
<1>3. g \in [0 .. n -> [S -> S]]
  BY <1>2
<1>4. \A k \in 1 .. n : \A s \in S : g[k][s] = s \o seqs[k]
  OBVIOUS
<1> HIDE DEF g
<1>5. PICK fl \in [0 .. n -> S] : IsIteration(fl, n, <<>>, g)
  BY <1>1, <1>3, Iterates
<1>6. fl[0] = <<>>
  BY <1>5 DEF IsIteration
<1>7. ASSUME NEW i \in 1 .. n PROVE fl[i] = fl[i - 1] \o seqs[i]
  <2>1. i \in 0 .. n /\ i # 0 /\ i - 1 \in 0 .. n
    OBVIOUS
  <2>2. fl[i] = g[i][fl[i - 1]] /\ fl[i - 1] \in S
    BY <1>5, <2>1 DEF IsIteration
  <2> QED BY <1>4, <2>2
<1> QED BY <1>5, <1>6, <1>7 DEF Partial, S

\* Each of n sequences begins with those before it.
Growing(fl, n) ==
  \A j \in 0 .. n : \A i \in 0 .. j :
    Len(fl[i]) <= Len(fl[j]) /\ \A k \in 1 .. Len(fl[i]) : fl[j][k] = fl[i][k]

\* The partial results grow, and keep what they have.
LEMMA PartialGrows ==
  ASSUME NEW W, NEW n \in Nat, NEW seqs \in [1 .. n -> Seq(W)],
         NEW fl \in [0 .. n -> Seq(W)], Partial(fl, seqs, n)
  PROVE  Growing(fl, n)
<1> DEFINE Kind(j) == \A i \in 0 .. j :
             Len(fl[i]) <= Len(fl[j]) /\ \A k \in 1 .. Len(fl[i]) : fl[j][k] = fl[i][k]
           good == {j \in 0 .. n : Kind(j)}
<1>1. Kind(0)
  <2>1. \A i \in 0 .. 0 : i = 0
    OBVIOUS
  <2>2. fl[0] \in Seq(W)
    OBVIOUS
  <2>3. Len(fl[0]) \in Nat
    BY <2>2
  <2> QED BY <2>1, <2>3
<1>2. ASSUME NEW j \in 0 .. n - 1, Kind(j) PROVE Kind(j + 1)
  <2>1. j + 1 \in 1 .. n /\ (j + 1) - 1 = j /\ j \in 0 .. n
    OBVIOUS
  <2>2. fl[j + 1] = fl[j] \o seqs[j + 1] /\ fl[j] \in Seq(W) /\ seqs[j + 1] \in Seq(W)
    BY <2>1 DEF Partial
  <2>3. /\ Len(fl[j + 1]) = Len(fl[j]) + Len(seqs[j + 1])
        /\ \A k \in 1 .. Len(fl[j]) + Len(seqs[j + 1]) :
             fl[j + 1][k] = IF k <= Len(fl[j]) THEN fl[j][k] ELSE seqs[j + 1][k - Len(fl[j])]
    <3> DEFINE p == fl[j]
               q == seqs[j + 1]
    <3>1. p \in Seq(W) /\ q \in Seq(W) /\ fl[j + 1] = p \o q
      BY <2>2
    <3> HIDE DEF p, q, Kind
    <3>2. /\ Len(p \o q) = Len(p) + Len(q)
          /\ \A k \in 1 .. Len(p) + Len(q) : (p \o q)[k] = IF k <= Len(p) THEN p[k] ELSE q[k - Len(p)]
      BY <3>1, Joined
    <3>3. /\ Len(fl[j + 1]) = Len(p) + Len(q)
          /\ \A k \in 1 .. Len(p) + Len(q) : fl[j + 1][k] = IF k <= Len(p) THEN p[k] ELSE q[k - Len(p)]
      BY <3>1, <3>2
    <3> QED BY <3>3 DEF p, q
  <2>4. Len(fl[j]) \in Nat /\ Len(seqs[j + 1]) \in Nat
    BY <2>2
  <2>5. ASSUME NEW i \in 0 .. j + 1
        PROVE  Len(fl[i]) <= Len(fl[j + 1]) /\ \A k \in 1 .. Len(fl[i]) : fl[j + 1][k] = fl[i][k]
    <3>1. CASE i = j + 1
      <4>1. Len(fl[i]) \in Nat
        BY <2>3, <2>4, <3>1
      <4> QED BY <3>1, <4>1
    <3>2. CASE i # j + 1
      <4>1. i \in 0 .. j
        BY <3>2
      <4>2. fl[i] \in Seq(W) /\ Len(fl[i]) \in Nat
        BY <2>1, <4>1
      <4>3. Len(fl[i]) <= Len(fl[j]) /\ \A k \in 1 .. Len(fl[i]) : fl[j][k] = fl[i][k]
        BY <1>2, <4>1
      <4> HIDE DEF Kind
      <4> DEFINE a == Len(fl[i])
                 b == Len(fl[j])
                 c == Len(seqs[j + 1])
                 d == Len(fl[j + 1])
      <4>6. a \in Nat /\ b \in Nat /\ c \in Nat /\ d = b + c /\ a <= b
        BY <2>3, <2>4, <4>2, <4>3
      <4>7. \A k \in 1 .. b + c : fl[j + 1][k] = IF k <= b THEN fl[j][k] ELSE seqs[j + 1][k - b]
        BY <2>3
      <4>8. \A k \in 1 .. a : fl[j][k] = fl[i][k]
        BY <4>3
      <4> HIDE DEF a, b, c, d
      <4>4. a <= d
        BY <4>6
      <4>5. ASSUME NEW k \in 1 .. a PROVE fl[j + 1][k] = fl[i][k]
        <5>1. k \in 1 .. b + c /\ k <= b
          BY <4>6
        <5> QED BY <4>7, <4>8, <5>1
      <4> QED BY <4>4, <4>5 DEF a, d
    <3> QED BY <3>1, <3>2
  <2> QED BY <2>5
<1> HIDE DEF Kind
<1>3. 0 \in good /\ 0 \in Int /\ n \in Int
  BY <1>1
<1>4. ASSUME NEW j \in 0 .. n - 1, j \in good PROVE j + 1 \in good
  <2>1. j + 1 \in 0 .. n
    OBVIOUS
  <2> QED BY <1>2, <1>4, <2>1
<1>5. \A j \in 0 .. n : j \in good
  <2>1. good \in SUBSET (0 .. n)
    OBVIOUS
  <2> HIDE DEF good
  <2> QED BY <1>3, <1>4, <2>1, IntervalInduction
<1> QED BY <1>5 DEF Kind, Growing

\* FlattenSeq ends with the last partial result.
LEMMA FlattenIsPartial ==
  ASSUME NEW W, NEW n \in Nat, NEW seqs \in [1 .. n -> Seq(W)],
         NEW fl \in [0 .. n -> Seq(W)], Partial(fl, seqs, n)
  PROVE  FlattenSeq(seqs) = fl[n]
<1>1. Len(seqs) = n
  OBVIOUS
<1>2. CASE n = 0
  <2>1. seqs = <<>>
    BY <1>2
  <2> QED BY <1>1, <1>2, <2>1 DEF FlattenSeq, Partial
<1>3. CASE n # 0
  <2> DEFINE Rec(f) == [i \in 1 .. n |-> IF i = 1 THEN seqs[i] ELSE f[i - 1] \o seqs[i]]
             h == [i \in 1 .. n |-> fl[i]]
             c == CHOOSE f : f = Rec(f)
  <2>1. FlattenSeq(seqs) = c[n]
    <3>1. n \in 1 .. Len(seqs) /\ ~(Len(seqs) = 0)
      BY <1>1, <1>3
    <3> QED BY <1>1, <3>1 DEF FlattenSeq
  <2>2. h = Rec(h)
    <3>1. ASSUME NEW i \in 1 .. n PROVE h[i] = IF i = 1 THEN seqs[i] ELSE h[i - 1] \o seqs[i]
      <4>1. CASE i = 1
        <5>1. fl[1] = <<>> \o seqs[1] /\ seqs[1] \in Seq(W)
          <6>1. 1 \in 1 .. n /\ 1 - 1 = 0
            BY <1>3
          <6> QED BY <6>1 DEF Partial
        <5>2. <<>> \o seqs[1] = seqs[1]
          BY <5>1
        <5> QED BY <4>1, <5>1, <5>2
      <4>2. CASE i # 1
        <5>1. i - 1 \in 1 .. n
          BY <4>2
        <5> QED BY <4>2, <5>1 DEF Partial
      <4> QED BY <4>1, <4>2
    <3> HIDE DEF h
    <3>2. h = [i \in 1 .. n |-> h[i]]
      BY DEF h
    <3> QED BY <3>1, <3>2
  <2>3. c = Rec(c)
    <3> HIDE DEF Rec
    <3> QED BY <2>2
  <2> HIDE DEF c
  <2> DEFINE good == {i \in 1 .. n : c[i] = fl[i]}
  <2>4. 1 \in good
    <3>1. 1 \in 1 .. n /\ c[1] = seqs[1] /\ h[1] = seqs[1] /\ h[1] = fl[1]
      BY <1>3, <2>2, <2>3
    <3> QED BY <3>1
  <2>5. ASSUME NEW i \in 1 .. n - 1, i \in good PROVE i + 1 \in good
    <3>1. i + 1 \in 1 .. n /\ i + 1 # 1 /\ (i + 1) - 1 = i
      OBVIOUS
    <3>2. c[i + 1] = c[i] \o seqs[i + 1]
      BY <2>3, <3>1
    <3>3. fl[i + 1] = fl[i] \o seqs[i + 1]
      BY <3>1 DEF Partial
    <3> QED BY <2>5, <3>1, <3>2, <3>3
  <2>6. \A i \in 1 .. n : i \in good
    <3>1. good \in SUBSET (1 .. n)
      OBVIOUS
    <3>2. 1 \in Int /\ n \in Int
      OBVIOUS
    <3> HIDE DEF good
    <3> QED BY <2>4, <2>5, <3>1, <3>2, IntervalInduction
  <2> QED BY <1>3, <2>1, <2>6
<1> QED BY <1>2, <1>3

\* all holds the sequences one after the other.
Holds(all, seqs, n, off) ==
  /\ Offsets(off, seqs, n) /\ Len(all) = off[n]
  /\ \A i \in 1 .. n : off[i] <= off[n]
  /\ \A i \in 1 .. n : \A k \in 1 .. Len(seqs[i]) : all[off[i - 1] + k] = seqs[i][k]

\* So does FlattenSeq.
LEMMA Flattened ==
  ASSUME NEW W, NEW n \in Nat, NEW seqs \in [1 .. n -> Seq(W)]
  PROVE  FlattenSeq(seqs) \in Seq(W) /\ \E off : Holds(FlattenSeq(seqs), seqs, n, off)
<1>1. PICK fl \in [0 .. n -> Seq(W)] : Partial(fl, seqs, n)
  BY PartialExists
<1>2. Growing(fl, n)
  BY <1>1, PartialGrows
<1> DEFINE off == [i \in 0 .. n |-> Len(fl[i])]
<1>3. FlattenSeq(seqs) = fl[n]
  BY <1>1, FlattenIsPartial
<1>4. /\ \A i \in 0 .. n : fl[i] \in Seq(W) /\ Len(fl[i]) \in Nat /\ off[i] = Len(fl[i])
      /\ n \in 0 .. n /\ 0 \in 0 .. n
  OBVIOUS
<1>5. Offsets(off, seqs, n)
  <2>1. off \in [0 .. n -> Nat]
    BY <1>4
  <2>2. off[0] = 0
    BY <1>1, <1>4 DEF Partial
  <2>3. ASSUME NEW i \in 1 .. n PROVE off[i] = off[i - 1] + Len(seqs[i])
    <3>1. i \in 0 .. n /\ i - 1 \in 0 .. n
      OBVIOUS
    <3>2. fl[i] = fl[i - 1] \o seqs[i]
      BY <1>1 DEF Partial
    <3>3. Len(fl[i]) = Len(fl[i - 1]) + Len(seqs[i])
      <4>1. fl[i - 1] \in Seq(W) /\ seqs[i] \in Seq(W)
        BY <1>4, <3>1
      <4> QED BY <3>2, <4>1, Joined
    <3> HIDE DEF off
    <3> QED BY <1>4, <3>1, <3>3
  <2> HIDE DEF off
  <2> QED BY <2>1, <2>2, <2>3 DEF Offsets
<1>6. ASSUME NEW i \in 1 .. n
      PROVE  off[i] <= off[n] /\ \A k \in 1 .. Len(seqs[i]) : fl[n][off[i - 1] + k] = seqs[i][k]
  <2>1. i \in 0 .. n /\ i - 1 \in 0 .. n
    OBVIOUS
  <2>2. Len(fl[i]) <= Len(fl[n]) /\ \A k \in 1 .. Len(fl[i]) : fl[n][k] = fl[i][k]
    <3>1. i \in 0 .. n /\ n \in 0 .. n
      OBVIOUS
    <3> QED BY <1>2, <3>1 DEF Growing
  <2>3. fl[i - 1] \in Seq(W) /\ seqs[i] \in Seq(W) /\ fl[i] = fl[i - 1] \o seqs[i]
    BY <1>1, <1>4, <2>1 DEF Partial
  <2>4. /\ Len(fl[i]) = Len(fl[i - 1]) + Len(seqs[i])
        /\ \A k \in 1 .. Len(fl[i - 1]) + Len(seqs[i]) :
             fl[i][k] = IF k <= Len(fl[i - 1]) THEN fl[i - 1][k] ELSE seqs[i][k - Len(fl[i - 1])]
    BY <2>3, Joined
  <2>5. off[i] = Len(fl[i]) /\ off[n] = Len(fl[n]) /\ off[i - 1] = Len(fl[i - 1])
    BY <1>4, <2>1
  <2> HIDE DEF off
  <2>6. Len(fl[i - 1]) \in Nat /\ Len(seqs[i]) \in Nat
    BY <2>3
  <2>7. ASSUME NEW k \in 1 .. Len(seqs[i]) PROVE fl[n][off[i - 1] + k] = seqs[i][k]
    <3> DEFINE m == Len(fl[i - 1]) + k
    <3>1. m \in 1 .. Len(fl[i - 1]) + Len(seqs[i]) /\ ~(m <= Len(fl[i - 1])) /\ m - Len(fl[i - 1]) = k
      BY <2>6
    <3> HIDE DEF m
    <3>2. fl[n][m] = fl[i][m] /\ fl[i][m] = seqs[i][k]
      BY <2>2, <2>4, <3>1
    <3> QED BY <2>5, <3>2 DEF m
  <2> QED BY <2>2, <2>5, <2>7
<1>7. FlattenSeq(seqs) \in Seq(W) /\ Len(FlattenSeq(seqs)) = off[n]
  BY <1>3, <1>4
<1> HIDE DEF off
<1>8. \A i \in 1 .. n : /\ off[i] <= off[n]
        /\ \A k \in 1 .. Len(seqs[i]) : FlattenSeq(seqs)[off[i - 1] + k] = seqs[i][k]
  BY <1>3, <1>6
<1>9. Holds(FlattenSeq(seqs), seqs, n, off)
  BY <1>5, <1>7, <1>8 DEF Holds
<1> QED BY <1>7, <1>9

-----------------------------------------------------------------------------
(* The logs of the chain                                                       *)

\* No call of the histories is made in a before-hook.
NoBeforeHooks ==
  \A h \in Histories : \A tx \in ToSet(h.txs) : \A frame \in ToSet(tx.frames) : ~frame.before

\* A transaction has finitely many operations.
LEMMA PersistedFinite ==
  ASSUME NEW h \in Histories, NEW i \in DOMAIN h.txs
  PROVE  /\ Persisted(h.txs[i].frames) \in SUBSET DOMAIN h.txs[i].frames
         /\ Persisted(h.txs[i].frames) \in SUBSET Int
         /\ IsFiniteSet(Persisted(h.txs[i].frames))
         /\ Cardinality(Persisted(h.txs[i].frames)) \in Nat
<1> DEFINE frames == h.txs[i].frames
           S == Persisted(frames)
<1>1. S \in SUBSET DOMAIN frames
  BY DEF Persisted
<1>2. Len(frames) \in Nat /\ DOMAIN frames = 1 .. Len(frames)
  BY HistoryKnown
<1> HIDE DEF frames, S
<1>3. IsFiniteSet(1 .. Len(frames)) /\ S \in SUBSET (1 .. Len(frames)) /\ S \in SUBSET Int
  BY <1>1, <1>2, FS_Interval
<1>4. IsFiniteSet(S) /\ Cardinality(S) \in Nat
  BY <1>3, FS_Subset, FS_CardinalityType
<1> QED BY <1>1, <1>3, <1>4 DEF frames, S

\* Without before-hooks the operations execute in the order of their calls.
LEMMA ExecutedInOrder ==
  ASSUME NoBeforeHooks, NEW h \in Histories, NEW i \in DOMAIN h.txs
  PROVE  Executed(h.txs[i]) = InOrder(Persisted(h.txs[i].frames), <)
<1> DEFINE tx == h.txs[i]
           S == Persisted(tx.frames)
           n == Cardinality(S)
           R == {p \in S \X S : p[1] < p[2]}
           f == Executed(tx)
           g == InOrder(S, <)
           at(k) == CHOOSE x \in S : Cardinality({y \in S : ExecutedBefore(tx.frames, y, x)}) = k - 1
           low(k) == CHOOSE x \in S : Cardinality({y \in S : y < x}) = k - 1
<1>1. /\ f = [k \in 1 .. n |-> at(k)]
      /\ g = [k \in 1 .. n |-> low(k)]
  BY DEF Executed, InOrder
<1>2. S \in SUBSET Int /\ IsFiniteSet(S) /\ n \in Nat /\ S \in SUBSET DOMAIN tx.frames
  BY PersistedFinite
<1>3. ASSUME NEW x \in S, NEW y \in S PROVE ExecutedBefore(tx.frames, y, x) <=> y < x
  <2>1. \A c \in DOMAIN tx.frames : ~tx.frames[c].before
    BY DEF NoBeforeHooks, ToSet
  <2>2. ~InBeforeHook(tx.frames, x, y) /\ ~InBeforeHook(tx.frames, y, x)
    BY <2>1 DEF InBeforeHook
  <2> QED BY <2>2 DEF ExecutedBefore
<1> HIDE DEF S, f, g, n, tx
<1>4. TotalOrder(S, R) /\ \A x \in S : Below(S, R, x) = {y \in S : y < x}
  <2>1. \A x \in S : <<x, x>> \notin R
    BY <1>2
  <2>2. \A x, y, z \in S : <<x, y>> \in R /\ <<y, z>> \in R => <<x, z>> \in R
    BY <1>2
  <2>3. \A x, y \in S : x = y \/ <<x, y>> \in R \/ <<y, x>> \in R
    BY <1>2
  <2>4. ASSUME NEW x \in S PROVE Below(S, R, x) = {y \in S : y < x}
    BY DEF Below
  <2> QED BY <2>1, <2>2, <2>3, <2>4 DEF TotalOrder
<1> HIDE DEF R
<1>5. ASSUME NEW x \in S
      PROVE  Below(S, R, x) = {y \in S : y < x} /\ Below(S, R, x) = {y \in S : ExecutedBefore(tx.frames, y, x)}
  BY <1>3, <1>4
<1>6. ASSUME NEW k \in 1 .. n PROVE at(k) = low(k)
  <2>1. PICK x \in S : Cardinality(Below(S, R, x)) = k - 1
    BY <1>2, <1>4, RankExists DEF n
  <2>2. \E z \in S : Cardinality({y \in S : ExecutedBefore(tx.frames, y, z)}) = k - 1
    BY <1>5, <2>1
  <2>3. at(k) \in S /\ Cardinality({y \in S : ExecutedBefore(tx.frames, y, at(k))}) = k - 1
    BY <2>2
  <2>4. \E z \in S : Cardinality({y \in S : y < z}) = k - 1
    BY <1>5, <2>1
  <2>5. low(k) \in S /\ Cardinality({y \in S : y < low(k)}) = k - 1
    BY <2>4
  <2> HIDE DEF at, low
  <2>6. Cardinality(Below(S, R, at(k))) = k - 1 /\ Cardinality(Below(S, R, low(k))) = k - 1
    BY <1>5, <2>3, <2>5
  <2> QED BY <1>2, <1>4, <2>3, <2>5, <2>6, RankIsUnique
<1> HIDE DEF at, low
<1>7. f = g
  BY <1>1, <1>6
<1> QED BY <1>7 DEF f, g, tx, S

\* ... each once.
LEMMA ExecutedIs ==
  ASSUME NoBeforeHooks, NEW h \in Histories, NEW i \in DOMAIN h.txs
  PROVE  /\ Executed(h.txs[i]) \in
              [1 .. Cardinality(Persisted(h.txs[i].frames)) -> Persisted(h.txs[i].frames)]
         /\ Executed(h.txs[i]) = InOrder(Persisted(h.txs[i].frames), <)
<1> DEFINE S == Persisted(h.txs[i].frames)
<1>1. S \in SUBSET Int /\ IsFiniteSet(S)
  BY PersistedFinite
<1> HIDE DEF S
<1>2. InOrder(S, <) \in [1 .. Cardinality(S) -> S]
  BY <1>1, InOrderOfInts
<1> QED BY <1>2, ExecutedInOrder DEF S

\* Every position of a flattened sequence is in one of its parts.
LEMMA Located ==
  ASSUME NEW n \in Nat, NEW seqs, NEW off, Offsets(off, seqs, n), NEW p \in 1 .. off[n],
         \A i \in 1 .. n : Len(seqs[i]) \in Nat
  PROVE  \E i \in 1 .. n : p \in off[i - 1] + 1 .. off[i]
<1> SUFFICES ASSUME \A i \in 1 .. n : ~(p \in off[i - 1] + 1 .. off[i]) PROVE FALSE
  OBVIOUS
<1> DEFINE good == {j \in 0 .. n : off[j] < p}
<1>1. \A j \in 0 .. n : off[j] \in Nat
  BY DEF Offsets
<1>2. off[0] = 0 /\ 0 \in 0 .. n /\ n \in 0 .. n /\ 0 \in Int /\ n \in Int
  BY DEF Offsets
<1>3. 0 \in good
  BY <1>2
<1>4. ASSUME NEW j \in 0 .. n - 1, j \in good PROVE j + 1 \in good
  <2>1. j + 1 \in 1 .. n /\ j + 1 \in 0 .. n /\ (j + 1) - 1 = j /\ j \in 0 .. n
    OBVIOUS
  <2>2. ~(p \in off[j] + 1 .. off[j + 1])
    BY <2>1
  <2>3. off[j] < p /\ off[j] \in Nat /\ off[j + 1] \in Nat /\ p \in Nat
    BY <1>1, <1>4, <2>1
  <2>4. off[j + 1] < p
    BY <2>2, <2>3
  <2> QED BY <2>1, <2>4
<1>5. good \in SUBSET (0 .. n)
  OBVIOUS
<1>6. \A j \in 0 .. n : j \in good
  <2> HIDE DEF good
  <2> QED BY <1>2, <1>3, <1>4, <1>5, IntervalInduction
<1>7. off[n] < p
  BY <1>2, <1>6
<1> QED BY <1>1, <1>2, <1>7

\* Offsets grow.
LEMMA OffsetsGrow ==
  ASSUME NEW n \in Nat, NEW seqs, NEW off, Offsets(off, seqs, n),
         \A i \in 1 .. n : Len(seqs[i]) \in Nat, NEW i \in 0 .. n, NEW j \in i .. n
  PROVE  off[i] <= off[j]
<1> DEFINE good == {k \in i .. n : off[i] <= off[k]}
<1>1. \A k \in 0 .. n : off[k] \in Nat
  BY DEF Offsets
<1>2. i \in good /\ i \in Int /\ n \in Int
  <2>1. off[i] \in Nat
    BY <1>1
  <2> QED BY <2>1
<1>3. ASSUME NEW k \in i .. n - 1, k \in good PROVE k + 1 \in good
  <2>1. k + 1 \in 1 .. n /\ k + 1 \in 0 .. n /\ k + 1 \in i .. n /\ (k + 1) - 1 = k /\ k \in 0 .. n
    OBVIOUS
  <2>2. off[k + 1] = off[k] + Len(seqs[k + 1]) /\ Len(seqs[k + 1]) \in Nat
    BY <2>1 DEF Offsets
  <2>3. off[i] \in Nat /\ off[k] \in Nat /\ off[i] <= off[k]
    BY <1>1, <1>3, <2>1
  <2>4. off[i] <= off[k + 1]
    BY <2>2, <2>3
  <2> QED BY <2>1, <2>4
<1>4. good \in SUBSET (i .. n)
  OBVIOUS
<1>5. \A k \in i .. n : k \in good
  <2> HIDE DEF good
  <2> QED BY <1>2, <1>3, <1>4, IntervalInduction
<1> QED BY <1>5

\* The operations of transaction i.
Ops(h, i) == Cardinality(Persisted(h.txs[i].frames))

\* LogsOfHistory, position by position: those of transaction i are the positions
\* after off[i - 1], up to off[i].
LogsAt(L, h, n, off) ==
  /\ off \in [0 .. n -> Nat] /\ off[0] = 0
  /\ \A i \in 1 .. n : off[i] = off[i - 1] + Ops(h, i) /\ off[i] <= off[n]
  /\ \A i \in 0 .. n : \A j \in i .. n : off[i] <= off[j]
  /\ DOMAIN L = 1 .. off[n] /\ Len(L) = off[n]
  /\ \A p \in 1 .. off[n] : \E i \in 1 .. n : p \in off[i - 1] + 1 .. off[i]
  /\ \A i \in 1 .. n : \A p \in off[i - 1] + 1 .. off[i] :
       /\ L[p].tx = i
       /\ L[p].block = h.txs[i].block
       /\ L[p].kind \in {"swap", "modify", "donate"}
       /\ L[p].index = Cardinality({m \in 1 .. p : L[m].block = L[p].block})

\* Each log tells the kind of a call and its fee.
CallsAt(L, h, n, off) ==
  \A i \in 1 .. n : \A k \in 1 .. Ops(h, i) :
    LET frame == h.txs[i].frames[Executed(h.txs[i])[k]]
    IN  L[off[i - 1] + k].kind = frame.op.kind /\ L[off[i - 1] + k].fee = frame.fee

\* The logs of a history are those of its transactions, one after the other.
LEMMA LogsFound ==
  ASSUME NoBeforeHooks, NEW h \in Histories
  PROVE  \E off : LogsAt(LogsOfHistory(h), h, Len(h.txs), off)
                  /\ CallsAt(LogsOfHistory(h), h, Len(h.txs), off)
<1> DEFINE n == Len(h.txs)
           entry(i, k) == [tx |-> i, block |-> h.txs[i].block,
                           kind |-> h.txs[i].frames[Executed(h.txs[i])[k]].op.kind,
                           fee |-> h.txs[i].frames[Executed(h.txs[i])[k]].fee]
           of(i) == [k \in DOMAIN Executed(h.txs[i]) |-> entry(i, k)]
           seqs == [i \in DOMAIN h.txs |-> of(i)]
           all == FlattenSeq(seqs)
           W == {entry(i, k) : i \in 1 .. n, k \in Nat}
           full == [k \in DOMAIN all |->
                      [tx |-> all[k].tx, block |-> all[k].block, kind |-> all[k].kind, fee |-> all[k].fee,
                       index |-> Cardinality({m \in 1..k : all[m].block = all[k].block})]]
<1>1. LogsOfHistory(h) = full
  BY DEF LogsOfHistory
<1>2. n \in Nat /\ DOMAIN h.txs = 1 .. n
  BY HistoryKnown
<1>3. ASSUME NEW i \in 1 .. n
      PROVE  Ops(h, i) \in Nat /\ DOMAIN Executed(h.txs[i]) = 1 .. Ops(h, i)
  BY <1>2, ExecutedIs, PersistedFinite DEF Ops
<1>4. ASSUME NEW i \in 1 .. n
      PROVE  /\ seqs[i] \in Seq(W) /\ Len(seqs[i]) = Ops(h, i)
             /\ \A k \in 1 .. Ops(h, i) : seqs[i][k] = entry(i, k)
  <2>1. seqs[i] = [k \in 1 .. Ops(h, i) |-> entry(i, k)]
    BY <1>2, <1>3
  <2> HIDE DEF seqs, entry
  <2>2. \A k \in 1 .. Ops(h, i) : entry(i, k) \in W
    <3>1. \A k \in 1 .. Ops(h, i) : k \in Nat
      BY <1>3
    <3> QED BY <3>1
  <2> HIDE DEF W
  <2>3. seqs[i] \in [1 .. Ops(h, i) -> W]
    BY <2>1, <2>2
  <2> QED BY <1>3, <2>1, <2>3
<1>5. seqs \in [1 .. n -> Seq(W)]
  <2>1. seqs = [i \in 1 .. n |-> seqs[i]]
    BY <1>2
  <2> HIDE DEF seqs, W
  <2> QED BY <1>4, <2>1
<1>6. ASSUME NEW i \in 1 .. n, NEW k \in 1 .. Ops(h, i)
      PROVE  /\ entry(i, k).tx = i /\ entry(i, k).block = h.txs[i].block
             /\ entry(i, k).kind \in {"swap", "modify", "donate"}
  <2> DEFINE j == Executed(h.txs[i])[k]
  <2>1. j \in DOMAIN h.txs[i].frames
    <3>1. i \in DOMAIN h.txs
      BY <1>2
    <3>2. j \in Persisted(h.txs[i].frames)
      BY <3>1, ExecutedIs DEF Ops
    <3> QED BY <3>1, <3>2, PersistedFinite
  <2> HIDE DEF j
  <2>2. h.txs[i].frames[j].op.kind \in {"swap", "modify", "donate"}
    BY <1>2, <2>1, HistoryKnown
  <2> QED BY <2>2 DEF j
<1>20. ASSUME NEW i, NEW k
       PROVE  /\ entry(i, k).kind = h.txs[i].frames[Executed(h.txs[i])[k]].op.kind
              /\ entry(i, k).fee = h.txs[i].frames[Executed(h.txs[i])[k]].fee
  OBVIOUS
<1> HIDE DEF W, seqs, entry, n
<1>7. PICK off : Holds(all, seqs, n, off)
  BY <1>2, <1>5, Flattened
<1>19. /\ all \in Seq(W) /\ Len(all) = off[n] /\ Offsets(off, seqs, n)
       /\ \A i \in 1 .. n : off[i] <= off[n]
       /\ \A i \in 1 .. n : \A k \in 1 .. Len(seqs[i]) : all[off[i - 1] + k] = seqs[i][k]
  BY <1>2, <1>5, <1>7, Flattened DEF Holds
<1>8. \A i \in 1 .. n : Len(seqs[i]) \in Nat
  BY <1>3, <1>4
<1>9. /\ off \in [0 .. n -> Nat] /\ off[0] = 0
      /\ \A i \in 1 .. n : off[i] = off[i - 1] + Ops(h, i) /\ off[i] <= off[n]
  BY <1>4, <1>19 DEF Offsets
<1>10. \A i \in 0 .. n : \A j \in i .. n : off[i] <= off[j]
  BY <1>2, <1>19, <1>8, OffsetsGrow
<1>11. \A p \in 1 .. off[n] : \E i \in 1 .. n : p \in off[i - 1] + 1 .. off[i]
  BY <1>2, <1>19, <1>8, Located
<1>12. DOMAIN all = 1 .. off[n]
  BY <1>19
<1> HIDE DEF all
<1>13. /\ DOMAIN full = 1 .. off[n]
       /\ \A p \in 1 .. off[n] :
            /\ full[p].tx = all[p].tx /\ full[p].block = all[p].block /\ full[p].kind = all[p].kind
            /\ full[p].fee = all[p].fee
            /\ full[p].index = Cardinality({m \in 1 .. p : all[m].block = all[p].block})
  BY <1>12
<1>16. Len(full) = off[n]
  <2>1. full = [p \in 1 .. off[n] |-> full[p]]
    BY <1>12
  <2>2. off[n] \in Nat
    BY <1>2, <1>9
  <2> HIDE DEF full
  <2> QED BY <2>1, <2>2
<1> HIDE DEF full
<1>14. ASSUME NEW i \in 1 .. n, NEW p \in off[i - 1] + 1 .. off[i]
       PROVE  /\ p \in 1 .. off[n]
              /\ full[p].tx = i /\ full[p].block = h.txs[i].block
              /\ full[p].kind \in {"swap", "modify", "donate"}
              /\ full[p].index = Cardinality({m \in 1 .. p : full[m].block = full[p].block})
  <2> DEFINE k == p - off[i - 1]
  <2>1. off[i - 1] \in Nat /\ off[i] \in Nat /\ off[n] \in Nat /\ Ops(h, i) \in Nat
        /\ off[i] = off[i - 1] + Ops(h, i) /\ off[i] <= off[n]
    BY <1>2, <1>3, <1>9
  <2>2. k \in 1 .. Ops(h, i) /\ off[i - 1] + k = p /\ p \in 1 .. off[n]
    BY <2>1
  <2> HIDE DEF k
  <2>3. all[p] = entry(i, k)
    BY <1>4, <1>19, <2>2
  <2>4. /\ full[p].tx = i /\ full[p].block = h.txs[i].block
        /\ full[p].kind \in {"swap", "modify", "donate"}
    <3>1. /\ entry(i, k).tx = i /\ entry(i, k).block = h.txs[i].block
          /\ entry(i, k).kind \in {"swap", "modify", "donate"}
      BY <1>6, <2>2
    <3>2. full[p].tx = all[p].tx /\ full[p].block = all[p].block /\ full[p].kind = all[p].kind
      BY <1>13, <2>2
    <3> QED BY <2>3, <3>1, <3>2
  <2>5. {m \in 1 .. p : all[m].block = all[p].block} = {m \in 1 .. p : full[m].block = full[p].block}
    <3>1. ASSUME NEW m \in 1 .. p PROVE full[m].block = all[m].block
      <4>1. m \in 1 .. off[n]
        BY <2>1, <2>2
      <4> QED BY <1>13, <4>1
    <3>2. p \in 1 .. p
      BY <2>1, <2>2
    <3> QED BY <3>1, <3>2
  <2> QED BY <1>13, <2>2, <2>4, <2>5
<1>17. \A i \in 1 .. n : \A p \in off[i - 1] + 1 .. off[i] :
         /\ full[p].tx = i
         /\ full[p].block = h.txs[i].block
         /\ full[p].kind \in {"swap", "modify", "donate"}
         /\ full[p].index = Cardinality({m \in 1 .. p : full[m].block = full[p].block})
  BY <1>14
<1>18. DOMAIN full = 1 .. off[n]
  BY <1>13
<1>15. LogsAt(full, h, n, off)
  BY <1>9, <1>10, <1>11, <1>16, <1>17, <1>18, Zenon DEF LogsAt
<1>21. CallsAt(full, h, n, off)
  <2>1. ASSUME NEW i \in 1 .. n, NEW k \in 1 .. Ops(h, i)
        PROVE  /\ full[off[i - 1] + k].kind = h.txs[i].frames[Executed(h.txs[i])[k]].op.kind
               /\ full[off[i - 1] + k].fee = h.txs[i].frames[Executed(h.txs[i])[k]].fee
    <3> DEFINE p == off[i - 1] + k
    <3>1. p \in 1 .. off[n]
      <4>1. off[i - 1] \in Nat /\ off[i] \in Nat /\ off[n] \in Nat /\ Ops(h, i) \in Nat
            /\ off[i] = off[i - 1] + Ops(h, i) /\ off[i] <= off[n]
        BY <1>2, <1>3, <1>9
      <4> QED BY <4>1
    <3>2. all[p] = entry(i, k)
      BY <1>4, <1>19
    <3> HIDE DEF p
    <3>3. full[p].kind = entry(i, k).kind /\ full[p].fee = entry(i, k).fee
      BY <1>13, <3>1, <3>2
    <3> QED BY <1>20, <3>3 DEF p
  <2> QED BY <2>1 DEF CallsAt
<1> QED BY <1>1, <1>15, <1>21 DEF n

\* What the chain's logs are, by position.
LogOrder(h, L) ==
  /\ Len(L) \in Nat /\ DOMAIN L = 1 .. Len(L)
  /\ \A p \in DOMAIN L :
       /\ L[p].tx \in DOMAIN h.txs /\ L[p].block = h.txs[L[p].tx].block
       /\ L[p].block \in Nat /\ L[p].index \in Nat /\ L[p].kind \in {"swap", "modify", "donate"}
  /\ \A p, q \in DOMAIN L : p < q =>
       /\ L[p].tx <= L[q].tx /\ L[p].block <= L[q].block
       /\ L[p].block = L[q].block => L[p].index < L[q].index
  /\ \A i \in DOMAIN h.txs : Cardinality({p \in DOMAIN L : L[p].tx = i}) = Ops(h, i)

\* ... and their blocks and their numbers within a block rise.
LEMMA ChainLogsOrdered ==
  ASSUME NoBeforeHooks, NEW h \in Histories
  PROVE  LogOrder(h, LogsOfHistory(h))
<1> DEFINE L == LogsOfHistory(h)
           n == Len(h.txs)
<1>1. n \in Nat /\ DOMAIN h.txs = 1 .. n
  BY HistoryKnown
<1>2. PICK off : LogsAt(L, h, n, off)
  BY LogsFound
<1>3. /\ off \in [0 .. n -> Nat] /\ off[0] = 0
      /\ \A i \in 1 .. n : off[i] = off[i - 1] + Ops(h, i) /\ off[i] <= off[n]
      /\ \A i \in 0 .. n : \A j \in i .. n : off[i] <= off[j]
      /\ DOMAIN L = 1 .. off[n] /\ Len(L) = off[n]
      /\ \A p \in 1 .. off[n] : \E i \in 1 .. n : p \in off[i - 1] + 1 .. off[i]
      /\ \A i \in 1 .. n : \A p \in off[i - 1] + 1 .. off[i] :
           /\ L[p].tx = i
           /\ L[p].block = h.txs[i].block
           /\ L[p].kind \in {"swap", "modify", "donate"}
           /\ L[p].index = Cardinality({m \in 1 .. p : L[m].block = L[p].block})
  BY <1>2 DEF LogsAt
<1> HIDE DEF L, n
<1>4. /\ \A i \in 1 .. n : Ops(h, i) \in Nat
      /\ \A i \in 1 .. n : h.txs[i].block \in Nat
      /\ \A i, j \in 1 .. n : i <= j => h.txs[i].block <= h.txs[j].block
  BY <1>1, HistoryKnown, PersistedFinite DEF Ops
<1>5. off[n] \in Nat /\ \A i \in 1 .. n : off[i] \in Nat /\ off[i - 1] \in Nat
  <2>1. n \in 0 .. n /\ \A i \in 1 .. n : i \in 0 .. n /\ i - 1 \in 0 .. n
    BY <1>1
  <2>2. \A i \in 0 .. n : off[i] \in Nat
    BY <1>3
  <2> QED BY <2>1, <2>2
<1>6. ASSUME NEW p \in 1 .. off[n]
      PROVE  IsFiniteSet({m \in 1 .. p : L[m].block = L[p].block})
  <2>1. IsFiniteSet(1 .. p) /\ {m \in 1 .. p : L[m].block = L[p].block} \in SUBSET (1 .. p)
    BY <1>5, FS_Interval
  <2> QED BY <2>1, FS_Subset
<1>19. ASSUME NEW p \in 1 .. off[n]
      PROVE  /\ L[p].tx \in 1 .. n /\ L[p].block = h.txs[L[p].tx].block
             /\ L[p].block \in Nat /\ L[p].kind \in {"swap", "modify", "donate"}
             /\ L[p].index = Cardinality({m \in 1 .. p : L[m].block = L[p].block})
             /\ L[p].index \in Nat
             /\ p \in off[L[p].tx - 1] + 1 .. off[L[p].tx]
  <2>1. PICK i \in 1 .. n : p \in off[i - 1] + 1 .. off[i]
    BY <1>3
  <2>2. /\ L[p].tx = i /\ L[p].block = h.txs[i].block /\ L[p].kind \in {"swap", "modify", "donate"}
        /\ L[p].index = Cardinality({m \in 1 .. p : L[m].block = L[p].block})
    BY <1>3, <2>1
  <2>3. L[p].index \in Nat
    BY <1>6, <2>2, FS_CardinalityType
  <2> QED BY <1>4, <2>1, <2>2, <2>3
<1>8. ASSUME NEW p \in 1 .. off[n], NEW q \in 1 .. off[n], p < q
      PROVE  /\ L[p].tx <= L[q].tx /\ L[p].block <= L[q].block
             /\ L[p].block = L[q].block => L[p].index < L[q].index
  <2> DEFINE i == L[p].tx
             j == L[q].tx
  <2>1. /\ i \in 1 .. n /\ p \in off[i - 1] + 1 .. off[i] /\ L[p].block = h.txs[i].block
        /\ j \in 1 .. n /\ q \in off[j - 1] + 1 .. off[j] /\ L[q].block = h.txs[j].block
    BY <1>19
  <2> HIDE DEF i, j
  <2>2. i <= j
    <3> SUFFICES ASSUME ~(i <= j) PROVE FALSE
      OBVIOUS
    <3>1. j \in 0 .. n /\ i - 1 \in j .. n
      BY <1>1, <2>1
    <3>2. off[j] <= off[i - 1]
      BY <1>3, <3>1
    <3>3. off[j] \in Nat /\ off[i - 1] \in Nat
      BY <1>5, <2>1
    <3> QED BY <1>5, <1>8, <2>1, <3>2, <3>3
  <2>3. L[p].block <= L[q].block
    BY <1>4, <2>1, <2>2
  <2>4. ASSUME L[p].block = L[q].block PROVE L[p].index < L[q].index
    <3> DEFINE P == {m \in 1 .. p : L[m].block = L[p].block}
               Q == {m \in 1 .. q : L[m].block = L[q].block}
    <3>1. P \in SUBSET Q /\ q \in Q /\ q \notin P
      BY <1>5, <1>8, <2>4
    <3>2. IsFiniteSet(P) /\ IsFiniteSet(Q) /\ L[p].index = Cardinality(P) /\ L[q].index = Cardinality(Q)
      BY <1>6, <1>19
    <3> HIDE DEF P, Q
    <3>3. P \cup {q} \in SUBSET Q
      BY <3>1
    <3>4. IsFiniteSet(P \cup {q}) /\ Cardinality(P \cup {q}) = Cardinality(P) + 1
      BY <3>1, <3>2, FS_AddElement
    <3>5. Cardinality(P \cup {q}) <= Cardinality(Q)
      BY <3>2, <3>3, FS_Subset
    <3>6. Cardinality(P) \in Nat /\ Cardinality(Q) \in Nat
      BY <3>2, FS_CardinalityType
    <3> QED BY <3>2, <3>4, <3>5, <3>6
  <2> QED BY <2>2, <2>3, <2>4 DEF i, j
<1>9. ASSUME NEW i \in 1 .. n PROVE Cardinality({p \in DOMAIN L : L[p].tx = i}) = Ops(h, i)
  <2> DEFINE a == off[i - 1] + 1
             b == off[i]
  <2>1. a \in Int /\ b \in Int /\ Ops(h, i) \in Nat /\ b - a + 1 = Ops(h, i) /\ 1 <= a /\ b <= off[n]
    <3>1. /\ off[i] = off[i - 1] + Ops(h, i) /\ off[i] <= off[n]
          /\ off[i] \in Nat /\ off[i - 1] \in Nat /\ Ops(h, i) \in Nat
      BY <1>3, <1>4, <1>5
    <3> QED BY <3>1
  <2>2. ASSUME NEW p \in 1 .. off[n] PROVE L[p].tx = i <=> p \in a .. b
    BY <1>3, <1>19
  <2> HIDE DEF a, b
  <2>3. {p \in DOMAIN L : L[p].tx = i} = a .. b
    <3>1. \A p \in a .. b : p \in 1 .. off[n]
      BY <1>5, <2>1
    <3> QED BY <1>3, <2>2, <3>1
  <2>4. Cardinality(a .. b) = IF a > b THEN 0 ELSE b - a + 1
    BY <2>1, FS_Interval
  <2>5. IF a > b THEN 0 = Ops(h, i) ELSE b - a + 1 = Ops(h, i)
    BY <2>1
  <2> QED BY <2>3, <2>4, <2>5
<1> QED BY <1>1, <1>3, <1>5, <1>19, <1>8, <1>9 DEF LogOrder, L

-----------------------------------------------------------------------------
(* The logs received                                                           *)

InRange(block) == Args.start < block /\ block <= Args.end

RangeLogs == {l \in ToSet(ChainLogs[History]) : InRange(l.block)}

\* Of the range, each as the chain has it.
LogsSound == logs \in Seq(RangeLogs)

\* All of the range.
LogsRead == RangeLogs \subseteq ToSet(logs)

InputKnown == History \in Histories /\ Args \in Options

\* What is known of the logs of this chain.
LEMMA ChainLogsKnown ==
  ASSUME NoBeforeHooks, InputKnown
  PROVE  /\ LogOrder(History, ChainLogs[History])
         /\ \A l \in RangeLogs :
              /\ l.tx \in DOMAIN History.txs /\ l.block = History.txs[l.tx].block
              /\ l.block \in Nat /\ l.index \in Nat /\ InRange(l.block)
              /\ \E p \in DOMAIN ChainLogs[History] : ChainLogs[History][p] = l
<1> DEFINE L == ChainLogs[History]
<1>1. History \in Histories
  BY DEF InputKnown
<1>2. L = LogsOfHistory(History)
  BY <1>1 DEF ChainLogs
<1>3. LogOrder(History, L)
  BY <1>1, <1>2, ChainLogsOrdered
<1> HIDE DEF L
<1>4. ASSUME NEW l \in RangeLogs
      PROVE  /\ l.tx \in DOMAIN History.txs /\ l.block = History.txs[l.tx].block
             /\ l.block \in Nat /\ l.index \in Nat /\ InRange(l.block)
             /\ \E p \in DOMAIN L : L[p] = l
  <2>1. PICK p \in DOMAIN L : L[p] = l
    BY DEF RangeLogs, ToSet, L
  <2>2. InRange(l.block)
    BY DEF RangeLogs
  <2> QED BY <1>3, <2>1, <2>2 DEF LogOrder
<1> QED BY <1>3, <1>4 DEF L

\* Sorting loses and invents no log, and puts them in order: scan_transactions.
LEMMA SortedIs ==
  ASSUME NoBeforeHooks, InputKnown, LogsSound
  PROVE  /\ Len(SortedLogs) \in Nat /\ SortedLogs \in Seq(RangeLogs)
         /\ DOMAIN SortedLogs = 1 .. Len(SortedLogs)
         /\ ToSet(SortedLogs) = ToSet(logs)
         /\ \A j, k \in DOMAIN SortedLogs : j < k =>
              \/ SortedLogs[j].block < SortedLogs[k].block
              \/ /\ SortedLogs[j].block = SortedLogs[k].block
                 /\ SortedLogs[j].index <= SortedLogs[k].index
<1> DEFINE D == DOMAIN logs
           n == Cardinality(D)
           R == {p \in D \X D : Sooner(p[1], p[2])}
           f == InOrder(D, Sooner)
           at(i) == CHOOSE x \in D : Cardinality({y \in D : Sooner(y, x)}) = i - 1
<1>1. /\ D = 1 .. Len(logs) /\ Len(logs) \in Nat
      /\ \A k \in D : logs[k] \in RangeLogs
  BY DEF LogsSound
<1>2. \A k \in D : k \in Nat /\ logs[k].block \in Nat /\ logs[k].index \in Nat
  BY <1>1, ChainLogsKnown
<1>3. IsFiniteSet(D) /\ n = Len(logs)
  <2>1. IsFiniteSet(1 .. Len(logs)) /\ Cardinality(1 .. Len(logs)) = Len(logs)
    BY <1>1, FS_Interval
  <2> QED BY <1>1, <2>1
<1>4. f = [i \in 1 .. n |-> at(i)]
  BY DEF InOrder
<1>5. /\ \A x, y \in D : <<x, y>> \in R <=> Sooner(x, y)
  OBVIOUS
<1>6. SortedLogs = [k \in DOMAIN f |-> logs[f[k]]]
  BY DEF SortedLogs
<1> HIDE DEF R, f, D, n
<1>7. TotalOrder(D, R)
  <2>1. \A x \in D : <<x, x>> \notin R
    BY <1>2, <1>5 DEF Sooner
  <2>2. ASSUME NEW x \in D, NEW y \in D, NEW z \in D, <<x, y>> \in R, <<y, z>> \in R
        PROVE  <<x, z>> \in R
    <3>1. Sooner(x, y) /\ Sooner(y, z)
      BY <1>5, <2>2
    <3>2. Sooner(x, z)
      BY <1>2, <3>1 DEF Sooner
    <3> QED BY <1>5, <3>2
  <2>3. ASSUME NEW x \in D, NEW y \in D PROVE x = y \/ <<x, y>> \in R \/ <<y, x>> \in R
    <3>1. x = y \/ Sooner(x, y) \/ Sooner(y, x)
      BY <1>2 DEF Sooner
    <3> QED BY <1>5, <3>1
  <2> QED BY <2>1, <2>2, <2>3 DEF TotalOrder
<1>8. ASSUME NEW x \in D PROVE Below(D, R, x) = {y \in D : Sooner(y, x)}
  BY <1>5 DEF Below
<1>9. ASSUME NEW i \in 1 .. n PROVE at(i) \in D /\ Cardinality(Below(D, R, at(i))) = i - 1
  <2>1. PICK x \in D : Cardinality(Below(D, R, x)) = i - 1
    BY <1>3, <1>7, RankExists DEF n
  <2>2. \E z \in D : Cardinality({y \in D : Sooner(y, z)}) = i - 1
    BY <1>8, <2>1
  <2>3. at(i) \in D /\ Cardinality({y \in D : Sooner(y, at(i))}) = i - 1
    BY <2>2
  <2> HIDE DEF at
  <2> QED BY <1>8, <2>3
<1> HIDE DEF at
<1>10. f = [i \in 1 .. n |-> f[i]] /\ \A i \in 1 .. n : f[i] = at(i)
  BY <1>4
<1>11. Ordered(f, D, R)
  BY <1>3, <1>7, <1>9, <1>10, RanksOrder DEF n
<1>12. /\ n \in Nat /\ f \in [1 .. n -> D] /\ \A x \in D : \E i \in 1 .. n : f[i] = x
       /\ \A i, j \in 1 .. n : i < j <=> <<f[i], f[j]>> \in R
  BY <1>11 DEF Ordered, n
<1>13. SortedLogs = [k \in 1 .. n |-> logs[f[k]]] /\ \A k \in 1 .. n : f[k] \in D
  BY <1>6, <1>12
<1>14. SortedLogs \in Seq(RangeLogs) /\ Len(SortedLogs) = n /\ DOMAIN SortedLogs = 1 .. n
       /\ \A k \in 1 .. n : SortedLogs[k] = logs[f[k]]
  BY <1>1, <1>12, <1>13
<1>15. ToSet(SortedLogs) = ToSet(logs)
  <2>1. ToSet(SortedLogs) = {logs[f[k]] : k \in 1 .. n}
    BY <1>14 DEF ToSet
  <2>2. ToSet(logs) = {logs[x] : x \in D}
    BY DEF ToSet, D
  <2> QED BY <1>12, <1>13, <2>1, <2>2
<1>16. ASSUME NEW j \in 1 .. n, NEW k \in 1 .. n, j < k
       PROVE  \/ SortedLogs[j].block < SortedLogs[k].block
              \/ /\ SortedLogs[j].block = SortedLogs[k].block
                 /\ SortedLogs[j].index <= SortedLogs[k].index
  <2> DEFINE x == f[j]
             y == f[k]
  <2>1. x \in D /\ y \in D /\ Sooner(x, y)
    BY <1>5, <1>12, <1>16
  <2>2. SortedLogs[j] = logs[x] /\ SortedLogs[k] = logs[y]
    BY <1>14
  <2> HIDE DEF x, y
  <2>3. \/ logs[x].block < logs[y].block
        \/ logs[x].block = logs[y].block /\ logs[x].index <= logs[y].index
    BY <1>2, <2>1 DEF Sooner
  <2> QED BY <2>2, <2>3
<1> QED BY <1>12, <1>14, <1>15, <1>16

\* The logs of a transaction.
LEMMA LogsOfIs ==
  ASSUME NoBeforeHooks, InputKnown, LogsSound, NEW tx
  PROVE  /\ Len(LogsOf(tx)) \in Nat
         /\ Len(LogsOf(tx)) = Cardinality({k \in DOMAIN SortedLogs : SortedLogs[k].tx = tx})
         /\ IsFiniteSet({k \in DOMAIN SortedLogs : SortedLogs[k].tx = tx})
         /\ \A k \in 1 .. Len(LogsOf(tx)) : LogsOf(tx)[k] \in RangeLogs /\ LogsOf(tx)[k].tx = tx
<1> DEFINE S == SortedLogs
           places == {k \in DOMAIN S : S[k].tx = tx}
           n == Cardinality(places)
<1>1. S \in Seq(RangeLogs) /\ DOMAIN S = 1 .. Len(S)
  BY SortedIs
<1>2. LogsOf(tx) = Kept(S, places)
  BY DEF LogsOf
<1> HIDE DEF S
<1>3. places \in SUBSET (1 .. Len(S)) /\ \A k \in places : S[k] \in RangeLogs /\ S[k].tx = tx
  BY <1>1
<1> HIDE DEF places
<1>kept. PICK order : KeptInOrder(order, S, places)
  BY <1>1, <1>3, KeptIs
<1>4. /\ n \in Nat /\ IsFiniteSet(places) /\ order \in [1 .. n -> places]
      /\ Kept(S, places) = [i \in 1 .. n |-> S[order[i]]]
  BY <1>kept DEF KeptInOrder
<1> HIDE DEF n
<1>5. Len(LogsOf(tx)) = n /\ \A k \in 1 .. n : LogsOf(tx)[k] = S[order[k]] /\ order[k] \in places
  BY <1>2, <1>4
<1> QED BY <1>3, <1>4, <1>5 DEF n, S, places

\* Whoever has all logs has as many of a transaction as it has operations, or more.
LEMMA LogsCount ==
  ASSUME NoBeforeHooks, InputKnown, LogsSound, LogsRead,
         NEW tx \in DOMAIN History.txs, InRange(History.txs[tx].block)
  PROVE  Ops(History, tx) <= Len(LogsOf(tx))
<1> DEFINE L == ChainLogs[History]
           S == SortedLogs
           P == {p \in DOMAIN L : L[p].tx = tx}
           Q == {k \in DOMAIN S : S[k].tx = tx}
           C == {l \in ToSet(L) : l.tx = tx}
           ofP == [p \in P |-> L[p]]
           ofQ == [k \in Q |-> S[k]]
<1>1. LogOrder(History, L)
  BY ChainLogsKnown
<1>2. S \in Seq(RangeLogs) /\ ToSet(S) = ToSet(logs) /\ DOMAIN S = 1 .. Len(S)
  BY SortedIs
<1>3. Cardinality(P) = Ops(History, tx) /\ Len(L) \in Nat /\ DOMAIN L = 1 .. Len(L)
  BY <1>1 DEF LogOrder
<1>4. IsFiniteSet(Q) /\ Len(LogsOf(tx)) = Cardinality(Q)
  BY LogsOfIs
<1>5. RangeLogs \subseteq ToSet(L) /\ \A l \in C : l \in RangeLogs
  <2>1. \A l \in C : l.block = History.txs[tx].block
    <3>1. ASSUME NEW l \in C PROVE l.block = History.txs[tx].block
      <4>1. PICK p \in DOMAIN L : L[p] = l
        BY DEF ToSet
      <4> QED BY <1>1, <4>1 DEF LogOrder
    <3> QED BY <3>1
  <2> QED BY <2>1 DEF RangeLogs
<1>6. ToSet(L) = {L[p] : p \in DOMAIN L} /\ ToSet(S) = {S[k] : k \in DOMAIN S}
  BY DEF ToSet
<1> HIDE DEF L, S
<1>7. ofP \in Surjection(P, C) /\ ofP \in Injection(P, C)
  <2>1. ofP \in [P -> C]
    BY <1>6
  <2>2. \A l \in C : \E p \in P : ofP[p] = l
    BY <1>6
  <2>3. ASSUME NEW p \in P, NEW q \in P, ofP[p] = ofP[q] PROVE p = q
    <3>1. L[p] = L[q] /\ p \in DOMAIN L /\ q \in DOMAIN L /\ p \in Nat /\ q \in Nat
      BY <1>3, <2>3
    <3>2. L[p].index \in Nat /\ ~(L[p].index < L[p].index)
      BY <1>1, <3>1 DEF LogOrder
    <3>3. ~(p < q) /\ ~(q < p)
      BY <1>1, <3>1, <3>2 DEF LogOrder
    <3> QED BY <3>1, <3>3
  <2> HIDE DEF ofP, P, C
  <2> QED BY <2>1, <2>2, <2>3 DEF Surjection, Injection, IsInjective
<1>8. IsFiniteSet(P)
  <2>1. IsFiniteSet(1 .. Len(L)) /\ P \in SUBSET (1 .. Len(L))
    BY <1>3, FS_Interval
  <2> QED BY <2>1, FS_Subset
<1>9. Cardinality(C) = Cardinality(P)
  <2> HIDE DEF ofP, P, C
  <2> QED BY <1>7, <1>8, FS_Surjection
<1>10. ofQ \in Surjection(Q, C)
  <2>1. \A k \in Q : S[k] \in RangeLogs /\ S[k].tx = tx
    BY <1>2
  <2>2. ofQ \in [Q -> C]
    BY <1>5, <2>1
  <2>3. \A l \in C : \E k \in Q : ofQ[k] = l
    <3>1. ASSUME NEW l \in C PROVE \E k \in Q : ofQ[k] = l
      <4>1. l \in ToSet(S)
        BY <1>2, <1>5 DEF LogsRead
      <4>2. PICK k \in DOMAIN S : S[k] = l
        BY <1>6, <4>1
      <4>3. k \in Q
        BY <4>2
      <4> QED BY <4>2, <4>3
    <3> QED BY <3>1
  <2> HIDE DEF ofQ, Q, C
  <2> QED BY <2>2, <2>3 DEF Surjection
<1>11. Cardinality(C) <= Cardinality(Q)
  <2> HIDE DEF ofQ, Q, C
  <2> QED BY <1>4, <1>10, FS_Surjection
<1> QED BY <1>3, <1>4, <1>9, <1>11

-----------------------------------------------------------------------------
(* The chunks of the range                                                     *)

\* Every block of the range is in a chunk, and no chunk goes beyond it.
LEMMA ChunksCover ==
  ASSUME NEW from \in Nat, NEW to \in Nat, NEW size \in Nat, from <= to
  PROVE  LET chunks == BlockChunks(from, to, size)
         IN  /\ Len(chunks) \in Nat /\ DOMAIN chunks = 1 .. Len(chunks)
             /\ \A i \in DOMAIN chunks : /\ chunks[i].from \in Int /\ chunks[i].to \in Int
                                         /\ from <= chunks[i].from /\ chunks[i].to <= to
             /\ \A b \in from .. to : \E i \in DOMAIN chunks : chunks[i].from <= b /\ b <= chunks[i].to
<1> DEFINE s == Max({size, 1})
           n == (to - from) \div s + 1
           low(i) == from + (i - 1) * s
           high(i) == from + i * s - 1
           chunks == BlockChunks(from, to, size)
<1>1. s \in Nat \ {0}
  <2>1. s = IF size <= 1 THEN 1 ELSE size
    <3>1. 1 \in Int /\ size \in Int
      OBVIOUS
    <3> QED BY <3>1, Extremes
  <2> HIDE DEF s
  <2> QED BY <2>1
<1>2. chunks = [i \in 1 .. n |-> [from |-> low(i), to |-> Min({to, high(i)})]]
  <2>1. ~(from > to)
    OBVIOUS
  <2> QED BY <2>1 DEF BlockChunks
<1> HIDE DEF s, chunks
<1>3. (to - from) \div s \in Nat /\ n \in Nat
  <2>1. to - from \in Int /\ s * 0 <= to - from
    BY <1>1
  <2>2. (to - from) \div s \in Int /\ 0 <= (to - from) \div s
    BY <1>1, <2>1, DivLower
  <2> QED BY <2>2
<1>4. ASSUME NEW i \in 1 .. n
      PROVE  /\ low(i) \in Int /\ high(i) \in Int /\ from <= low(i)
             /\ Min({to, high(i)}) \in Int /\ Min({to, high(i)}) <= to
             /\ \A b \in Int : b <= to /\ b <= high(i) => b <= Min({to, high(i)})
  <2>1. (i - 1) * s \in Nat /\ i * s \in Nat
    BY <1>1, <1>3, Product
  <2>2. low(i) \in Int /\ high(i) \in Int /\ from <= low(i)
    BY <2>1
  <2> HIDE DEF high
  <2> DEFINE h == high(i)
  <2>4. h \in Int /\ to \in Int
    BY <2>2
  <2> HIDE DEF h
  <2>3. Min({to, h}) = IF to <= h THEN to ELSE h
    BY <2>4, Extremes
  <2>5. /\ Min({to, h}) \in Int /\ Min({to, h}) <= to
        /\ \A b \in Int : b <= to /\ b <= h => b <= Min({to, h})
    BY <2>3, <2>4
  <2> QED BY <2>2, <2>5 DEF h
<1>5. Len(chunks) = n /\ DOMAIN chunks = 1 .. n
  <2> HIDE DEF n, low, high
  <2> QED BY <1>2, <1>3
<1>6. ASSUME NEW b \in from .. to
      PROVE  \E i \in 1 .. n : low(i) <= b /\ b <= high(i)
  <2> DEFINE d == b - from
             q == d \div s
             r == d % s
  <2>1. d \in Nat /\ d <= to - from /\ to - from \in Int
    OBVIOUS
  <2>2. d = s * q + r /\ r \in 0 .. s - 1
    BY <1>1, <2>1, Remainder
  <2>3. q \in Int /\ 0 <= q /\ s * q <= d
    <3>1. s * 0 <= d
      BY <1>1, <2>1
    <3>2. q \in Int /\ 0 <= q
      BY <1>1, <2>1, <3>1, DivLower
    <3>3. s * q <= d
      BY <1>1, <2>1, DivFloor
    <3> QED BY <3>2, <3>3
  <2>4. b = from + d
    OBVIOUS
  <2> HIDE DEF d, q, r
  <2>5. q <= (to - from) \div s
    <3>1. s * q \in Int /\ s * q <= to - from
      BY <1>1, <2>1, <2>3
    <3> QED BY <1>1, <2>1, <2>3, <3>1, RoundsDown
  <2>6. q + 1 \in 1 .. n
    BY <1>3, <2>3, <2>5
  <2>7. (q + 1) - 1 = q /\ q * s = s * q /\ (q + 1) * s = s * q + s /\ s * q \in Int
    BY <1>1, <2>3
  <2>8. low(q + 1) = from + s * q
    BY <2>7
  <2>9. high(q + 1) = from + (s * q + s - 1)
    BY <1>1, <2>7
  <2> HIDE DEF low, high, n
  <2>10. low(q + 1) <= b
    <3>1. from + s * q <= b
      BY <2>1, <2>3, <2>4, <2>7
    <3> QED BY <2>8, <3>1
  <2>11. b <= high(q + 1)
    <3>1. b <= from + (s * q + s - 1)
      BY <1>1, <2>1, <2>2, <2>4, <2>7
    <3> QED BY <2>9, <3>1
  <2> QED BY <2>6, <2>10, <2>11
<1> HIDE DEF n, low, high
<1>7. \A i \in 1 .. n : chunks[i].from = low(i) /\ chunks[i].to = Min({to, high(i)})
  BY <1>2
<1>8. ASSUME NEW b \in from .. to
      PROVE  \E i \in 1 .. n : chunks[i].from <= b /\ b <= chunks[i].to
  <2>1. PICK i \in 1 .. n : low(i) <= b /\ b <= high(i)
    BY <1>6
  <2>2. b \in Int /\ b <= to
    OBVIOUS
  <2>3. b <= Min({to, high(i)})
    BY <1>4, <2>1, <2>2
  <2> QED BY <1>7, <2>1, <2>3
<1>9. \A i \in 1 .. n : /\ chunks[i].from \in Int /\ chunks[i].to \in Int
                        /\ from <= chunks[i].from /\ chunks[i].to <= to
  BY <1>4, <1>7
<1> QED BY <1>3, <1>5, <1>8, <1>9 DEF chunks

\* Everything of the parts is in the whole.
LEMMA FlattenedHas ==
  ASSUME NEW W, NEW n \in Nat, NEW seqs \in [1 .. n -> Seq(W)],
         NEW i \in 1 .. n, NEW k \in 1 .. Len(seqs[i])
  PROVE  seqs[i][k] \in ToSet(FlattenSeq(seqs))
<1> DEFINE all == FlattenSeq(seqs)
<1>1. PICK off : Holds(all, seqs, n, off)
  BY Flattened
<1>2. all \in Seq(W)
  BY Flattened
<1> HIDE DEF all
<1>3. /\ off \in [0 .. n -> Nat] /\ off[i] = off[i - 1] + Len(seqs[i]) /\ off[i] <= off[n]
      /\ Len(all) = off[n] /\ all[off[i - 1] + k] = seqs[i][k]
  BY <1>1 DEF Holds, Offsets
<1>4. off[i - 1] \in Nat /\ off[i] \in Nat /\ off[n] \in Nat /\ Len(seqs[i]) \in Nat
  <2>1. i \in 0 .. n /\ i - 1 \in 0 .. n /\ n \in 0 .. n
    OBVIOUS
  <2> QED BY <1>3, <2>1
<1>5. off[i - 1] + k \in 1 .. Len(all)
  BY <1>3, <1>4
<1>6. off[i - 1] + k \in DOMAIN all
  BY <1>2, <1>5
<1> QED BY <1>3, <1>6 DEF ToSet, all

\* What a request for a chunk answers.
LEMMA ChunkAnswers ==
  ASSUME NoBeforeHooks, InputKnown, NEW chunk, NEW lost,
         chunk.from \in Int, chunk.to \in Int,
         Args.start + 1 <= chunk.from, chunk.to <= Args.end
  PROVE  /\ ChunkLogs(chunk, lost) \in Seq(RangeLogs)
         /\ lost = {} => \A l \in RangeLogs : chunk.from <= l.block /\ l.block <= chunk.to
                            => l \in ToSet(ChunkLogs(chunk, lost))
<1> DEFINE all == ChainLogs[History]
           places(kind) == {k \in DOMAIN all : /\ all[k].kind = kind
                                               /\ chunk.from <= all[k].block
                                               /\ all[k].block <= chunk.to}
           of(kind) == Kept(all, places(kind))
           n == Len(Kinds)
           seqs == [k \in DOMAIN Kinds |-> IF Kinds[k] \in lost THEN <<>> ELSE of(Kinds[k])]
<1>1. ChunkLogs(chunk, lost) = FlattenSeq(seqs)
  BY DEF ChunkLogs
<1>2. LogOrder(History, all)
  BY ChainLogsKnown
<1>3. /\ Len(all) \in Nat
      /\ DOMAIN all = 1 .. Len(all)
      /\ \A p \in DOMAIN all : all[p].block \in Nat
      /\ \A p \in DOMAIN all : all[p].kind \in {"swap", "modify", "donate"}
  BY <1>2 DEF LogOrder
<1>4. n \in Nat /\ DOMAIN Kinds = 1 .. n
      /\ \A kind \in {"swap", "modify", "donate"} : \E k \in 1 .. n : Kinds[k] = kind
  BY DEF Kinds
<1>5. Args.start \in Nat /\ Args.end \in Nat
  BY ReplayAssumption DEF InputKnown
<1>6. all \in Seq(ToSet(all))
  <2>1. \A p \in DOMAIN all : all[p] \in ToSet(all)
    BY DEF ToSet
  <2>2. all = [p \in 1 .. Len(all) |-> all[p]]
    <3>1. all = LogsOfHistory(History)
      BY DEF ChainLogs, InputKnown
    <3>2. LogsOfHistory(History) = [p \in DOMAIN LogsOfHistory(History) |-> LogsOfHistory(History)[p]]
      BY DEF LogsOfHistory
    <3> QED BY <1>3, <3>1, <3>2
  <2> HIDE DEF all
  <2> QED BY <1>3, <2>1, <2>2
<1>7. \A p \in DOMAIN all : InRange(all[p].block) => all[p] \in RangeLogs
  BY DEF RangeLogs, ToSet
<1>8. \A l \in RangeLogs : \E p \in DOMAIN all : all[p] = l
  BY DEF RangeLogs, ToSet
<1> HIDE DEF all, n
<1>9. ASSUME NEW kind
      PROVE  /\ of(kind) \in Seq(RangeLogs)
             /\ \A p \in places(kind) : \E k \in 1 .. Len(of(kind)) : of(kind)[k] = all[p]
  <2> DEFINE S == places(kind)
             m == Cardinality(S)
  <2>1. S \in SUBSET (1 .. Len(all))
    BY <1>3
  <2>2. \A p \in S : all[p] \in RangeLogs
    <3>1. ASSUME NEW p \in S PROVE InRange(all[p].block)
      <4>1. all[p].block \in Nat /\ chunk.from <= all[p].block /\ all[p].block <= chunk.to
        BY <1>3
      <4> QED BY <1>5, <4>1 DEF InRange
    <3> QED BY <1>7, <3>1
  <2> HIDE DEF S
  <2>kept. PICK order : KeptInOrder(order, all, S)
    BY <1>6, <2>1, KeptIs
  <2>3. /\ m \in Nat /\ order \in [1 .. m -> S]
        /\ Kept(all, S) = [i \in 1 .. m |-> all[order[i]]]
        /\ \A k \in S : \E i \in 1 .. m : order[i] = k
    BY <2>kept DEF KeptInOrder
  <2> HIDE DEF m
  <2>4. Kept(all, S) \in Seq(RangeLogs) /\ Len(Kept(all, S)) = m
    BY <2>2, <2>3
  <2>5. ASSUME NEW p \in S PROVE \E k \in 1 .. Len(Kept(all, S)) : Kept(all, S)[k] = all[p]
    BY <2>3, <2>4
  <2> QED BY <2>4, <2>5 DEF S
<1> HIDE DEF of, places
<1>10. seqs \in [1 .. n -> Seq(RangeLogs)]
  <2>1. \A k \in 1 .. n : (IF Kinds[k] \in lost THEN <<>> ELSE of(Kinds[k])) \in Seq(RangeLogs)
    <3>1. <<>> \in Seq(RangeLogs)
      OBVIOUS
    <3> QED BY <1>9, <3>1
  <2> QED BY <1>4, <2>1
<1>11. lost = {} => \A k \in 1 .. n : seqs[k] = of(Kinds[k])
  BY <1>4
<1> HIDE DEF seqs
<1>12. ChunkLogs(chunk, lost) \in Seq(RangeLogs)
  BY <1>1, <1>4, <1>10, Flattened
<1>13. ASSUME lost = {}, NEW l \in RangeLogs, chunk.from <= l.block, l.block <= chunk.to
       PROVE  l \in ToSet(ChunkLogs(chunk, lost))
  <2>1. PICK p \in DOMAIN all : all[p] = l
    BY <1>8
  <2>2. PICK k \in 1 .. n : Kinds[k] = l.kind
    BY <1>3, <1>4, <2>1
  <2>3. p \in places(Kinds[k])
    BY <1>13, <2>1, <2>2 DEF places
  <2>4. PICK i \in 1 .. Len(of(Kinds[k])) : of(Kinds[k])[i] = all[p]
    BY <1>9, <2>3
  <2>5. i \in 1 .. Len(seqs[k]) /\ seqs[k][i] = l
    BY <1>11, <1>13, <2>1, <2>4
  <2>6. l \in ToSet(FlattenSeq(seqs))
    BY <1>4, <1>10, <2>5, FlattenedHas
  <2> QED BY <1>1, <2>6
<1> QED BY <1>12, <1>13

-----------------------------------------------------------------------------
(* The transactions, as their first log comes                                  *)

\* The transactions that logs received name.
Seen == {tx \in DOMAIN History.txs : \E l \in ToSet(logs) : l.tx = tx}

\* Which of them are seen first.
BySeen == {p \in Seen \X Seen : FirstLog(p[1]) < FirstLog(p[2])}

\* A transaction that logs name has a first log.
LEMMA FirstLogIs ==
  ASSUME NoBeforeHooks, InputKnown, LogsSound, NEW tx \in Seen
  PROVE  /\ FirstLog(tx) \in DOMAIN SortedLogs /\ FirstLog(tx) \in Nat
         /\ SortedLogs[FirstLog(tx)].tx = tx
<1> DEFINE S == {k \in DOMAIN SortedLogs : SortedLogs[k].tx = tx}
<1>1. /\ DOMAIN SortedLogs = 1 .. Len(SortedLogs) /\ Len(SortedLogs) \in Nat
      /\ ToSet(SortedLogs) = ToSet(logs)
  BY SortedIs
<1>2. S \in SUBSET Nat
  BY <1>1
<1>3. S # {}
  <2>1. PICK l \in ToSet(logs) : l.tx = tx
    BY DEF Seen
  <2>2. PICK k \in DOMAIN SortedLogs : SortedLogs[k] = l
    BY <1>1, <2>1 DEF ToSet
  <2> QED BY <2>1, <2>2
<1>4. FirstLog(tx) = Min(S)
  BY DEF FirstLog
<1> HIDE DEF S
<1>5. PICK m \in S : \A k \in S : m <= k
  BY <1>2, <1>3, LeastNatural
<1>6. Min(S) \in S
  BY <1>5 DEF Min
<1>7. FirstLog(tx) \in S
  BY <1>4, <1>6
<1> QED BY <1>2, <1>7 DEF S

\* The transactions are listed in the order of their first logs, each once.
LEMMA TxOrderIs ==
  ASSUME NoBeforeHooks, InputKnown, LogsSound
  PROVE  /\ IsFiniteSet(Seen) /\ TotalOrder(Seen, BySeen) /\ Ordered(TxOrder, Seen, BySeen)
         /\ Len(TxOrder) = Cardinality(Seen) /\ Len(TxOrder) \in Nat
         /\ TxOrder \in [1 .. Len(TxOrder) -> Seen]
<1> DEFINE n == Cardinality(Seen)
           f == TxOrder
           at(i) == CHOOSE x \in Seen : Cardinality({y \in Seen : FirstLog(y) < FirstLog(x)}) = i - 1
<1>1. IsFiniteSet(Seen)
  <2>1. IsFiniteSet(DOMAIN History.txs)
    BY HistoryKnown DEF InputKnown
  <2>2. Seen \in SUBSET DOMAIN History.txs
    BY DEF Seen
  <2> QED BY <2>1, <2>2, FS_Subset
<1>2. f = [i \in 1 .. n |-> at(i)]
  BY DEF TxOrder, InOrder, Seen
<1>3. \A x \in Seen : FirstLog(x) \in Nat /\ SortedLogs[FirstLog(x)].tx = x
  BY FirstLogIs
<1>4. \A x, y \in Seen : <<x, y>> \in BySeen <=> FirstLog(x) < FirstLog(y)
  BY DEF BySeen
<1> HIDE DEF f, n
<1>5. TotalOrder(Seen, BySeen)
  <2>1. \A x \in Seen : <<x, x>> \notin BySeen
    BY <1>3, <1>4
  <2>2. \A x, y, z \in Seen : <<x, y>> \in BySeen /\ <<y, z>> \in BySeen => <<x, z>> \in BySeen
    BY <1>3, <1>4
  <2>3. ASSUME NEW x \in Seen, NEW y \in Seen
        PROVE  x = y \/ <<x, y>> \in BySeen \/ <<y, x>> \in BySeen
    <3>1. FirstLog(x) = FirstLog(y) => x = y
      BY <1>3
    <3>2. FirstLog(x) = FirstLog(y) \/ FirstLog(x) < FirstLog(y) \/ FirstLog(y) < FirstLog(x)
      BY <1>3
    <3> QED BY <1>4, <3>1, <3>2
  <2> QED BY <2>1, <2>2, <2>3 DEF TotalOrder
<1>6. ASSUME NEW x \in Seen PROVE Below(Seen, BySeen, x) = {y \in Seen : FirstLog(y) < FirstLog(x)}
  BY <1>4 DEF Below
<1>7. ASSUME NEW i \in 1 .. n PROVE at(i) \in Seen /\ Cardinality(Below(Seen, BySeen, at(i))) = i - 1
  <2>1. PICK x \in Seen : Cardinality(Below(Seen, BySeen, x)) = i - 1
    BY <1>1, <1>5, RankExists DEF n
  <2>2. \E z \in Seen : Cardinality({y \in Seen : FirstLog(y) < FirstLog(z)}) = i - 1
    BY <1>6, <2>1
  <2>3. at(i) \in Seen /\ Cardinality({y \in Seen : FirstLog(y) < FirstLog(at(i))}) = i - 1
    BY <2>2
  <2> HIDE DEF at
  <2> QED BY <1>6, <2>3
<1> HIDE DEF at
<1>8. f = [i \in 1 .. n |-> f[i]] /\ \A i \in 1 .. n : f[i] = at(i)
  BY <1>2
<1>9. Ordered(f, Seen, BySeen)
  BY <1>1, <1>5, <1>7, <1>8, RanksOrder DEF n
<1>10. n \in Nat /\ f \in [1 .. n -> Seen]
  BY <1>9 DEF Ordered, n
<1>11. Len(f) = n
  BY <1>10
<1> QED BY <1>1, <1>5, <1>9, <1>10, <1>11 DEF f, n

-----------------------------------------------------------------------------
(* The logs are gathered                                                       *)

\* Of the chunks asked for, those that are no longer running have been answered.
LogsInv ==
  /\ InputKnown /\ LogsSound
  /\ DOMAIN fetch = {"total", "limit", "next", "running"}
  /\ phase \in {"logs", "traces", "replay", "written"} => Args.start < Args.end
  /\ phase = "logs" =>
       /\ fetch.total = Len(LogChunks)
       /\ fetch.next \in Nat \ {0}
       /\ fetch.running \in SUBSET (1 .. fetch.next - 1)
       /\ fetch.next <= fetch.total + 1
       /\ "logs" \notin faults =>
            \A i \in 1 .. fetch.next - 1 : i \notin fetch.running =>
              \A l \in RangeLogs : LogChunks[i].from <= l.block /\ l.block <= LogChunks[i].to
                                     => l \in ToSet(logs)
  /\ phase \in {"traces", "replay", "written"} /\ "logs" \notin faults => LogsRead
  /\ phase \in {"traces", "replay", "written"} =>
       scan = [order |-> SubSeq(TxOrder, 1, Min({Len(TxOrder), Args.maxTransactions})),
               checkpoints |-> CheckpointTxs(TxOrder)]

\* At first there are no logs.
LEMMA InitLogs == ASSUME Init PROVE LogsInv
<1>1. /\ input \in [history : Histories, options : Options] /\ phase = "start" /\ logs = <<>>
      /\ fetch = [total |-> 0, limit |-> 1, next |-> 1, running |-> {}]
  BY DEF Init
<1>2. InputKnown
  BY <1>1 DEF InputKnown, History, Args
<1>3. LogsSound
  BY <1>1 DEF LogsSound
<1> QED BY <1>1, <1>2, <1>3 DEF LogsInv

\* What the facts about the logs depend on.
LEMMA SameLogs ==
  ASSUME input' = input, logs' = logs
  PROVE  /\ InputKnown' = InputKnown /\ LogsSound' = LogsSound /\ LogsRead' = LogsRead
         /\ RangeLogs' = RangeLogs /\ LogChunks' = LogChunks /\ TxOrder' = TxOrder
         /\ CheckpointTxs(TxOrder)' = CheckpointTxs(TxOrder) /\ SortedLogs' = SortedLogs
         /\ Seen' = Seen /\ Args' = Args /\ History' = History
<1>1. Args' = Args /\ History' = History
  BY DEF Args, History
<1>2. SortedLogs' = SortedLogs
  BY DEF SortedLogs, Sooner, InOrder
<1>3. RangeLogs' = RangeLogs
  BY <1>1 DEF RangeLogs, InRange
<1>4. InputKnown' = InputKnown /\ LogsSound' = LogsSound /\ LogsRead' = LogsRead /\ LogChunks' = LogChunks
      /\ Seen' = Seen
  BY <1>1, <1>3 DEF InputKnown, LogsSound, LogsRead, LogChunks, Seen
<1>5. TxOrder' = TxOrder
  BY <1>1, <1>2 DEF TxOrder, FirstLog, InOrder
<1>6. CheckpointTxs(TxOrder)' = CheckpointTxs(TxOrder)
  BY <1>2, <1>5 DEF CheckpointTxs, LogsOf
<1> QED BY <1>1, <1>2, <1>3, <1>4, <1>5, <1>6

\* A step that leaves the logs and the streams alone.
LEMMA QuietLogs ==
  ASSUME LogsInv, input' = input, logs' = logs, scan' = scan,
         \/ phase' = phase /\ fetch' = fetch
         \/ phase' = "failed" /\ DOMAIN fetch' = DOMAIN fetch
         \/ phase' \in {"traces", "replay", "written"} /\ phase \in {"traces", "replay", "written"}
            /\ DOMAIN fetch' = DOMAIN fetch,
         "logs" \in faults => "logs" \in faults'
  PROVE  LogsInv'
BY SameLogs DEF LogsInv

\* Nothing is fetched before the stream of chunks begins.
LEMMA LoadLogs == ASSUME LogsInv, LoadInitialPool PROVE LogsInv'
<1>1. CASE ~Loadable
  <2>1. /\ phase' = "failed" /\ fetch' = [fetch EXCEPT !.running = {}]
        /\ UNCHANGED <<input, logs, scan, faults>>
    BY <1>1, LoadSplit DEF Abort, Drops
  <2>2. DOMAIN fetch' = DOMAIN fetch
    BY <2>1
  <2> QED BY <2>1, <2>2, QuietLogs
<1>2. CASE Loadable
  <2>1. /\ phase' = "logs" /\ fetch' = Stream(Len(LogChunks), Args.logConcurrency)
        /\ UNCHANGED <<input, logs, scan, faults>> /\ Args.start < Args.end
    BY <1>2, LoadSplit DEF Loadable, Supported
  <2> DEFINE limit == BoundedConcurrency(Args.logConcurrency, Len(LogChunks))
  <2>2. fetch' = [total |-> Len(LogChunks), limit |-> limit, next |-> 1, running |-> {}]
    BY <2>1 DEF Stream
  <2> HIDE DEF limit
  <2>3. Len(LogChunks) \in Nat
    <3>1. Args.start \in Nat /\ Args.end \in Nat /\ Args.chunkSize \in Nat
      BY ReplayAssumption DEF LogsInv, InputKnown
    <3>2. Args.start + 1 \in Nat /\ Args.start + 1 <= Args.end
      BY <2>1, <3>1
    <3> QED BY <3>1, <3>2, ChunksCover DEF LogChunks
  <2>4. /\ DOMAIN fetch' = {"total", "limit", "next", "running"}
        /\ fetch'.total = Len(LogChunks) /\ fetch'.next = 1 /\ fetch'.running = {}
    BY <2>2
  <2> QED BY <2>1, <2>3, <2>4, SameLogs DEF LogsInv
<1> QED BY <1>1, <1>2

\* A request that begins is running.
LEMMA StartLogs == ASSUME LogsInv, StartRequest PROVE LogsInv'
<1> DEFINE k == fetch.next
<1>1. /\ phase \in {"logs", "traces"} /\ fetch.next <= fetch.total
      /\ fetch' = [fetch EXCEPT !.next = k + 1, !.running = fetch.running \cup {k}]
      /\ UNCHANGED <<input, phase, logs, scan, faults>>
  BY DEF StartRequest
<1> HIDE DEF k
<1>2. /\ DOMAIN fetch' = DOMAIN fetch /\ fetch'.total = fetch.total /\ fetch'.next = k + 1
      /\ fetch'.running = fetch.running \cup {k}
  BY <1>1 DEF LogsInv
<1>3. CASE phase = "traces"
  BY <1>1, <1>2, <1>3, SameLogs DEF LogsInv
<1>4. CASE phase = "logs"
  <2>1. /\ k \in Nat \ {0} /\ fetch.running \in SUBSET (1 .. k - 1) /\ fetch.total = Len(LogChunks)
        /\ Args.start < Args.end /\ k <= fetch.total
        /\ "logs" \notin faults =>
            \A i \in 1 .. k - 1 : i \notin fetch.running =>
              \A l \in RangeLogs : LogChunks[i].from <= l.block /\ l.block <= LogChunks[i].to
                                     => l \in ToSet(logs)
    BY <1>1, <1>4 DEF LogsInv, k
  <2>2. Len(LogChunks) \in Nat
    <3>1. Args.start \in Nat /\ Args.end \in Nat /\ Args.chunkSize \in Nat
      BY ReplayAssumption DEF LogsInv, InputKnown
    <3>2. Args.start + 1 \in Nat /\ Args.start + 1 <= Args.end
      BY <2>1, <3>1
    <3> QED BY <3>1, <3>2, ChunksCover DEF LogChunks
  <2>3. /\ k + 1 \in Nat \ {0} /\ fetch.running \cup {k} \in SUBSET (1 .. (k + 1) - 1)
        /\ k + 1 <= fetch.total + 1
    BY <2>1, <2>2
  <2>4. ASSUME "logs" \notin faults, NEW i \in 1 .. (k + 1) - 1, i \notin fetch.running \cup {k}
        PROVE  \A l \in RangeLogs : LogChunks[i].from <= l.block /\ l.block <= LogChunks[i].to
                                     => l \in ToSet(logs)
    <3>1. i \in 1 .. k - 1 /\ i \notin fetch.running
      BY <2>1, <2>4
    <3> QED BY <2>1, <2>4, <3>1
  <2>5. /\ phase' = "logs" /\ faults' = faults /\ logs' = logs /\ input' = input
        /\ Args' = Args /\ RangeLogs' = RangeLogs /\ LogChunks' = LogChunks
        /\ InputKnown' /\ LogsSound'
    BY <1>1, <1>4, SameLogs DEF LogsInv
  <2>6. DOMAIN fetch' = {"total", "limit", "next", "running"}
    BY <1>2 DEF LogsInv
  <2> QED BY <1>2, <2>1, <2>3, <2>4, <2>5, <2>6 DEF LogsInv
<1> QED BY <1>1, <1>3, <1>4

\* What the chunks of this run cover.
LEMMA ChunkKnown ==
  ASSUME InputKnown, Args.start < Args.end
  PROVE  /\ Len(LogChunks) \in Nat /\ DOMAIN LogChunks = 1 .. Len(LogChunks)
         /\ \A i \in 1 .. Len(LogChunks) :
              /\ LogChunks[i].from \in Int /\ LogChunks[i].to \in Int
              /\ Args.start + 1 <= LogChunks[i].from /\ LogChunks[i].to <= Args.end
         /\ \A l \in RangeLogs : l.block \in Nat =>
              \E i \in 1 .. Len(LogChunks) : LogChunks[i].from <= l.block /\ l.block <= LogChunks[i].to
<1> DEFINE from == Args.start + 1
           to == Args.end
<1>1. from \in Nat /\ to \in Nat /\ Args.chunkSize \in Nat /\ from <= to /\ Args.start \in Nat
  BY ReplayAssumption DEF InputKnown
<1>2. \A l \in RangeLogs : l.block \in Nat => l.block \in from .. to
  BY <1>1 DEF RangeLogs, InRange
<1>3. LogChunks = BlockChunks(from, to, Args.chunkSize)
  BY DEF LogChunks
<1> HIDE DEF from, to
<1>4. /\ Len(LogChunks) \in Nat /\ DOMAIN LogChunks = 1 .. Len(LogChunks)
      /\ \A i \in 1 .. Len(LogChunks) : /\ LogChunks[i].from \in Int /\ LogChunks[i].to \in Int
                                        /\ from <= LogChunks[i].from /\ LogChunks[i].to <= to
      /\ \A b \in from .. to : \E i \in 1 .. Len(LogChunks) :
                                 LogChunks[i].from <= b /\ b <= LogChunks[i].to
  <2>1. LET chunks == BlockChunks(from, to, Args.chunkSize)
        IN  /\ Len(chunks) \in Nat /\ DOMAIN chunks = 1 .. Len(chunks)
            /\ \A i \in DOMAIN chunks : /\ chunks[i].from \in Int /\ chunks[i].to \in Int
                                        /\ from <= chunks[i].from /\ chunks[i].to <= to
            /\ \A b \in from .. to : \E i \in DOMAIN chunks : chunks[i].from <= b /\ b <= chunks[i].to
    BY <1>1, ChunksCover, Zenon
  <2> QED BY <1>3, <2>1
<1> QED BY <1>2, <1>4 DEF from, to

\* An answer adds logs of the range, those of its chunk if it is complete.
LEMMA ArriveLogs ==
  ASSUME NoBeforeHooks, LogsInv, NEW i \in fetch.running, NEW lost, LogsArrive(i, lost)
  PROVE  LogsInv'
<1> DEFINE more == ChunkLogs(LogChunks[i], lost)
<1>1. /\ phase = "logs" /\ logs' = logs \o more
      /\ faults' = (IF lost = {} THEN faults ELSE faults \cup {"logs"})
      /\ fetch' = [fetch EXCEPT !.running = fetch.running \ {i}]
      /\ UNCHANGED <<input, phase, scan>>
  BY DEF LogsArrive, Received
<1>2. /\ InputKnown /\ Args.start < Args.end /\ LogsSound /\ fetch.total = Len(LogChunks)
      /\ fetch.running \in SUBSET (1 .. fetch.next - 1) /\ fetch.next \in Nat \ {0}
      /\ fetch.next <= fetch.total + 1
      /\ "logs" \notin faults =>
            \A j \in 1 .. fetch.next - 1 : j \notin fetch.running =>
              \A l \in RangeLogs : LogChunks[j].from <= l.block /\ l.block <= LogChunks[j].to
                                     => l \in ToSet(logs)
  BY <1>1 DEF LogsInv
<1>3. Len(LogChunks) \in Nat /\ i \in 1 .. Len(LogChunks)
  <2>1. Len(LogChunks) \in Nat
    BY <1>2, ChunkKnown
  <2> QED BY <1>2, <2>1
<1>4. /\ more \in Seq(RangeLogs)
      /\ lost = {} => \A l \in RangeLogs : LogChunks[i].from <= l.block /\ l.block <= LogChunks[i].to
                            => l \in ToSet(more)
  <2> DEFINE c == LogChunks[i]
  <2>1. c.from \in Int /\ c.to \in Int /\ Args.start + 1 <= c.from /\ c.to <= Args.end
    BY <1>2, <1>3, ChunkKnown
  <2> HIDE DEF c
  <2>2. /\ ChunkLogs(c, lost) \in Seq(RangeLogs)
        /\ lost = {} => \A l \in RangeLogs : c.from <= l.block /\ l.block <= c.to
                            => l \in ToSet(ChunkLogs(c, lost))
    BY <1>2, <2>1, ChunkAnswers
  <2> QED BY <2>2 DEF c
<1> HIDE DEF more
<1>5. /\ Args' = Args /\ History' = History /\ LogChunks' = LogChunks /\ RangeLogs' = RangeLogs
      /\ InputKnown'
  <2>1. Args' = Args /\ History' = History
    BY <1>1 DEF Args, History
  <2> QED BY <1>2, <2>1 DEF LogChunks, RangeLogs, InRange, InputKnown
<1>6. logs \in Seq(RangeLogs)
  BY <1>2 DEF LogsSound
<1>7. logs \o more \in Seq(RangeLogs)
  BY <1>4, <1>6, Joined
<1>8. ToSet(logs) \subseteq ToSet(logs \o more) /\ ToSet(more) \subseteq ToSet(logs \o more)
  <2>1. /\ Len(logs) \in Nat /\ Len(more) \in Nat
        /\ DOMAIN logs = 1 .. Len(logs) /\ DOMAIN more = 1 .. Len(more)
        /\ DOMAIN (logs \o more) = 1 .. Len(logs) + Len(more)
        /\ \A k \in 1 .. Len(logs) + Len(more) :
             (logs \o more)[k] = IF k <= Len(logs) THEN logs[k] ELSE more[k - Len(logs)]
    BY <1>4, <1>6, <1>7, Joined
  <2> DEFINE a == Len(logs)
             b == Len(more)
             u == logs \o more
  <2> HIDE DEF a, b, u
  <2>2. ASSUME NEW k \in 1 .. a PROVE k \in 1 .. a + b /\ u[k] = logs[k]
    BY <2>1 DEF a, b, u
  <2>3. ASSUME NEW k \in 1 .. b PROVE a + k \in 1 .. a + b /\ u[a + k] = more[k]
    <3>1. a \in Nat /\ b \in Nat
      BY <2>1 DEF a, b
    <3>2. a + k \in 1 .. a + b /\ ~(a + k <= a) /\ (a + k) - a = k
      BY <3>1
    <3> QED BY <2>1, <3>2 DEF a, b, u
  <2>4. DOMAIN u = 1 .. a + b /\ DOMAIN logs = 1 .. a /\ DOMAIN more = 1 .. b
    BY <2>1 DEF a, b, u
  <2>5. \A k \in 1 .. a : logs[k] \in ToSet(u)
    BY <2>2, <2>4 DEF ToSet
  <2>6. \A k \in 1 .. b : more[k] \in ToSet(u)
    BY <2>3, <2>4 DEF ToSet
  <2> QED BY <2>4, <2>5, <2>6 DEF ToSet, u
<1>9. /\ DOMAIN fetch' = DOMAIN fetch /\ fetch'.total = fetch.total /\ fetch'.next = fetch.next
      /\ fetch'.running = fetch.running \ {i}
  BY <1>1 DEF LogsInv
<1>10. ASSUME "logs" \notin faults', NEW j \in 1 .. fetch.next - 1, j \notin fetch.running \ {i},
              NEW l \in RangeLogs, LogChunks[j].from <= l.block, l.block <= LogChunks[j].to
       PROVE  l \in ToSet(logs \o more)
  <2>1. lost = {} /\ "logs" \notin faults
    BY <1>1, <1>10
  <2>2. CASE j = i
    BY <1>4, <1>8, <1>10, <2>1, <2>2
  <2>3. CASE j # i
    <3>1. j \notin fetch.running
      BY <1>10, <2>3
    <3>2. l \in ToSet(logs)
      BY <1>2, <1>10, <2>1, <3>1
    <3> QED BY <1>8, <3>2
  <2> QED BY <2>2, <2>3
<1>11. LogsSound' /\ phase' = "logs" /\ logs' = logs \o more
  BY <1>1, <1>5, <1>7 DEF LogsSound
<1>12. DOMAIN fetch' = {"total", "limit", "next", "running"}
  BY <1>9 DEF LogsInv
<1>13. fetch'.running \in SUBSET (1 .. fetch'.next - 1)
  BY <1>2, <1>9
<1> QED BY <1>2, <1>5, <1>9, <1>10, <1>11, <1>12, <1>13 DEF LogsInv

\* Once every chunk is answered in full, every log of the range is there.
LEMMA ScanLogs == ASSUME NoBeforeHooks, LogsInv, ScanTransactions PROVE LogsInv'
<1> DEFINE order == SubSeq(TxOrder, 1, Min({Len(TxOrder), Args.maxTransactions}))
           limit == BoundedConcurrency(Args.traceConcurrency, Len(order))
<1>1. CASE logs = <<>>
  <2>1. /\ phase' = "failed" /\ fetch' = [fetch EXCEPT !.running = {}]
        /\ UNCHANGED <<input, logs, scan, faults>>
    BY <1>1 DEF ScanTransactions, Abort, Drops
  <2>2. DOMAIN fetch' = DOMAIN fetch
    BY <2>1
  <2> QED BY <2>1, <2>2, QuietLogs
<1>2. CASE logs # <<>>
  <2>1. /\ phase = "logs" /\ fetch.next > fetch.total /\ fetch.running = {}
        /\ scan' = [order |-> order, checkpoints |-> CheckpointTxs(TxOrder)]
        /\ fetch' = Stream(Len(order), Args.traceConcurrency)
        /\ phase' = "traces" /\ UNCHANGED <<input, logs, faults>>
    BY <1>2 DEF ScanTransactions, StreamDone
  <2>2. fetch' = [total |-> Len(order), limit |-> limit, next |-> 1, running |-> {}]
    BY <2>1 DEF Stream
  <2> HIDE DEF limit, order
  <2>3. DOMAIN fetch' = {"total", "limit", "next", "running"}
    BY <2>2
  <2>4. ASSUME "logs" \notin faults PROVE LogsRead
    <3>1. /\ InputKnown /\ Args.start < Args.end /\ fetch.total = Len(LogChunks)
          /\ fetch.next \in Nat \ {0}
          /\ \A j \in 1 .. fetch.next - 1 :
              \A l \in RangeLogs : LogChunks[j].from <= l.block /\ l.block <= LogChunks[j].to
                                     => l \in ToSet(logs)
      BY <2>1, <2>4 DEF LogsInv
    <3>2. ASSUME NEW l \in RangeLogs PROVE l \in ToSet(logs)
      <4>1. l.block \in Nat
        BY <3>1, ChainLogsKnown
      <4>2. PICK j \in 1 .. Len(LogChunks) : LogChunks[j].from <= l.block /\ l.block <= LogChunks[j].to
        BY <3>1, <4>1, ChunkKnown
      <4>3. j \in 1 .. fetch.next - 1
        <5>1. Len(LogChunks) \in Nat
          BY <3>1, ChunkKnown
        <5> QED BY <2>1, <3>1, <5>1
      <4> QED BY <3>1, <4>2, <4>3
    <3> QED BY <3>2 DEF LogsRead
  <2>5. InputKnown' /\ LogsSound' /\ ("logs" \notin faults' => LogsRead')
    BY <2>1, <2>4, SameLogs DEF LogsInv
  <2>6. scan' = [order |-> SubSeq(TxOrder, 1, Min({Len(TxOrder), Args.maxTransactions})),
                 checkpoints |-> CheckpointTxs(TxOrder)]'
    BY <2>1, SameLogs DEF order
  <2>7. (Args.start < Args.end)'
    BY <2>1, SameLogs DEF LogsInv
  <2> QED BY <2>1, <2>3, <2>5, <2>6, <2>7 DEF LogsInv
<1> QED BY <1>1, <1>2

\* The invariant of the logs is inductive.
LEMMA NextLogs == ASSUME NoBeforeHooks, LogsInv, [Next]_vars PROVE LogsInv'
<1> DEFINE quiet == /\ UNCHANGED <<input, logs, scan>>
                    /\ \/ phase' = phase /\ fetch' = fetch
                       \/ phase' = "failed" /\ DOMAIN fetch' = DOMAIN fetch
                       \/ phase' \in {"traces", "replay", "written"}
                          /\ phase \in {"traces", "replay", "written"} /\ DOMAIN fetch' = DOMAIN fetch
                    /\ "logs" \in faults => "logs" \in faults'
<1>1. CASE quiet
  BY <1>1, QuietLogs
<1>2. ASSUME Drops, faults' = faults \/ faults' = faults \cup {"request"} PROVE LogsInv'
  <2>1. /\ phase' = "failed" /\ fetch' = [fetch EXCEPT !.running = {}]
        /\ UNCHANGED <<input, logs, scan>>
    BY <1>2 DEF Drops
  <2>2. DOMAIN fetch' = DOMAIN fetch
    BY <2>1
  <2> QED BY <1>2, <2>1, <2>2, QuietLogs
<1>3. CASE RequestFails
  BY <1>2, <1>3 DEF RequestFails
<1>4. ASSUME NEW t \in queue.tasks, CheckpointFails(t) \/ CheckpointArrives(t) PROVE LogsInv'
  <2>1. quiet
    BY <1>4 DEF CheckpointFails, CheckpointArrives, Becomes
  <2> QED BY <1>1, <2>1
<1>5. ASSUME NEW i \in fetch.running, NEW lost, LogsArrive(i, lost) PROVE LogsInv'
  BY <1>5, ArriveLogs
<1>6. ASSUME NEW i \in fetch.running, NEW without, TraceArrives(i, without) PROVE LogsInv'
  <2>1. /\ phase = "traces" /\ phase' = phase /\ UNCHANGED <<input, logs, scan>>
        /\ fetch' = [fetch EXCEPT !.running = @ \ {i}]
        /\ "logs" \in faults => "logs" \in faults'
    BY <1>6 DEF TraceArrives, Received
  <2>2. DOMAIN fetch' = DOMAIN fetch
    BY <2>1
  <2>3. quiet
    BY <2>1, <2>2
  <2> QED BY <1>1, <2>3
<1>7. CASE LoadInitialPool
  BY <1>7, LoadLogs
<1>8. CASE StartRequest
  BY <1>8, StartLogs
<1>9. CASE ScanTransactions
  BY <1>9, ScanLogs
<1>10. CASE TracesDone
  <2>1. phase = "traces" /\ (Abort \/ ReplayBegins)
    BY <1>10, TracesSplit
  <2>2. ASSUME ReplayBegins PROVE quiet
    BY <2>2 DEF ReplayBegins
  <2> QED BY <1>1, <1>2, <2>1, <2>2 DEF Abort
<1>11. CASE ReplayTransaction
  <2>1. Abort \/ UNCHANGED <<input, phase, fetch, logs, scan, faults>>
    BY <1>11, Zenon DEF ReplayTransaction
  <2>2. ASSUME UNCHANGED <<input, phase, fetch, logs, scan, faults>> PROVE quiet
    BY <2>2
  <2> QED BY <1>1, <1>2, <2>1, <2>2 DEF Abort
<1>12. CASE PushCheckpoint
  <2>1. quiet
    BY <1>12 DEF PushCheckpoint
  <2> QED BY <1>1, <2>1
<1>13. CASE WriteFixture
  <2>1. phase = "replay" /\ phase' = "written" /\ UNCHANGED <<input, fetch, logs, scan, faults>>
    BY <1>13, Zenon DEF WriteFixture, ReplayDone
  <2>2. quiet
    BY <2>1
  <2> QED BY <1>1, <2>2
<1>14. ASSUME NEW t \in queue.tasks, CollectNext(t) PROVE LogsInv'
  <2>1. Abort \/ UNCHANGED <<input, phase, fetch, logs, scan, faults>>
    BY <1>14, Zenon DEF CollectNext
  <2>2. ASSUME UNCHANGED <<input, phase, fetch, logs, scan, faults>> PROVE quiet
    BY <2>2
  <2> QED BY <1>1, <1>2, <2>1, <2>2 DEF Abort
<1>15. CASE UNCHANGED vars
  <2>1. quiet
    BY <1>15 DEF vars
  <2> QED BY <1>1, <2>1
<1> QED BY <1>3, <1>4, <1>5, <1>6, <1>7, <1>8, <1>9, <1>10, <1>11, <1>12, <1>13, <1>14, <1>15
        DEF Next, Answers, Steps

-----------------------------------------------------------------------------
(* What is replayed and written                                                *)

\* The transactions replayed are the first of the scan, one after the other; the
\* file is written at the end, of what is replayed and fetched by then.
FileInv ==
  /\ phase \in {"start", "logs", "traces"} => replay.txs = <<>>
  /\ replay.txs \in Seq(ToSet(replay.txs))
  /\ \A k \in DOMAIN replay.txs : DOMAIN replay.txs[k] = {"tx", "ops", "checkpoint"}
  /\ phase \in {"replay", "written"} =>
       /\ fetch.running = {} /\ replay.next <= Len(scan.order) + 1
       /\ Len(replay.txs) = replay.next - 1
       /\ \A k \in DOMAIN replay.txs : replay.txs[k].tx = scan.order[k]
  /\ phase = "written" =>
       replay.next > Len(scan.order) /\ replay.waiting = {} /\ queue.tasks = {}
  /\ file # {} => phase = "written"
  /\ \A f \in file :
       /\ DOMAIN f.txs = DOMAIN replay.txs /\ Len(f.txs) = Len(replay.txs)
       /\ \A k \in DOMAIN f.txs : /\ f.txs[k].tx = replay.txs[k].tx
                                  /\ f.txs[k].checkpoint # {} <=> k \in DOMAIN queue.results

\* The transactions of the fixture are ones that logs name.
LEMMA OrderSeen ==
  ASSUME NoBeforeHooks, LogsInv, phase \in {"traces", "replay", "written"}
  PROVE  /\ Len(scan.order) \in Nat /\ DOMAIN scan.order = 1 .. Len(scan.order)
         /\ Len(scan.order) = Min({Len(TxOrder), Args.maxTransactions})
         /\ Len(scan.order) <= Len(TxOrder)
         /\ \A k \in 1 .. Len(scan.order) : scan.order[k] = TxOrder[k] /\ scan.order[k] \in Seen
<1> DEFINE n == Len(TxOrder)
           max == Args.maxTransactions
           m == Min({n, max})
<1>1. InputKnown /\ LogsSound /\ scan.order = SubSeq(TxOrder, 1, m)
  <2> DEFINE order == SubSeq(TxOrder, 1, m)
             last == CheckpointTxs(TxOrder)
  <2>1. InputKnown /\ LogsSound /\ scan = [order |-> order, checkpoints |-> last]
    BY DEF LogsInv
  <2> HIDE DEF order, last
  <2>2. scan.order = order
    BY <2>1
  <2> QED BY <2>1, <2>2 DEF order
<1>2. n \in Nat /\ TxOrder \in [1 .. n -> Seen] /\ max \in Nat
  BY <1>1, TxOrderIs, ReplayAssumption DEF InputKnown
<1> HIDE DEF n, max
<1>3. m \in Nat /\ m <= n
  <2>1. m = IF n <= max THEN n ELSE max
    BY <1>2, Extremes
  <2> HIDE DEF m
  <2> QED BY <1>2, <2>1
<1> HIDE DEF m
<1>4. Len(SubSeq(TxOrder, 1, m)) = m /\ DOMAIN SubSeq(TxOrder, 1, m) = 1 .. m
      /\ \A k \in 1 .. m : SubSeq(TxOrder, 1, m)[k] = TxOrder[k]
  <2>1. TxOrder \in Seq(Seen) /\ Len(TxOrder) = n
    BY <1>2
  <2> QED BY <1>2, <1>3, <2>1
<1>5. \A k \in 1 .. m : TxOrder[k] \in Seen
  BY <1>2, <1>3
<1> QED BY <1>1, <1>3, <1>4, <1>5 DEF m, n, max

\* What Append does.
LEMMA Appended ==
  ASSUME NEW s, s \in Seq(ToSet(s)), NEW e
  PROVE  /\ Len(s) \in Nat /\ DOMAIN s = 1 .. Len(s)
         /\ Append(s, e) \in Seq(ToSet(Append(s, e)))
         /\ Len(Append(s, e)) = Len(s) + 1 /\ DOMAIN Append(s, e) = 1 .. Len(s) + 1
         /\ Append(s, e)[Len(s) + 1] = e
         /\ \A k \in 1 .. Len(s) : Append(s, e)[k] = s[k]
<1> DEFINE t == Append(s, e)
           S == ToSet(s) \cup {e}
<1>1. s \in Seq(S) /\ e \in S /\ Len(s) \in Nat /\ DOMAIN s = 1 .. Len(s)
  BY DEF ToSet
<1> HIDE DEF S
<1>2. /\ t \in Seq(S) /\ Len(t) = Len(s) + 1 /\ DOMAIN t = 1 .. Len(s) + 1
      /\ t[Len(s) + 1] = e /\ \A k \in 1 .. Len(s) : t[k] = s[k]
  BY <1>1
<1> HIDE DEF t
<1>3. t \in Seq(ToSet(t))
  <2>1. t = [k \in 1 .. Len(t) |-> t[k]] /\ Len(t) \in Nat /\ DOMAIN t = 1 .. Len(t)
    BY <1>1, <1>2
  <2>2. \A k \in 1 .. Len(t) : t[k] \in ToSet(t)
    BY <2>1 DEF ToSet
  <2> QED BY <2>1, <2>2
<1> QED BY <1>1, <1>2, <1>3 DEF t

\* What a replayed transaction adds, as far as it is not an error.
LEMMA ReplaySteps ==
  ASSUME DOMAIN replay = {"initial", "pools", "next", "block", "touched", "waiting", "txs"},
         ReplayTransaction, ~Abort
  PROVE  /\ phase = "replay" /\ replay.next <= Len(scan.order)
         /\ UNCHANGED <<input, phase, fetch, logs, scan, traces, queue, file, faults>>
         /\ DOMAIN replay' = DOMAIN replay /\ replay'.next = replay.next + 1
         /\ \E ops \in DecodedOperations(scan.order[replay.next]) :
              replay'.txs = Append(replay.txs, [tx |-> scan.order[replay.next], ops |-> ops,
                                                checkpoint |-> {}])
<1> DEFINE k     == replay.next
           tx    == scan.order[k]
           block == LogsOf(tx)[1].block
           before == CHOOSE p \in replay.pools : TRUE
           ended(ops) == ReplayOps(before, TouchedBefore(block), ops)
           here(after) == IF tx \in scan.checkpoints
                          THEN {[index |-> k, block |-> block, touched |-> after.touched]} ELSE {}
<1>1. /\ phase = "replay" /\ k <= Len(scan.order)
      /\ IF \A ops \in DecodedOperations(tx) : ended(ops) = {} THEN Abort
         ELSE \E ops \in DecodedOperations(tx) : \E after \in ended(ops) :
                /\ replay' = [replay EXCEPT
                     !.next = @ + 1, !.pools = {after.pool}, !.block = block,
                     !.touched = after.touched, !.waiting = here(after),
                     !.txs = Append(@, [tx |-> tx, ops |-> ops, checkpoint |-> {}])]
                /\ UNCHANGED <<input, phase, fetch, logs, scan, traces, queue, file, faults>>
  BY DEF ReplayTransaction
<1> HIDE DEF ended, before, here
<1>2. PICK ops \in DecodedOperations(tx) : \E after \in ended(ops) :
                /\ replay' = [replay EXCEPT
                     !.next = @ + 1, !.pools = {after.pool}, !.block = block,
                     !.touched = after.touched, !.waiting = here(after),
                     !.txs = Append(@, [tx |-> tx, ops |-> ops, checkpoint |-> {}])]
                /\ UNCHANGED <<input, phase, fetch, logs, scan, traces, queue, file, faults>>
  BY <1>1, Zenon
<1>3. PICK after \in ended(ops) :
                /\ replay' = [replay EXCEPT
                     !.next = @ + 1, !.pools = {after.pool}, !.block = block,
                     !.touched = after.touched, !.waiting = here(after),
                     !.txs = Append(@, [tx |-> tx, ops |-> ops, checkpoint |-> {}])]
                /\ UNCHANGED <<input, phase, fetch, logs, scan, traces, queue, file, faults>>
  BY <1>2, Zenon
<1> DEFINE step == [tx |-> tx, ops |-> ops, checkpoint |-> {}]
<1>4. replay' = [replay EXCEPT !.next = k + 1, !.pools = {after.pool}, !.block = block,
                     !.touched = after.touched, !.waiting = here(after),
                     !.txs = Append(replay.txs, step)]
  BY <1>3
<1> HIDE DEF step, block, k, tx
<1>5. DOMAIN replay' = DOMAIN replay /\ replay'.next = k + 1 /\ replay'.txs = Append(replay.txs, step)
  BY <1>4
<1> QED BY <1>1, <1>3, <1>5 DEF k, tx, step

\* What the file holds.
LEMMA Written ==
  ASSUME WriteFixture
  PROVE  /\ phase = "replay" /\ phase' = "written" /\ replay.waiting = {} /\ queue.tasks = {}
         /\ replay.next > Len(scan.order)
         /\ UNCHANGED <<input, fetch, logs, scan, traces, replay, queue, faults>>
         /\ \A f \in file' :
              /\ f.initial \in replay.initial
              /\ f.txs = [i \in DOMAIN replay.txs |->
                   [replay.txs[i] EXCEPT !.checkpoint =
                      {queue.results[k] : k \in DOMAIN queue.results \cap {i}}]]
<1> DEFINE txs == [i \in DOMAIN replay.txs |->
                   [replay.txs[i] EXCEPT !.checkpoint =
                      {queue.results[k] : k \in DOMAIN queue.results \cap {i}}]]
<1>1. /\ phase = "replay" /\ phase' = "written" /\ replay.waiting = {} /\ queue.tasks = {}
      /\ replay.next > Len(scan.order)
      /\ UNCHANGED <<input, fetch, logs, scan, traces, replay, queue, faults>>
      /\ file' = {[initial |-> s, txs |-> txs] : s \in replay.initial}
  BY DEF WriteFixture, ReplayDone
<1> HIDE DEF txs
<1>2. ASSUME NEW f \in file' PROVE f.initial \in replay.initial /\ f.txs = txs
  BY <1>1
<1> QED BY <1>1, <1>2 DEF txs

\* At first nothing is written.
LEMMA InitFile == ASSUME Init PROVE FileInv
<1>1. /\ phase = "start" /\ file = {}
      /\ replay = [initial |-> {}, pools |-> {}, next |-> 1, block |-> 0, touched |-> {},
                   waiting |-> {}, txs |-> <<>>]
  BY DEF Init
<1>2. replay.txs = <<>>
  BY <1>1
<1>3. DOMAIN <<>> = {} /\ <<>> \in Seq(ToSet(<<>>))
  OBVIOUS
<1> QED BY <1>1, <1>2, <1>3 DEF FileInv

\* Before the replay.
LEMMA EarlyFile ==
  ASSUME FileInv, phase \in {"start", "logs", "traces"}, replay'.txs = replay.txs, file' = file,
         phase' \in {"start", "logs", "traces", "failed"}
  PROVE  FileInv'
<1>1. DOMAIN <<>> = {} /\ file = {} /\ replay.txs = <<>>
  BY DEF FileInv
<1> QED BY <1>1 DEF FileInv

\* Whoever gives up has written nothing.
LEMMA DroppedFile ==
  ASSUME FileInv, Drops, phase # "written"
  PROVE  FileInv'
<1>1. /\ phase' = "failed" /\ UNCHANGED <<scan, replay, file>>
  BY DEF Drops
<1>2. file = {}
  BY DEF FileInv
<1> QED BY <1>1, <1>2 DEF FileInv

\* The replay begins with the first transaction.
LEMMA StartFile ==
  ASSUME QueueInv, LogsInv, FileInv, NoBeforeHooks, ReplayBegins
  PROVE  FileInv'
<1> DEFINE pools == {PoolOf(s) : s \in replay.initial}
<1>1. /\ phase = "traces" /\ phase' = "replay" /\ fetch.running = {}
      /\ replay' = [replay EXCEPT !.pools = pools]
      /\ UNCHANGED <<fetch, scan, file>>
  BY DEF ReplayBegins, StreamDone
<1> HIDE DEF pools
<1>2. /\ replay'.txs = <<>> /\ replay'.next = 1 /\ file = {}
  BY <1>1 DEF QueueInv, FileInv
<1>3. Len(scan.order) \in Nat
  BY <1>1, OrderSeen
<1>4. DOMAIN <<>> = {} /\ <<>> \in Seq(ToSet(<<>>)) /\ Len(<<>>) = 0
  OBVIOUS
<1>5. 1 <= Len(scan.order) + 1
  BY <1>3
<1> QED BY <1>1, <1>2, <1>4, <1>5 DEF FileInv

\* A replayed transaction is the next of the scan.
LEMMA ReplayedFile ==
  ASSUME QueueInv, LogsInv, FileInv, NoBeforeHooks, ReplayTransaction
  PROVE  FileInv'
<1>1. CASE Abort
  <2>1. phase = "replay"
    BY DEF ReplayTransaction
  <2> QED BY <1>1, <2>1, DroppedFile DEF Abort
<1>2. CASE ~Abort
  <2> DEFINE k == replay.next
             tx == scan.order[k]
  <2>1. /\ phase = "replay" /\ k <= Len(scan.order)
        /\ UNCHANGED <<input, phase, fetch, logs, scan, traces, queue, file, faults>>
        /\ replay'.next = k + 1
        /\ \E ops \in DecodedOperations(tx) :
              replay'.txs = Append(replay.txs, [tx |-> tx, ops |-> ops, checkpoint |-> {}])
    BY <1>2, ReplaySteps DEF QueueInv
  <2>2. PICK ops \in DecodedOperations(tx) :
              replay'.txs = Append(replay.txs, [tx |-> tx, ops |-> ops, checkpoint |-> {}])
    BY <2>1
  <2> DEFINE t == [tx |-> tx, ops |-> ops, checkpoint |-> {}]
  <2>3. DOMAIN t = {"tx", "ops", "checkpoint"} /\ t.tx = tx /\ replay'.txs = Append(replay.txs, t)
    BY <2>2
  <2> HIDE DEF t, tx, k
  <2>4. /\ replay.txs \in Seq(ToSet(replay.txs)) /\ fetch.running = {} /\ file = {}
        /\ Len(replay.txs) = k - 1 /\ \A j \in DOMAIN replay.txs : replay.txs[j].tx = scan.order[j]
        /\ \A j \in DOMAIN replay.txs : DOMAIN replay.txs[j] = {"tx", "ops", "checkpoint"}
    BY <2>1 DEF FileInv, k
  <2> DEFINE n == Len(replay.txs)
  <2>5. /\ n \in Nat /\ DOMAIN replay.txs = 1 .. n
        /\ replay'.txs \in Seq(ToSet(replay'.txs)) /\ Len(replay'.txs) = n + 1
        /\ DOMAIN replay'.txs = 1 .. n + 1 /\ replay'.txs[n + 1] = t
        /\ \A j \in 1 .. n : replay'.txs[j] = replay.txs[j]
    BY <2>3, <2>4, Appended
  <2> HIDE DEF n
  <2>6. n = k - 1 /\ k \in Nat /\ k <= Len(scan.order) /\ Len(scan.order) \in Nat
    <3>1. n = k - 1
      BY <2>4 DEF n
    <3>2. k \in Nat
      BY <2>1 DEF QueueInv, Queued, k
    <3> QED BY <2>1, <3>1, <3>2, OrderSeen
  <2>7. n + 1 = k
    BY <2>6
  <2>8. ASSUME NEW j \in DOMAIN replay'.txs
        PROVE  /\ DOMAIN replay'.txs[j] = {"tx", "ops", "checkpoint"}
               /\ replay'.txs[j].tx = scan.order[j]
    <3>1. CASE j = n + 1
      BY <2>3, <2>5, <2>7, <3>1 DEF tx
    <3>2. CASE j # n + 1
      <4>1. j \in 1 .. n
        BY <2>5, <3>2
      <4> QED BY <2>4, <2>5, <4>1
    <3> QED BY <3>1, <3>2
  <2>9. k + 1 <= Len(scan.order) + 1 /\ Len(replay'.txs) = (k + 1) - 1
    BY <2>5, <2>6
  <2> QED BY <2>1, <2>4, <2>5, <2>8, <2>9 DEF FileInv
<1> QED BY <1>1, <1>2

\* The file holds what was replayed.
LEMMA WriteFile == ASSUME FileInv, WriteFixture PROVE FileInv'
<1>1. /\ phase = "replay" /\ phase' = "written" /\ replay.waiting = {} /\ queue.tasks = {}
      /\ replay.next > Len(scan.order)
      /\ UNCHANGED <<input, fetch, logs, scan, traces, replay, queue, faults>>
      /\ \A f \in file' : f.txs = [i \in DOMAIN replay.txs |->
           [replay.txs[i] EXCEPT !.checkpoint =
              {queue.results[k] : k \in DOMAIN queue.results \cap {i}}]]
  BY Written
<1>2. Len(replay.txs) \in Nat /\ DOMAIN replay.txs = 1 .. Len(replay.txs)
      /\ \A k \in DOMAIN replay.txs : DOMAIN replay.txs[k] = {"tx", "ops", "checkpoint"}
  BY DEF FileInv
<1>3. ASSUME NEW f \in file'
      PROVE  /\ DOMAIN f.txs = DOMAIN replay.txs /\ Len(f.txs) = Len(replay.txs)
             /\ \A k \in DOMAIN f.txs : /\ f.txs[k].tx = replay.txs[k].tx
                                        /\ f.txs[k].checkpoint # {} <=> k \in DOMAIN queue.results
  <2> DEFINE c(i) == {queue.results[k] : k \in DOMAIN queue.results \cap {i}}
             n == Len(replay.txs)
  <2>1. f.txs = [i \in 1 .. n |-> [replay.txs[i] EXCEPT !.checkpoint = c(i)]] /\ n \in Nat
    BY <1>1, <1>2
  <2>2. ASSUME NEW i PROVE c(i) # {} <=> i \in DOMAIN queue.results
    OBVIOUS
  <2> HIDE DEF c, n
  <2>3. DOMAIN f.txs = 1 .. n /\ Len(f.txs) = n
    BY <2>1
  <2>4. ASSUME NEW k \in 1 .. n
        PROVE  f.txs[k].tx = replay.txs[k].tx /\ f.txs[k].checkpoint = c(k)
    <3> DEFINE r == replay.txs[k]
    <3>1. f.txs[k] = [r EXCEPT !.checkpoint = c(k)] /\ DOMAIN r = {"tx", "ops", "checkpoint"}
      BY <1>2, <2>1 DEF n
    <3> HIDE DEF r
    <3>2. f.txs[k].tx = r.tx /\ f.txs[k].checkpoint = c(k)
      BY <3>1
    <3> QED BY <3>2 DEF r
  <2> QED BY <1>2, <2>2, <2>3, <2>4 DEF n
<1> QED BY <1>1, <1>3 DEF FileInv

\* The invariant of the file is inductive.
LEMMA NextFile ==
  ASSUME NoBeforeHooks, QueueInv, LogsInv, FileInv, [Next]_vars
  PROVE  FileInv'
<1> DEFINE early == /\ phase \in {"start", "logs", "traces"} /\ replay'.txs = replay.txs
                    /\ file' = file /\ phase' \in {"start", "logs", "traces", "failed"}
<1>1. CASE early
  BY <1>1, EarlyFile
<1>2. CASE RequestFails
  <2>1. phase # "written" /\ Drops
    BY <1>2 DEF RequestFails, FileInv
  <2> QED BY <2>1, DroppedFile
<1>3. ASSUME NEW t \in queue.tasks, CheckpointFails(t) \/ CheckpointArrives(t) PROVE FileInv'
  <2>1. PICK u : Becomes(t, u)
    BY <1>3 DEF CheckpointFails, CheckpointArrives
  <2>2. /\ queue' = [queue EXCEPT !.tasks = (@ \ {t}) \cup {u}]
        /\ UNCHANGED <<input, phase, fetch, logs, scan, traces, replay, file>>
    BY <2>1 DEF Becomes
  <2>3. phase # "written" /\ file = {}
    BY DEF FileInv
  <2> QED BY <2>2, <2>3 DEF FileInv
<1>4. ASSUME NEW i \in fetch.running, NEW lost, LogsArrive(i, lost) PROVE FileInv'
  <2>1. early
    BY <1>4 DEF LogsArrive
  <2> QED BY <1>1, <2>1
<1>5. ASSUME NEW i \in fetch.running, NEW without, TraceArrives(i, without) PROVE FileInv'
  <2>1. early
    BY <1>5 DEF TraceArrives
  <2> QED BY <1>1, <2>1
<1>6. CASE LoadInitialPool
  <2>1. CASE ~Loadable
    BY <1>6, <2>1, LoadSplit, DroppedFile DEF Abort
  <2>2. CASE Loadable
    <3> DEFINE loaded == {PoolSnapshot(PoolAtBlock(Args.start))}
    <3>1. /\ phase = "start" /\ phase' = "logs" /\ replay' = [replay EXCEPT !.initial = loaded]
          /\ UNCHANGED file
      BY <1>6, <2>2, LoadSplit
    <3> HIDE DEF loaded
    <3>2. replay'.txs = replay.txs
      BY <3>1 DEF QueueInv
    <3> QED BY <3>1, <3>2, EarlyFile
  <2> QED BY <2>1, <2>2
<1>7. CASE StartRequest
  <2>1. early
    BY <1>7 DEF StartRequest
  <2> QED BY <1>1, <2>1
<1>8. CASE ScanTransactions
  <2>1. phase = "logs" /\ (Abort \/ (phase' = "traces" /\ UNCHANGED <<replay, file>>))
    BY <1>8, Zenon DEF ScanTransactions
  <2> QED BY <2>1, EarlyFile, DroppedFile DEF Abort
<1>9. CASE TracesDone
  BY <1>9, TracesSplit, DroppedFile, StartFile DEF Abort
<1>10. CASE ReplayTransaction
  BY <1>10, ReplayedFile
<1>11. CASE PushCheckpoint
  <2> DEFINE tasks == queue.tasks \cup {[task |-> w, result |-> {}, failed |-> FALSE] :
                                          w \in replay.waiting}
  <2>1. /\ phase = "replay" /\ replay' = [replay EXCEPT !.waiting = {}]
        /\ UNCHANGED <<phase, fetch, scan, file>>
    BY <1>11 DEF PushCheckpoint
  <2>2. replay'.txs = replay.txs /\ replay'.next = replay.next /\ file = {}
    BY <2>1 DEF QueueInv, FileInv
  <2> QED BY <2>1, <2>2 DEF FileInv
<1>12. CASE WriteFixture
  BY <1>12, WriteFile
<1>13. ASSUME NEW t \in queue.tasks, CollectNext(t) PROVE FileInv'
  <2>1. phase = "replay"
    BY <1>13 DEF CollectNext, Collecting, ReplayDone
  <2>2. Abort \/ UNCHANGED <<phase, fetch, scan, replay, file>>
    BY <1>13, Zenon DEF CollectNext
  <2>3. file = {}
    BY <2>1 DEF FileInv
  <2>4. CASE UNCHANGED <<phase, fetch, scan, replay, file>>
    BY <2>1, <2>3, <2>4 DEF FileInv
  <2> QED BY <2>1, <2>2, <2>4, DroppedFile DEF Abort
<1>14. CASE UNCHANGED vars
  BY <1>14 DEF vars, FileInv
<1> QED BY <1>2, <1>3, <1>4, <1>5, <1>6, <1>7, <1>8, <1>9, <1>10, <1>11, <1>12, <1>13, <1>14
        DEF Next, Answers, Steps

-----------------------------------------------------------------------------
(* The operations decoded                                                      *)

\* A transaction with all the operations the chain executed, in their order.
Complete(t) ==
  LET tx == History.txs[t.tx]
  IN  [i \in DOMAIN t.ops |-> t.ops[i].op] =
      [i \in DOMAIN Executed(tx) |-> tx.frames[Executed(tx)[i]].op]

\* Logs and traces are not both incomplete; a trace that came is the whole one
\* unless one was cut; what is replayed is complete.
OpsInv ==
  /\ faults \in SUBSET {"logs", "trace", "request"}
  /\ ~("logs" \in faults /\ "trace" \in faults)
  /\ DOMAIN traces = DOMAIN History.txs
  /\ "trace" \notin faults =>
       \A tx \in DOMAIN traces : traces[tx] = {} \/ traces[tx] = DOMAIN History.txs[tx].frames
  /\ \A k \in DOMAIN replay.txs : Complete(replay.txs[k])
  /\ \A f \in file : \A k \in DOMAIN f.txs : Complete(f.txs[k])

\* At first no answer was incomplete.
LEMMA InitOps == ASSUME Init PROVE OpsInv
<1>1. /\ traces = [tx \in DOMAIN input.history.txs |-> {}] /\ file = {} /\ faults = {}
      /\ replay = [initial |-> {}, pools |-> {}, next |-> 1, block |-> 0, touched |-> {},
                   waiting |-> {}, txs |-> <<>>]
  BY DEF Init
<1>2. replay.txs = <<>> /\ DOMAIN traces = DOMAIN History.txs
      /\ \A tx \in DOMAIN traces : traces[tx] = {}
  BY <1>1 DEF History
<1>3. DOMAIN <<>> = {}
  OBVIOUS
<1> QED BY <1>1, <1>2, <1>3 DEF OpsInv

\* With all logs at hand a transaction is decoded as a whole or not at all.
LEMMA DecodedAll ==
  ASSUME NoBeforeHooks, InputKnown, LogsSound, LogsRead,
         NEW tx \in Seen, NEW ops \in DecodedOperations(tx)
  PROVE  /\ Persisted(History.txs[tx].frames) \cap traces[tx] = Persisted(History.txs[tx].frames)
         /\ Len(LogsOf(tx)) = Ops(History, tx)
<1> DEFINE P == Persisted(History.txs[tx].frames)
           T == traces[tx]
           order == DecodedFrames(tx)
           a == Cardinality(P)
           b == Cardinality(P \cap T)
<1>1. Len(order) = Len(LogsOf(tx))
  BY DEF DecodedOperations
<1>2. tx \in DOMAIN History.txs /\ InRange(History.txs[tx].block) /\ History \in Histories
  <2>1. PICK l \in ToSet(logs) : l.tx = tx
    BY DEF Seen
  <2>2. PICK k \in DOMAIN logs : logs[k] = l
    BY <2>1 DEF ToSet
  <2>3. l \in RangeLogs
    BY <2>2 DEF LogsSound
  <2> QED BY <2>1, <2>3, ChainLogsKnown DEF InputKnown
<1>3. P \in SUBSET Int /\ IsFiniteSet(P) /\ a \in Nat
  BY <1>2, PersistedFinite
<1>4. order = InOrder(P \cap T, <)
  BY DEF DecodedFrames
<1>5. a <= Len(LogsOf(tx))
  BY <1>2, LogsCount DEF Ops
<1> HIDE DEF P, T, order
<1>6. IsFiniteSet(P \cap T) /\ b <= a /\ (b = a => P \cap T = P)
  <2>1. P \cap T \in SUBSET P
    OBVIOUS
  <2> QED BY <1>3, <2>1, FS_Subset
<1>7. order \in [1 .. b -> P \cap T] /\ b \in Nat
  <2>1. P \cap T \in SUBSET Int
    BY <1>3
  <2> QED BY <1>4, <1>6, <2>1, InOrderOfInts
<1> HIDE DEF b
<1>8. Len(order) = b
  BY <1>7
<1>9. Len(LogsOf(tx)) = b /\ a <= b
  BY <1>1, <1>5, <1>8
<1> HIDE DEF a
<1>10. a = b
  BY <1>3, <1>6, <1>7, <1>9
<1> QED BY <1>6, <1>9, <1>10 DEF a, P, T, Ops

\* A decoded transaction that is accepted is complete: its operations are as many
\* as its logs, and logs or trace are.
LEMMA DecodedComplete ==
  ASSUME NoBeforeHooks, LogsInv, OpsInv, phase = "replay",
         NEW tx \in Seen, NEW ops \in DecodedOperations(tx)
  PROVE  Complete([tx |-> tx, ops |-> ops, checkpoint |-> {}])
<1> DEFINE frames == History.txs[tx].frames
           P == Persisted(frames)
           T == traces[tx]
           order == DecodedFrames(tx)
           fee(k) == {SwapFees(tx)[n] : n \in {m \in DOMAIN SwapFees(tx) :
                        History.dynamic /\ frames[order[k]].op.kind = "swap"
                        /\ m = Cardinality({j \in 1..k : frames[order[j]].op.kind = "swap"})}}
<1>1. /\ ops = [k \in DOMAIN order |-> [op |-> frames[order[k]].op, fee |-> fee(k)]]
      /\ order # <<>> /\ Len(order) = Len(LogsOf(tx))
  BY DEF DecodedOperations
<1>2. /\ InputKnown /\ LogsSound /\ ("logs" \notin faults => LogsRead)
      /\ History \in Histories /\ tx \in DOMAIN History.txs
  BY DEF LogsInv, Seen, InputKnown
<1>3. /\ P \in SUBSET DOMAIN frames /\ P \in SUBSET Int /\ IsFiniteSet(P) /\ Cardinality(P) \in Nat
      /\ Executed(History.txs[tx]) = InOrder(P, <)
  BY <1>2, PersistedFinite, ExecutedIs
<1>4. order = InOrder(P \cap T, <)
  BY DEF DecodedFrames
<1> HIDE DEF P, T, order, fee
<1>5. /\ IsFiniteSet(P \cap T) /\ Cardinality(P \cap T) <= Cardinality(P)
      /\ (Cardinality(P \cap T) = Cardinality(P) => P \cap T = P)
  <2>1. P \cap T \in SUBSET P
    OBVIOUS
  <2> QED BY <1>3, <2>1, FS_Subset
<1>6. order \in [1 .. Cardinality(P \cap T) -> P \cap T] /\ Cardinality(P \cap T) \in Nat
  <2>1. P \cap T \in SUBSET Int
    BY <1>3
  <2> QED BY <1>4, <1>5, <2>1, InOrderOfInts
<1>7. Len(order) = Cardinality(P \cap T)
  BY <1>6
<1>8. P \cap T = P
  <2>1. CASE "trace" \notin faults
    <3>1. T = {} \/ T = DOMAIN frames
      BY <1>2, <2>1 DEF OpsInv, T
    <3>2. T # {}
      <4> SUFFICES ASSUME T = {} PROVE FALSE
        OBVIOUS
      <4>1. P \cap T = {} /\ Cardinality({}) = 0
        BY FS_EmptySet
      <4>2. order \in [1 .. 0 -> {}]
        BY <1>6, <4>1
      <4>3. order = <<>>
        BY <4>2
      <4> QED BY <1>1, <4>3
    <3> QED BY <1>3, <3>1, <3>2
  <2>2. CASE "trace" \in faults
    <3>1. LogsRead
      BY <1>2, <2>2 DEF OpsInv
    <3> QED BY <1>2, <3>1, DecodedAll DEF P, T
  <2> QED BY <2>1, <2>2
<1>9. order = Executed(History.txs[tx])
  BY <1>3, <1>4, <1>8
<1> DEFINE t == [tx |-> tx, ops |-> ops, checkpoint |-> {}]
<1>10. t.tx = tx /\ t.ops = ops
  OBVIOUS
<1>11. [i \in DOMAIN ops |-> ops[i].op] = [i \in DOMAIN order |-> frames[order[i]].op]
  <2>1. DOMAIN ops = DOMAIN order /\ \A i \in DOMAIN order : ops[i].op = frames[order[i]].op
    BY <1>1
  <2> QED BY <2>1
<1> HIDE DEF t
<1> QED BY <1>9, <1>10, <1>11 DEF Complete, t

-----------------------------------------------------------------------------
\* A step that adds nothing to what is replayed.
LEMMA QuietOps ==
  ASSUME OpsInv, input' = input, traces' = traces, file' = file, replay'.txs = replay.txs,
         faults' = faults \/ faults' = faults \cup {"request"}
  PROVE  OpsInv'
<1>1. History' = History
  BY DEF History
<1>2. \A t : Complete(t)' = Complete(t)
  BY <1>1 DEF Complete
<1> QED BY <1>1, <1>2 DEF OpsInv

\* Where answers of one kind may be incomplete, those of the other kind are not.
LEMMA OneKind ==
  ASSUME OpsInv, MaxFaults <= 1, NEW kind \in {"logs", "trace"}, MayLose(kind),
         NEW other \in {"logs", "trace"}, other # kind
  PROVE  other \notin faults
<1> SUFFICES ASSUME other \in faults PROVE FALSE
  OBVIOUS
<1> DEFINE S == (faults \ {"request"}) \cup {kind}
<1>1. IsFiniteSet({kind}) /\ Cardinality({kind}) = 1
  BY FS_Singleton
<1>2. IsFiniteSet({kind} \cup {other}) /\ Cardinality({kind} \cup {other}) = 2
  BY <1>1, FS_AddElement
<1>3. S = {kind} \cup {other}
  BY DEF OpsInv
<1>4. Cardinality(S) <= MaxFaults
  BY DEF MayLose
<1>5. MaxFaults \in Nat
  BY ReplayAssumption
<1> HIDE DEF S
<1> QED BY <1>2, <1>3, <1>4, <1>5

\* Logs do not come incomplete when a trace did.
LEMMA LogsOps ==
  ASSUME MaxFaults <= 1, OpsInv, NEW i, NEW lost, LogsArrive(i, lost)
  PROVE  OpsInv'
<1>1. /\ faults' = (IF lost = {} THEN faults ELSE faults \cup {"logs"})
      /\ lost # {} => MayLose("logs")
      /\ UNCHANGED <<input, traces, replay, file>>
  BY DEF LogsArrive
<1>2. CASE lost = {}
  BY <1>1, <1>2, QuietOps
<1>3. CASE lost # {}
  <2>1. "trace" \notin faults /\ faults' = faults \cup {"logs"}
    BY <1>1, <1>3, OneKind
  <2>2. History' = History
    BY <1>1 DEF History
  <2>3. \A t : Complete(t)' = Complete(t)
    BY <2>2 DEF Complete
  <2> QED BY <1>1, <2>1, <2>2, <2>3 DEF OpsInv
<1> QED BY <1>2, <1>3

\* Nor does a trace when logs did.
LEMMA TraceOps ==
  ASSUME MaxFaults <= 1, OpsInv, NEW i, NEW without, TraceArrives(i, without)
  PROVE  OpsInv'
<1> DEFINE tx == scan.order[i]
           frames == History.txs[tx].frames
           got == {k \in DOMAIN frames : without = 0 \/ ~InSubtree(frames, without, k)}
<1>1. /\ traces' = [traces EXCEPT ![tx] = got]
      /\ faults' = (IF without = 0 THEN faults ELSE faults \cup {"trace"})
      /\ without # 0 => MayLose("trace")
      /\ UNCHANGED <<input, replay, file>>
  BY DEF TraceArrives
<1>2. History' = History
  BY <1>1 DEF History
<1>3. \A t : Complete(t)' = Complete(t)
  BY <1>2 DEF Complete
<1>4. without = 0 => got = DOMAIN History.txs[tx].frames
  OBVIOUS
<1> HIDE DEF tx, got
<1>5. DOMAIN traces' = DOMAIN traces
  BY <1>1
<1>6. CASE without = 0
  <2>1. "trace" \notin faults =>
          \A t \in DOMAIN traces' : traces'[t] = {} \/ traces'[t] = DOMAIN History.txs[t].frames
    <3>1. ASSUME "trace" \notin faults, NEW t \in DOMAIN traces
          PROVE  traces'[t] = {} \/ traces'[t] = DOMAIN History.txs[t].frames
      <4>1. CASE t = tx
        BY <1>1, <1>4, <1>6, <4>1
      <4>2. CASE t # tx
        BY <1>1, <3>1, <4>2 DEF OpsInv
      <4> QED BY <4>1, <4>2
    <3> QED BY <1>5, <3>1
  <2>2. faults' = faults
    BY <1>1, <1>6
  <2> QED BY <1>1, <1>2, <1>3, <1>5, <2>1, <2>2 DEF OpsInv
<1>7. CASE without # 0
  <2>1. "logs" \notin faults /\ faults' = faults \cup {"trace"}
    BY <1>1, <1>7, OneKind
  <2> QED BY <1>1, <1>2, <1>3, <1>5, <2>1 DEF OpsInv
<1> QED BY <1>6, <1>7

\* A transaction that is replayed is complete.
LEMMA ReplayedOps ==
  ASSUME NoBeforeHooks, QueueInv, LogsInv, FileInv, OpsInv, ReplayTransaction
  PROVE  OpsInv'
<1>1. CASE Abort
  BY <1>1, QuietOps DEF Abort, Drops
<1>2. CASE ~Abort
  <2> DEFINE k == replay.next
             tx == scan.order[k]
  <2>1. /\ phase = "replay" /\ k <= Len(scan.order)
        /\ UNCHANGED <<input, phase, fetch, logs, scan, traces, queue, file, faults>>
        /\ \E ops \in DecodedOperations(tx) :
              replay'.txs = Append(replay.txs, [tx |-> tx, ops |-> ops, checkpoint |-> {}])
    BY <1>2, ReplaySteps DEF QueueInv
  <2>2. PICK ops \in DecodedOperations(tx) :
              replay'.txs = Append(replay.txs, [tx |-> tx, ops |-> ops, checkpoint |-> {}])
    BY <2>1
  <2>3. k \in 1 .. Len(scan.order)
    <3>1. Queued /\ Len(scan.order) \in Nat
      BY <2>1, OrderSeen DEF QueueInv
    <3> QED BY <2>1, <3>1 DEF Queued
  <2>4. tx \in Seen
    BY <2>1, <2>3, OrderSeen
  <2> HIDE DEF tx, k
  <2> DEFINE t == [tx |-> tx, ops |-> ops, checkpoint |-> {}]
  <2>5. Complete(t)
    BY <2>1, <2>4, DecodedComplete
  <2>7. replay'.txs = Append(replay.txs, t)
    BY <2>2
  <2> HIDE DEF t
  <2>8. History' = History
    BY <2>1 DEF History
  <2>9. \A u : Complete(u)' = Complete(u)
    BY <2>8 DEF Complete
  <2> DEFINE n == Len(replay.txs)
  <2>10. /\ n \in Nat /\ DOMAIN replay.txs = 1 .. n
         /\ DOMAIN replay'.txs = 1 .. n + 1 /\ replay'.txs[n + 1] = t
         /\ \A j \in 1 .. n : replay'.txs[j] = replay.txs[j]
    <3>1. replay.txs \in Seq(ToSet(replay.txs))
      BY DEF FileInv
    <3> QED BY <2>7, <3>1, Appended
  <2> HIDE DEF n
  <2>11. ASSUME NEW j \in DOMAIN replay'.txs
         PROVE  Complete(replay'.txs[j])
    <3>1. CASE j = n + 1
      BY <2>5, <2>10, <3>1
    <3>2. CASE j # n + 1
      <4>1. j \in 1 .. n
        BY <2>10, <3>2
      <4> QED BY <2>10, <4>1 DEF OpsInv
    <3> QED BY <3>1, <3>2
  <2> QED BY <2>1, <2>8, <2>9, <2>10, <2>11 DEF OpsInv
<1> QED BY <1>1, <1>2

\* The file keeps the operations.
LEMMA WriteOps == ASSUME FileInv, OpsInv, WriteFixture PROVE OpsInv'
<1>1. /\ UNCHANGED <<input, traces, replay, faults>>
      /\ \A f \in file' : f.txs = [i \in DOMAIN replay.txs |->
           [replay.txs[i] EXCEPT !.checkpoint =
              {queue.results[k] : k \in DOMAIN queue.results \cap {i}}]]
  BY Written
<1>2. History' = History
  BY <1>1 DEF History
<1>3. \A t : Complete(t)' = Complete(t)
  BY <1>2 DEF Complete
<1>4. ASSUME NEW f \in file', NEW i \in DOMAIN f.txs PROVE Complete(f.txs[i])
  <2> DEFINE c == {queue.results[k] : k \in DOMAIN queue.results \cap {i}}
             r == replay.txs[i]
  <2>1. i \in DOMAIN replay.txs /\ f.txs[i] = [r EXCEPT !.checkpoint = c]
    BY <1>1
  <2>2. DOMAIN r = {"tx", "ops", "checkpoint"} /\ Complete(r)
    BY <2>1 DEF OpsInv, FileInv
  <2> HIDE DEF r, c
  <2>3. f.txs[i].tx = r.tx /\ f.txs[i].ops = r.ops
    BY <2>1, <2>2
  <2> QED BY <2>2, <2>3 DEF Complete
<1> QED BY <1>1, <1>2, <1>3, <1>4 DEF OpsInv

\* The invariant of the operations is inductive.
LEMMA NextOps ==
  ASSUME NoBeforeHooks, MaxFaults <= 1, QueueInv, LogsInv, FileInv, OpsInv, [Next]_vars
  PROVE  OpsInv'
<1> DEFINE quiet == /\ UNCHANGED <<input, traces, file>> /\ replay'.txs = replay.txs
                    /\ faults' = faults \/ faults' = faults \cup {"request"}
<1>1. CASE quiet
  BY <1>1, QuietOps
<1>2. CASE RequestFails
  BY <1>2, QuietOps DEF RequestFails, Drops
<1>3. ASSUME NEW t \in queue.tasks, CheckpointFails(t) \/ CheckpointArrives(t) PROVE OpsInv'
  <2>1. quiet
    BY <1>3 DEF CheckpointFails, CheckpointArrives, Becomes
  <2> QED BY <1>1, <2>1
<1>4. ASSUME NEW i \in fetch.running, NEW lost, LogsArrive(i, lost) PROVE OpsInv'
  BY <1>4, LogsOps
<1>5. ASSUME NEW i \in fetch.running, NEW without, TraceArrives(i, without) PROVE OpsInv'
  BY <1>5, TraceOps
<1>6. CASE LoadInitialPool
  <2>1. CASE ~Loadable
    BY <1>6, <2>1, LoadSplit, QuietOps DEF Abort, Drops
  <2>2. CASE Loadable
    <3> DEFINE loaded == {PoolSnapshot(PoolAtBlock(Args.start))}
    <3>1. replay' = [replay EXCEPT !.initial = loaded] /\ UNCHANGED <<input, traces, file, faults>>
      BY <1>6, <2>2, LoadSplit
    <3> HIDE DEF loaded
    <3>2. replay'.txs = replay.txs
      BY <3>1 DEF QueueInv
    <3> QED BY <3>1, <3>2, QuietOps
  <2> QED BY <2>1, <2>2
<1>7. CASE StartRequest
  <2>1. quiet
    BY <1>7 DEF StartRequest
  <2> QED BY <1>1, <2>1
<1>8. CASE ScanTransactions
  <2>1. UNCHANGED <<input, traces, replay, file, faults>>
    BY <1>8, Zenon DEF ScanTransactions, Abort, Drops
  <2>2. quiet
    BY <2>1
  <2> QED BY <1>1, <2>2
<1>9. CASE TracesDone
  <2>1. Abort \/ ReplayBegins
    BY <1>9, TracesSplit
  <2>2. CASE Abort
    BY <2>2, QuietOps DEF Abort, Drops
  <2>3. CASE ReplayBegins
    <3> DEFINE pools == {PoolOf(s) : s \in replay.initial}
    <3>1. replay' = [replay EXCEPT !.pools = pools] /\ UNCHANGED <<input, traces, file, faults>>
      BY <2>3 DEF ReplayBegins
    <3> HIDE DEF pools
    <3>2. replay'.txs = replay.txs
      BY <3>1 DEF QueueInv
    <3> QED BY <3>1, <3>2, QuietOps
  <2> QED BY <2>1, <2>2, <2>3
<1>10. CASE ReplayTransaction
  BY <1>10, ReplayedOps
<1>11. CASE PushCheckpoint
  <2>1. replay' = [replay EXCEPT !.waiting = {}] /\ UNCHANGED <<input, traces, file, faults>>
    BY <1>11 DEF PushCheckpoint
  <2>2. replay'.txs = replay.txs
    BY <2>1 DEF QueueInv
  <2> QED BY <2>1, <2>2, QuietOps
<1>12. CASE WriteFixture
  BY <1>12, WriteOps
<1>13. ASSUME NEW t \in queue.tasks, CollectNext(t) PROVE OpsInv'
  <2>1. UNCHANGED <<input, traces, replay, file, faults>>
    BY <1>13, Zenon DEF CollectNext, Abort, Drops
  <2>2. quiet
    BY <2>1
  <2> QED BY <1>1, <2>2
<1>14. CASE UNCHANGED vars
  <2>1. quiet
    BY <1>14 DEF vars
  <2> QED BY <1>1, <2>1
<1> QED BY <1>2, <1>3, <1>4, <1>5, <1>6, <1>7, <1>8, <1>9, <1>10, <1>11, <1>12, <1>13, <1>14
        DEF Next, Answers, Steps

\* Whatever the histories hold, as long as no call is made in a before-hook, and
\* unless both logs and frames are missing from answers: a transaction of the
\* file has all the operations the chain executed, in that order.  The count in
\* decode_operations refuses every other trace.
THEOREM FixtureIsComplete ==
  ASSUME NoBeforeHooks, MaxFaults <= 1
  PROVE  Spec => []TransactionsAreComplete
<1>1. Init => QueueInv /\ LogsInv /\ FileInv /\ OpsInv
  BY InitQueue, InitLogs, InitFile, InitOps
<1>2. QueueInv /\ LogsInv /\ FileInv /\ OpsInv /\ [Next]_vars
        => QueueInv' /\ LogsInv' /\ FileInv' /\ OpsInv'
  BY NextQueue, NextLogs, NextFile, NextOps
<1>3. OpsInv => TransactionsAreComplete
  BY DEF OpsInv, TransactionsAreComplete, Complete
<1> QED BY <1>1, <1>2, <1>3, PTL DEF Spec

-----------------------------------------------------------------------------
(* The transactions of the range                                               *)

\* The last transaction up to a block.
LEMMA LastTxIs ==
  ASSUME NEW h \in Histories, NEW b \in Nat
  PROVE  /\ LastTxOf(h, b) \in 0 .. Len(h.txs) /\ Len(h.txs) \in Nat
         /\ DOMAIN h.txs = 1 .. Len(h.txs)
         /\ \A i \in 1 .. Len(h.txs) : h.txs[i].block <= b <=> i <= LastTxOf(h, b)
<1> DEFINE n == Len(h.txs)
           S == {0} \cup {i \in DOMAIN h.txs : h.txs[i].block <= b}
           T == {n - i : i \in S}
<1>1. /\ n \in Nat
      /\ DOMAIN h.txs = 1 .. n
      /\ \A i \in 1 .. n : h.txs[i].block \in Nat
      /\ \A i, j \in 1 .. n : i <= j => h.txs[i].block <= h.txs[j].block
  BY HistoryKnown
<1>2. S \in SUBSET (0 .. n) /\ 0 \in S
      /\ \A i \in 1 .. n : h.txs[i].block <= b <=> i \in S
  BY <1>1
<1>3. LastTxOf(h, b) = Max(S)
  BY DEF LastTxOf
<1> HIDE DEF S, n
<1>4. \E m \in S : \A i \in S : m >= i
  <2>1. T \in SUBSET Nat /\ T # {}
    BY <1>1, <1>2
  <2>2. PICK d \in T : \A e \in T : d <= e
    BY <2>1, LeastNatural
  <2>3. PICK m \in S : d = n - m
    BY <2>2
  <2>4. ASSUME NEW i \in S PROVE m >= i
    <3>1. n - i \in T
      OBVIOUS
    <3>2. d <= n - i
      BY <2>2, <3>1
    <3>3. m \in Int /\ i \in Int /\ n \in Int
      BY <1>1, <1>2
    <3> QED BY <2>3, <3>2, <3>3
  <2> QED BY <2>4
<1>5. Max(S) \in S /\ \A i \in S : Max(S) >= i
  BY <1>4 DEF Max
<1> DEFINE m == Max(S)
<1> HIDE DEF m
<1>6. m \in 0 .. n /\ m \in S /\ \A i \in S : i <= m
  BY <1>1, <1>2, <1>5 DEF m
<1>7. ASSUME NEW i \in 1 .. n PROVE h.txs[i].block <= b <=> i <= m
  <2>1. ASSUME i <= m PROVE i \in S
    <3>1. m \in 1 .. n /\ h.txs[m].block <= b
      BY <1>1, <1>2, <1>6, <2>1
    <3>2. h.txs[i].block <= h.txs[m].block
      BY <1>1, <2>1, <3>1
    <3>3. h.txs[i].block \in Nat /\ h.txs[m].block \in Nat
      BY <1>1, <3>1
    <3>4. h.txs[i].block <= b
      BY <3>1, <3>2, <3>3
    <3> QED BY <1>2, <3>4
  <2>2. ASSUME i \in S PROVE i <= m
    BY <1>6, <2>2
  <2> QED BY <1>2, <2>1, <2>2
<1> QED BY <1>1, <1>3, <1>6, <1>7 DEF m, n

\* The last transactions up to the start and up to the end.
TxBefore == LastTxOf(History, Args.start)
TxUpTo   == LastTxOf(History, Args.end)

\* With all logs at hand, the transactions seen are those of the range.
LEMMA SeenIs ==
  ASSUME NoBeforeHooks, InputKnown, LogsSound, LogsRead, Args.start < Args.end
  PROVE  /\ TxBefore \in Nat /\ TxUpTo \in Nat /\ TxBefore <= TxUpTo
         /\ Seen = TxBefore + 1 .. TxUpTo
         /\ \A tx \in Seen : tx \in DOMAIN History.txs /\ InRange(History.txs[tx].block)
         /\ \A tx \in DOMAIN History.txs : InRange(History.txs[tx].block) => tx \in Seen
<1> DEFINE n == Len(History.txs)
           a == Args.start
           z == Args.end
<1>1. History \in Histories /\ a \in Nat /\ z \in Nat /\ a < z
  BY ReplayAssumption DEF InputKnown
<1>2. /\ TxBefore \in 0 .. n /\ TxUpTo \in 0 .. n /\ n \in Nat /\ DOMAIN History.txs = 1 .. n
      /\ \A i \in 1 .. n : History.txs[i].block <= a <=> i <= TxBefore
      /\ \A i \in 1 .. n : History.txs[i].block <= z <=> i <= TxUpTo
  BY <1>1, LastTxIs DEF TxBefore, TxUpTo
<1>3. \A i \in 1 .. n : History.txs[i].block \in Nat
  BY <1>1, <1>2, HistoryKnown
<1>4. \A i : InRange(History.txs[i].block) <=> (a < History.txs[i].block /\ History.txs[i].block <= z)
  BY DEF InRange
<1> HIDE DEF a, z, n
<1>5. TxBefore <= TxUpTo
  <2>1. CASE TxBefore = 0
    BY <1>2, <2>1
  <2>2. CASE TxBefore # 0
    <3>1. TxBefore \in 1 .. n
      BY <1>2, <2>2
    <3>2. History.txs[TxBefore].block <= a /\ History.txs[TxBefore].block \in Nat
      BY <1>2, <1>3, <3>1
    <3>3. History.txs[TxBefore].block <= z
      BY <1>1, <3>2
    <3> QED BY <1>2, <3>1, <3>3
  <2> QED BY <2>1, <2>2
<1>6. \A i \in 1 .. n : InRange(History.txs[i].block) <=> i \in TxBefore + 1 .. TxUpTo
  <2>1. ASSUME NEW i \in 1 .. n PROVE InRange(History.txs[i].block) <=> i \in TxBefore + 1 .. TxUpTo
    <3>1. ~(History.txs[i].block <= a) <=> a < History.txs[i].block
      BY <1>1, <1>3
    <3>2. a < History.txs[i].block <=> TxBefore < i
      BY <1>2, <3>1
    <3> QED BY <1>2, <1>4, <3>2
  <2> QED BY <2>1
<1>7. ASSUME NEW tx \in Seen PROVE tx \in 1 .. n /\ InRange(History.txs[tx].block)
  <2>1. tx \in 1 .. n
    BY <1>2 DEF Seen
  <2>2. PICK l \in ToSet(logs) : l.tx = tx
    BY DEF Seen
  <2>3. l \in RangeLogs
    <3>1. PICK k \in DOMAIN logs : logs[k] = l
      BY <2>2 DEF ToSet
    <3> QED BY <3>1 DEF LogsSound
  <2> QED BY <2>1, <2>2, <2>3, ChainLogsKnown
<1>8. ASSUME NEW tx \in 1 .. n, InRange(History.txs[tx].block) PROVE tx \in Seen
  <2> DEFINE L == ChainLogs[History]
             P == {p \in DOMAIN L : L[p].tx = tx}
  <2>1. LogOrder(History, L)
    BY ChainLogsKnown
  <2>2. Cardinality(P) = Ops(History, tx)
    BY <1>2, <2>1 DEF LogOrder
  <2>3. Ops(History, tx) # 0
    <3> DEFINE S == Persisted(History.txs[tx].frames)
    <3>1. S # {}
      BY <1>1, <1>2, HistoryAssumption DEF ToSet
    <3>2. IsFiniteSet(S)
      BY <1>1, <1>2, PersistedFinite
    <3> HIDE DEF S
    <3>3. Cardinality(S) # 0
      BY <3>1, <3>2, FS_EmptySet
    <3> QED BY <3>3 DEF Ops, S
  <2>4. P # {}
    <3> HIDE DEF P
    <3> QED BY <2>2, <2>3, FS_EmptySet
  <2>5. PICK p \in DOMAIN L : L[p].tx = tx
    BY <2>4
  <2>6. L[p].block = History.txs[tx].block
    BY <2>1, <2>5 DEF LogOrder
  <2>7. L[p] \in RangeLogs
    <3>1. L[p] \in ToSet(L) /\ InRange(L[p].block)
      BY <1>8, <2>6 DEF ToSet
    <3> QED BY <3>1 DEF RangeLogs
  <2>8. L[p] \in ToSet(logs)
    BY <2>7 DEF LogsRead
  <2> QED BY <1>2, <2>5, <2>8 DEF Seen
<1>9. Seen = TxBefore + 1 .. TxUpTo
  <2>1. \A tx \in Seen : tx \in TxBefore + 1 .. TxUpTo
    BY <1>6, <1>7
  <2>2. \A tx \in TxBefore + 1 .. TxUpTo : tx \in 1 .. n
    BY <1>2
  <2>3. \A tx \in TxBefore + 1 .. TxUpTo : tx \in Seen
    BY <1>6, <1>8, <2>2
  <2> QED BY <2>1, <2>3
<1> QED BY <1>2, <1>5, <1>7, <1>8, <1>9

\* The logs of an earlier transaction come first.
LEMMA SeenInOrder ==
  ASSUME NoBeforeHooks, InputKnown, LogsSound, NEW t \in Seen, NEW u \in Seen, t < u
  PROVE  FirstLog(t) < FirstLog(u)
<1> DEFINE k == FirstLog(t)
           m == FirstLog(u)
           L == ChainLogs[History]
           S == SortedLogs
<1>1. /\ k \in DOMAIN S /\ k \in Nat /\ S[k].tx = t
      /\ m \in DOMAIN S /\ m \in Nat /\ S[m].tx = u
  BY FirstLogIs
<1>2. t \in Nat /\ u \in Nat
  BY HistoryKnown DEF InputKnown, Seen
<1>3. /\ S \in Seq(RangeLogs)
      /\ \A i, j \in DOMAIN S : i < j => \/ S[i].block < S[j].block
                                         \/ S[i].block = S[j].block /\ S[i].index <= S[j].index
  BY SortedIs
<1>4. LogOrder(History, L)
  BY ChainLogsKnown
<1>5. S[k] \in RangeLogs /\ S[m] \in RangeLogs
  BY <1>1, <1>3
<1>6. PICK p \in DOMAIN L : L[p] = S[k]
  BY <1>5, ChainLogsKnown
<1>7. PICK q \in DOMAIN L : L[q] = S[m]
  BY <1>5, ChainLogsKnown
<1> HIDE DEF L, S, k, m
<1>8. p \in Nat /\ q \in Nat /\ L[p].block \in Nat /\ L[q].block \in Nat
      /\ L[p].index \in Nat /\ L[q].index \in Nat
  BY <1>4 DEF LogOrder
<1>9. p < q
  <2>1. p # q
    BY <1>1, <1>2, <1>6, <1>7
  <2>2. ~(q < p)
    <3> SUFFICES ASSUME q < p PROVE FALSE
      OBVIOUS
    <3>1. L[q].tx <= L[p].tx
      BY <1>4 DEF LogOrder
    <3> QED BY <1>1, <1>2, <1>6, <1>7, <3>1
  <2> QED BY <1>8, <2>1, <2>2
<1>10. L[p].block <= L[q].block /\ (L[p].block = L[q].block => L[p].index < L[q].index)
  BY <1>4, <1>9 DEF LogOrder
<1>11. ~(m < k)
  <2> SUFFICES ASSUME m < k PROVE FALSE
    OBVIOUS
  <2>1. \/ S[m].block < S[k].block
        \/ S[m].block = S[k].block /\ S[m].index <= S[k].index
    BY <1>1, <1>3
  <2> QED BY <1>6, <1>7, <1>8, <1>10, <2>1
<1>12. k # m
  BY <1>1, <1>2
<1>13. k < m
  BY <1>1, <1>11, <1>12
<1> QED BY <1>13 DEF k, m

\* ... so they are listed in chain order.
LEMMA TxOrderIsChainOrder ==
  ASSUME NoBeforeHooks, InputKnown, LogsSound, LogsRead, Args.start < Args.end
  PROVE  Len(TxOrder) = TxUpTo - TxBefore /\ \A k \in 1 .. Len(TxOrder) : TxOrder[k] = TxBefore + k
<1>1. /\ TxBefore \in Nat /\ TxUpTo \in Nat /\ TxBefore <= TxUpTo /\ Seen = TxBefore + 1 .. TxUpTo
  BY SeenIs
<1>2. /\ IsFiniteSet(Seen) /\ TotalOrder(Seen, BySeen) /\ Ordered(TxOrder, Seen, BySeen)
      /\ Len(TxOrder) = Cardinality(Seen) /\ TxOrder \in [1 .. Len(TxOrder) -> Seen]
  BY TxOrderIs
<1> DEFINE n == TxUpTo - TxBefore
<1>3. n \in Nat /\ Cardinality(Seen) = n
  <2>1. Cardinality(TxBefore + 1 .. TxUpTo) = IF TxBefore + 1 > TxUpTo THEN 0 ELSE TxUpTo - (TxBefore + 1) + 1
    <3>1. TxBefore + 1 \in Int /\ TxUpTo \in Int
      BY <1>1
    <3> QED BY <3>1, FS_Interval
  <2>2. n \in Nat /\ IF TxBefore + 1 > TxUpTo THEN n = 0 ELSE TxUpTo - (TxBefore + 1) + 1 = n
    BY <1>1
  <2> QED BY <1>1, <2>1, <2>2
<1>4. ASSUME NEW t \in Seen PROVE Below(Seen, BySeen, t) = TxBefore + 1 .. t - 1
  <2>1. t \in Int /\ TxBefore + 1 <= t /\ t <= TxUpTo
    BY <1>1
  <2>2. ASSUME NEW u \in Seen PROVE <<u, t>> \in BySeen <=> u < t
    <3>1. <<u, t>> \in BySeen <=> FirstLog(u) < FirstLog(t)
      BY DEF BySeen
    <3>2. FirstLog(u) \in Nat /\ FirstLog(t) \in Nat
      BY FirstLogIs
    <3>3. u < t => FirstLog(u) < FirstLog(t)
      BY SeenInOrder
    <3>4. t < u => FirstLog(t) < FirstLog(u)
      BY SeenInOrder
    <3>5. u \in Int
      BY <1>1
    <3> QED BY <2>1, <3>1, <3>2, <3>3, <3>4, <3>5
  <2>3. ASSUME NEW u \in Int PROVE u \in Seen /\ u < t <=> u \in TxBefore + 1 .. t - 1
    BY <1>1, <2>1
  <2>4. Below(Seen, BySeen, t) = {u \in Seen : u < t}
    BY <2>2 DEF Below
  <2>5. \A u \in Seen : u \in Int
    BY <1>1
  <2>6. \A u \in TxBefore + 1 .. t - 1 : u \in Seen /\ u < t
    BY <1>1, <2>1
  <2>7. \A u \in Seen : u < t => u \in TxBefore + 1 .. t - 1
    BY <2>3, <2>5
  <2> QED BY <2>4, <2>6, <2>7
<1>5. ASSUME NEW k \in 1 .. n PROVE TxOrder[k] = TxBefore + k
  <2> DEFINE t == TxOrder[k]
  <2>1. t \in Seen /\ Cardinality(Below(Seen, BySeen, t)) = k - 1
    BY <1>2, <1>3 DEF Ordered
  <2> HIDE DEF t
  <2>2. t \in Int /\ TxBefore + 1 <= t /\ t <= TxUpTo
    BY <1>1, <2>1
  <2>3. Cardinality(TxBefore + 1 .. t - 1) = k - 1
    BY <1>4, <2>1
  <2>4. /\ TxBefore + 1 \in Int /\ t - 1 \in Int
        /\ Cardinality(TxBefore + 1 .. t - 1) = IF TxBefore + 1 > t - 1 THEN 0 ELSE (t - 1) - (TxBefore + 1) + 1
    <3>1. TxBefore + 1 \in Int /\ t - 1 \in Int
      BY <1>1, <2>2
    <3> QED BY <3>1, FS_Interval
  <2>5. IF TxBefore + 1 > t - 1 THEN t = TxBefore + 1 ELSE (t - 1) - (TxBefore + 1) + 1 = t - TxBefore - 1
    BY <1>1, <2>2
  <2>6. t = TxBefore + k
    BY <1>1, <2>2, <2>3, <2>4, <2>5
  <2> QED BY <2>6 DEF t
<1> QED BY <1>2, <1>3, <1>5

\* A transaction that logs name has a first log, of its own block.
LEMMA BlockIs ==
  ASSUME NoBeforeHooks, InputKnown, LogsSound, NEW tx \in Seen
  PROVE  LogsOf(tx)[1].block = History.txs[tx].block
<1> DEFINE P == {k \in DOMAIN SortedLogs : SortedLogs[k].tx = tx}
           n == Len(LogsOf(tx))
<1>1. /\ n \in Nat /\ n = Cardinality(P) /\ IsFiniteSet(P)
      /\ \A k \in 1 .. n : LogsOf(tx)[k] \in RangeLogs /\ LogsOf(tx)[k].tx = tx
  BY LogsOfIs
<1>2. FirstLog(tx) \in P
  BY FirstLogIs
<1> HIDE DEF P, n
<1>3. n # 0
  BY <1>1, <1>2, FS_EmptySet
<1>4. 1 \in 1 .. n
  BY <1>1, <1>3
<1> DEFINE l == LogsOf(tx)[1]
<1>5. l \in RangeLogs /\ l.tx = tx
  BY <1>1, <1>4
<1> HIDE DEF l
<1>6. l.block = History.txs[l.tx].block
  BY <1>5, ChainLogsKnown
<1> QED BY <1>5, <1>6 DEF l

\* The checkpoints are those of the last transactions of their blocks.
LEMMA CheckpointsAreLast ==
  ASSUME NoBeforeHooks, InputKnown, LogsSound, LogsRead, Args.start < Args.end,
         NEW tx \in Seen
  PROVE  tx \in CheckpointTxs(TxOrder) <=> tx = LastTxOf(History, History.txs[tx].block)
<1> DEFINE n == Len(TxOrder)
           b == History.txs[tx].block
           last == LastTxOf(History, b)
           block(u) == History.txs[u].block
<1>1. /\ TxBefore \in Nat /\ TxUpTo \in Nat /\ TxBefore <= TxUpTo /\ Seen = TxBefore + 1 .. TxUpTo
      /\ \A u \in Seen : u \in DOMAIN History.txs /\ InRange(block(u))
      /\ \A u \in DOMAIN History.txs : InRange(block(u)) => u \in Seen
  BY SeenIs
<1>2. n = TxUpTo - TxBefore /\ \A k \in 1 .. n : TxOrder[k] = TxBefore + k
  BY TxOrderIsChainOrder
<1>3. n \in Nat /\ DOMAIN TxOrder = 1 .. n
  BY TxOrderIs
<1>4. History \in Histories
  BY DEF InputKnown
<1>5. /\ DOMAIN History.txs = 1 .. Len(History.txs) /\ Len(History.txs) \in Nat
      /\ \A i \in DOMAIN History.txs : block(i) \in Nat
      /\ \A i, j \in DOMAIN History.txs : i <= j => block(i) <= block(j)
  BY <1>4, HistoryKnown
<1>6. tx \in DOMAIN History.txs /\ b \in Nat
  BY <1>1, <1>5
<1>7. /\ last \in 0 .. Len(History.txs)
      /\ \A i \in 1 .. Len(History.txs) : block(i) <= b <=> i <= last
  BY <1>4, <1>6, LastTxIs
<1>8. CheckpointTxs(TxOrder) =
        {TxOrder[i] : i \in {j \in 1 .. n : \A k \in j + 1 .. n :
                               LogsOf(TxOrder[k])[1].block # LogsOf(TxOrder[j])[1].block}}
  BY <1>3 DEF CheckpointTxs
<1> HIDE DEF n, last, block
<1>9. ASSUME NEW k \in 1 .. n PROVE TxOrder[k] \in Seen /\ LogsOf(TxOrder[k])[1].block = block(TxBefore + k)
  <2>1. TxBefore + k \in Seen /\ TxOrder[k] = TxBefore + k
    BY <1>1, <1>2, <1>3
  <2> QED BY <2>1, BlockIs DEF block
<1> DEFINE j == tx - TxBefore
<1>10. j \in 1 .. n /\ TxOrder[j] = tx /\ TxBefore + j = tx
  <2>1. j \in 1 .. n /\ TxBefore + j = tx
    BY <1>1, <1>2, <1>3
  <2> QED BY <1>2, <2>1
<1> HIDE DEF j
<1>11. tx \in CheckpointTxs(TxOrder) <=> \A k \in j + 1 .. n : block(TxBefore + k) # block(tx)
  <2>1. \A i \in 1 .. n : TxOrder[i] = tx <=> i = j
    BY <1>1, <1>2, <1>10
  <2>2. \A k \in j + 1 .. n : k \in 1 .. n
    BY <1>3, <1>10
  <2>3. \A k \in j + 1 .. n : /\ LogsOf(TxOrder[k])[1].block = block(TxBefore + k)
                              /\ LogsOf(TxOrder[j])[1].block = block(tx)
    BY <1>9, <1>10, <2>2
  <2>4. tx \in CheckpointTxs(TxOrder) <=>
          \A k \in j + 1 .. n : LogsOf(TxOrder[k])[1].block # LogsOf(TxOrder[j])[1].block
    BY <1>8, <1>10, <2>1
  <2> QED BY <2>3, <2>4
<1>12. b = block(tx) /\ InRange(b)
  BY <1>1 DEF block
<1>13. tx <= last
  BY <1>5, <1>6, <1>7, <1>12
<1>14. ASSUME tx # last PROVE \E k \in j + 1 .. n : block(TxBefore + k) = block(tx)
  <2>1. last \in DOMAIN History.txs /\ tx < last
    BY <1>5, <1>6, <1>7, <1>13, <1>14
  <2>2. block(last) <= b /\ block(tx) <= block(last)
    BY <1>5, <1>6, <1>7, <2>1
  <2>3. block(last) = b
    BY <1>5, <1>6, <1>12, <2>1, <2>2
  <2>4. last \in Seen
    BY <1>1, <1>12, <2>1, <2>3
  <2>5. last - TxBefore \in j + 1 .. n /\ TxBefore + (last - TxBefore) = last
    BY <1>1, <1>2, <1>3, <1>10, <2>1, <2>4
  <2> QED BY <1>12, <2>3, <2>5
<1>15. ASSUME tx = last, NEW k \in j + 1 .. n PROVE block(TxBefore + k) # block(tx)
  <2>1. TxBefore + k \in Seen /\ tx < TxBefore + k
    BY <1>1, <1>2, <1>3, <1>10
  <2>2. TxBefore + k \in DOMAIN History.txs
    BY <1>1, <2>1
  <2>3. ~(block(TxBefore + k) <= b)
    BY <1>5, <1>7, <1>6, <1>15, <2>1, <2>2
  <2>4. block(TxBefore + k) \in Nat
    BY <1>5, <2>2
  <2> QED BY <1>6, <1>12, <2>3, <2>4
<1> QED BY <1>11, <1>14, <1>15 DEF last, b

\* What the logs, all of them, make of the file.
LEMMA FileIsPrefix ==
  ASSUME NoBeforeHooks, QueueInv, LogsInv, FileInv
  PROVE  FixtureIsChainPrefix
<1> SUFFICES ASSUME NEW f \in file, LogsComplete
             PROVE  /\ Len(f.txs) = Min({TxUpTo - TxBefore, Args.maxTransactions})
                    /\ \A k \in DOMAIN f.txs :
                         /\ f.txs[k].tx = TxBefore + k
                         /\ f.txs[k].checkpoint # {} <=>
                              f.txs[k].tx = LastTxOf(History, History.txs[f.txs[k].tx].block)
  BY Zenon DEF FixtureIsChainPrefix, TxBefore, TxUpTo
<1>1. phase = "written"
  BY DEF FileInv
<1>2. LogsRead /\ InputKnown /\ LogsSound /\ Args.start < Args.end
  BY <1>1 DEF LogsInv, LogsComplete
<1>3. Len(TxOrder) = TxUpTo - TxBefore /\ \A k \in 1 .. Len(TxOrder) : TxOrder[k] = TxBefore + k
  BY <1>2, TxOrderIsChainOrder
<1> DEFINE n == Len(scan.order)
<1>4. /\ n \in Nat /\ n = Min({Len(TxOrder), Args.maxTransactions}) /\ n <= Len(TxOrder)
      /\ \A k \in 1 .. n : scan.order[k] = TxOrder[k] /\ scan.order[k] \in Seen
  BY <1>1, OrderSeen
<1>5. scan.checkpoints = CheckpointTxs(TxOrder)
  <2> DEFINE order == SubSeq(TxOrder, 1, Min({Len(TxOrder), Args.maxTransactions}))
             last == CheckpointTxs(TxOrder)
  <2>1. scan = [order |-> order, checkpoints |-> last]
    BY <1>1 DEF LogsInv
  <2> HIDE DEF order, last
  <2>2. scan.checkpoints = last
    BY <2>1
  <2> QED BY <2>2 DEF last
<1>6. /\ replay.next <= n + 1 /\ Len(replay.txs) = replay.next - 1 /\ replay.next > n
      /\ replay.waiting = {} /\ queue.tasks = {}
      /\ \A k \in DOMAIN replay.txs : replay.txs[k].tx = scan.order[k]
      /\ DOMAIN f.txs = DOMAIN replay.txs /\ Len(f.txs) = Len(replay.txs)
  BY <1>1 DEF FileInv
<1>7. \A k \in DOMAIN f.txs : /\ f.txs[k].tx = replay.txs[k].tx
                              /\ f.txs[k].checkpoint # {} <=> k \in DOMAIN queue.results
  BY DEF FileInv
<1>8. DOMAIN replay.txs = 1 .. Len(replay.txs)
  <2>1. replay.txs \in Seq(ToSet(replay.txs))
    BY DEF FileInv
  <2> QED BY <2>1
<1>9. /\ replay.next \in Nat \ {0}
      /\ DOMAIN queue.results = {i \in 1 .. replay.next - 1 : scan.order[i] \in scan.checkpoints}
  <2>1. Queued
    BY <1>1 DEF QueueInv
  <2>2. Waiting = {} /\ Open = {}
    BY <1>6 DEF Waiting, Open
  <2> QED BY <2>1, <2>2 DEF Queued, Fetched, Due
<1> HIDE DEF n
<1>10. replay.next - 1 = n
  BY <1>4, <1>6, <1>9
<1>11. Len(f.txs) = n /\ DOMAIN f.txs = 1 .. n
  BY <1>6, <1>8, <1>10
<1>12. ASSUME NEW k \in 1 .. n
       PROVE  /\ f.txs[k].tx = TxBefore + k
              /\ f.txs[k].checkpoint # {} <=>
                   f.txs[k].tx = LastTxOf(History, History.txs[f.txs[k].tx].block)
  <2>1. f.txs[k].tx = scan.order[k] /\ scan.order[k] = TxOrder[k] /\ scan.order[k] \in Seen
    BY <1>4, <1>6, <1>7, <1>11
  <2>2. k \in 1 .. Len(TxOrder)
    <3>1. Len(TxOrder) \in Nat
      BY <1>2, TxOrderIs
    <3> QED BY <1>4, <3>1
  <2>3. f.txs[k].checkpoint # {} <=> scan.order[k] \in CheckpointTxs(TxOrder)
    BY <1>5, <1>7, <1>9, <1>10, <1>11
  <2>4. scan.order[k] \in CheckpointTxs(TxOrder)
          <=> scan.order[k] = LastTxOf(History, History.txs[scan.order[k]].block)
    BY <1>2, <2>1, CheckpointsAreLast
  <2> QED BY <1>3, <2>1, <2>2, <2>3, <2>4
<1>13. Len(f.txs) = Min({TxUpTo - TxBefore, Args.maxTransactions})
  BY <1>3, <1>4, <1>11
<1> QED BY <1>11, <1>12, <1>13

\* Whatever the histories hold, as long as no call is made in a before-hook, in
\* whatever chunks and order the logs come: when none of them is missing, the
\* file holds the first transactions of the range in chain order, none twice and
\* none skipped, and those that are the last of their blocks have a checkpoint:
\* scan_transactions, checkpoint_tx_hashes, replay_and_checkpoint.
THEOREM FixtureIsPrefix ==
  ASSUME NoBeforeHooks
  PROVE  Spec => []FixtureIsChainPrefix
<1>1. Init => QueueInv /\ LogsInv /\ FileInv
  BY InitQueue, InitLogs, InitFile
<1>2. QueueInv /\ LogsInv /\ FileInv /\ [Next]_vars => QueueInv' /\ LogsInv' /\ FileInv'
  BY NextQueue, NextLogs, NextFile
<1>3. QueueInv /\ LogsInv /\ FileInv => FixtureIsChainPrefix
  BY FileIsPrefix
<1> QED BY <1>1, <1>2, <1>3, PTL DEF Spec

-----------------------------------------------------------------------------
\* c cuts s in n parts of the given size, the last one may be shorter.
Batched(c, s, size, n) ==
  /\ n * size >= Len(s)
  /\ \A i \in 1 .. n :
       /\ (i - 1) * size < Len(s)
       /\ Len(c[i]) = (IF i * size < Len(s) THEN i * size ELSE Len(s)) - (i - 1) * size
       /\ \A k \in 1 .. Len(c[i]) : c[i][k] = s[(i - 1) * size + k]

\* So do the batches of a request.
LEMMA ChunksAre ==
  ASSUME NEW T, NEW s \in Seq(T), NEW size \in Nat \ {0}
  PROVE  \E n \in Nat : Chunks(s, size) \in [1 .. n -> Seq(T)] /\ Batched(Chunks(s, size), s, size, n)
<1> DEFINE L == Len(s)
           n == (L + size - 1) \div size
           c == Chunks(s, size)
           end(i) == IF i * size < L THEN i * size ELSE L
           chunk(i) == SubSeq(s, (i - 1) * size + 1, end(i))
<1>1. L \in Nat
  OBVIOUS
<1>2. c = [i \in 1 .. n |-> chunk(i)]
  BY DEF Chunks
<1> HIDE DEF c, L
<1>3. /\ n \in Int /\ L <= size * n
      /\ \A k \in Int : n <= k <=> L <= size * k
  BY <1>1, RoundsUp
<1>4. n \in Nat
  <2> HIDE DEF n
  <2>1. CASE n \in Nat
    BY <2>1
  <2>2. CASE n \notin Nat
    <3>1. n <= -1 /\ -1 \in Int
      BY <1>3, <2>2
    <3>2. L <= size * (-1)
      BY <1>3, <3>1
    <3> QED BY <1>1, <3>2
  <2> QED BY <2>1, <2>2
<1> HIDE DEF n
<1>5. ASSUME NEW i \in 1 .. n
      PROVE  /\ chunk(i) \in Seq(T)
             /\ (i - 1) * size < L
             /\ Len(chunk(i)) = end(i) - (i - 1) * size
             /\ \A k \in 1 .. Len(chunk(i)) : chunk(i)[k] = s[(i - 1) * size + k]
  <2> DEFINE a == (i - 1) * size
             e == end(i)
  <2>1. a < L
    <3>1. i - 1 \in Int /\ ~(n <= i - 1)
      BY <1>4
    <3>2. ~(L <= size * (i - 1))
      BY <1>3, <3>1
    <3>3. size * (i - 1) = a /\ a \in Int
      OBVIOUS
    <3> QED BY <1>1, <3>2, <3>3
  <2>2. a \in Nat /\ i * size = a + size
    OBVIOUS
  <2>3. e = (IF a + size < L THEN a + size ELSE L)
    BY <2>2
  <2> HIDE DEF a, e
  <2>4. a < e /\ e <= L /\ e \in Nat
    BY <1>1, <2>1, <2>2, <2>3
  <2>5. /\ SubSeq(s, a + 1, e) \in Seq(T) /\ Len(SubSeq(s, a + 1, e)) = e - a
        /\ \A k \in 1 .. e - a : SubSeq(s, a + 1, e)[k] = s[a + k]
    <3>1. a + 1 \in 1 .. L /\ e \in 1 .. L /\ a + 1 <= e
      BY <1>1, <2>2, <2>4
    <3>2. \A j \in a + 1 .. e : s[j] \in T
      BY <1>1, <2>4, <3>1 DEF L
    <3>3. SubSeq(s, a + 1, e) = [k \in 1 .. e - a |-> s[a + k]]
      <4>1. SubSeq(s, a + 1, e) = [k \in 1 .. (e - (a + 1)) + 1 |-> s[(k + (a + 1)) - 1]]
        BY <3>1 DEF L
      <4>2. (e - (a + 1)) + 1 = e - a /\ \A k \in 1 .. e - a : (k + (a + 1)) - 1 = a + k
        BY <2>2, <2>4
      <4> QED BY <4>1, <4>2
    <3>4. e - a \in Nat /\ \A k \in 1 .. e - a : a + k \in a + 1 .. e
      BY <2>2, <2>4
    <3> DEFINE f == [k \in 1 .. e - a |-> s[a + k]]
    <3>5. f \in [1 .. e - a -> T]
      BY <3>2, <3>4
    <3>6. \A k \in 1 .. e - a : f[k] = s[a + k]
      OBVIOUS
    <3> HIDE DEF f
    <3>7. f \in Seq(T) /\ Len(f) = e - a
      BY <3>4, <3>5
    <3> QED BY <3>3, <3>6, <3>7 DEF f
  <2>6. chunk(i) = SubSeq(s, a + 1, e)
    BY DEF a, e
  <2> DEFINE q == chunk(i)
  <2>7. /\ q \in Seq(T) /\ Len(q) = e - a
        /\ \A k \in 1 .. Len(q) : q[k] = s[a + k]
    <3> HIDE DEF q
    <3>1. q = SubSeq(s, a + 1, e)
      BY <2>6 DEF q
    <3> QED BY <2>5, <3>1
  <2>8. e = end(i) /\ a = (i - 1) * size
    BY DEF a, e
  <2> HIDE DEF chunk, end
  <2> QED BY <2>1, <2>7, <2>8
<1>6. c \in [1 .. n -> Seq(T)] /\ \A i \in 1 .. n : c[i] = chunk(i)
  <2> HIDE DEF chunk
  <2> QED BY <1>2, <1>5
<1>7. n * size >= L
  BY <1>1, <1>3, <1>4
<1>8. Batched(c, s, size, n)
  <2>1. ASSUME NEW i \in 1 .. n
        PROVE  /\ (i - 1) * size < L
               /\ Len(c[i]) = end(i) - (i - 1) * size
               /\ \A k \in 1 .. Len(c[i]) : c[i][k] = s[(i - 1) * size + k]
    <3> HIDE DEF chunk, end
    <3>1. c[i] = chunk(i)
      BY <1>6
    <3>2. /\ (i - 1) * size < L
          /\ Len(chunk(i)) = end(i) - (i - 1) * size
          /\ \A k \in 1 .. Len(chunk(i)) : chunk(i)[k] = s[(i - 1) * size + k]
      BY <1>5
    <3> QED BY <3>1, <3>2
  <2> HIDE DEF chunk
  <2> QED BY <1>7, <2>1 DEF Batched, L
<1> QED BY <1>4, <1>6, <1>8 DEF c

\* The answers to a request in batches are those to its slots, in their order.
LEMMA StorageSlotsAre ==
  ASSUME NEW pool, NEW T, NEW slots \in Seq(T)
  PROVE  \A k \in 1 .. Len(slots) : StorageSlots(pool, slots)[k] = Stored(pool, slots[k])
<1> DEFINE c == Chunks(slots, Batch)
           L == Len(slots)
           W == {Stored(pool, x) : x \in T}
           answer(b) == [i \in DOMAIN c[b] |-> Stored(pool, c[b][i])]
           seqs == [b \in DOMAIN c |-> answer(b)]
           all == StorageSlots(pool, slots)
<1>1. L \in Nat /\ Batch \in Nat \ {0}
  BY StorageAssumption
<1>2. PICK n \in Nat : c \in [1 .. n -> Seq(T)] /\ Batched(c, slots, Batch, n)
  BY <1>1, ChunksAre
<1>3. all = FlattenSeq(seqs)
  BY DEF StorageSlots
<1> HIDE DEF c, all
<1>4. ASSUME NEW b \in 1 .. n
      PROVE  /\ answer(b) \in Seq(W) /\ Len(answer(b)) = Len(c[b])
             /\ \A i \in 1 .. Len(c[b]) : answer(b)[i] = Stored(pool, c[b][i])
  <2> DEFINE d == c[b]
  <2>1. d \in Seq(T)
    BY <1>2
  <2> HIDE DEF d
  <2>2. Len(d) \in Nat /\ DOMAIN d = 1 .. Len(d) /\ \A i \in 1 .. Len(d) : d[i] \in T
    BY <2>1
  <2> DEFINE f == [i \in DOMAIN d |-> Stored(pool, d[i])]
  <2>3. f \in [1 .. Len(d) -> W] /\ \A i \in 1 .. Len(d) : f[i] = Stored(pool, d[i])
    BY <2>2
  <2>4. f \in Seq(W) /\ Len(f) = Len(d)
    <3> HIDE DEF f, W
    <3> QED BY <2>2, <2>3
  <2>5. f = answer(b)
    BY DEF d
  <2> HIDE DEF f, answer
  <2> QED BY <2>3, <2>4, <2>5 DEF d
<1>5. seqs \in [1 .. n -> Seq(W)] /\ \A b \in 1 .. n : seqs[b] = answer(b)
  <2> HIDE DEF answer, W
  <2> QED BY <1>2, <1>4
<1> HIDE DEF seqs, W
<1>6. PICK off : Holds(all, seqs, n, off)
  BY <1>3, <1>5, Flattened
<1>7. \A i \in 0 .. n : off[i] = IF i * Batch < L THEN i * Batch ELSE L
  <2> DEFINE good == {i \in 0 .. n : off[i] = IF i * Batch < L THEN i * Batch ELSE L}
  <2>1. 0 \in good
    <3>1. off[0] = 0 /\ 0 * Batch = 0
      BY <1>1, <1>6 DEF Holds, Offsets
    <3> QED BY <1>1, <3>1
  <2>2. ASSUME NEW j \in 0 .. n - 1, j \in good PROVE j + 1 \in good
    <3> DEFINE i == j + 1
               a == j * Batch
               e == i * Batch
    <3>1. i \in 1 .. n /\ i - 1 = j /\ a \in Nat /\ e = a + Batch
      BY <1>1
    <3>2. /\ off[i] = off[i - 1] + Len(seqs[i])
          /\ Len(seqs[i]) = Len(answer(i)) /\ Len(answer(i)) = Len(c[i])
      <4> HIDE DEF answer, i
      <4> QED BY <1>4, <1>5, <1>6, <3>1 DEF Holds, Offsets
    <3>3. (i - 1) * Batch < L /\ Len(c[i]) = (IF i * Batch < L THEN i * Batch ELSE L) - (i - 1) * Batch
      <4> HIDE DEF i
      <4> QED BY <1>2, <3>1 DEF Batched, L
    <3>4. a < L /\ Len(c[i]) = (IF e < L THEN e ELSE L) - a
      BY <3>1, <3>3
    <3>5. off[j] = a
      BY <2>2, <3>4
    <3>6. off[i] = off[j] + Len(c[i]) /\ i \in 0 .. n
      BY <3>1, <3>2
    <3> HIDE DEF a, e, i, L
    <3>7. off[i] = IF e < L THEN e ELSE L
      BY <1>1, <3>1, <3>4, <3>5, <3>6
    <3> QED BY <3>6, <3>7 DEF e, i
  <2>3. \A i \in 0 .. n : i \in good
    <3>1. good \in SUBSET (0 .. n) /\ 0 \in Int /\ n \in Int
      OBVIOUS
    <3> HIDE DEF good
    <3> QED BY <2>1, <2>2, <3>1, IntervalInduction
  <2> QED BY <2>3
<1>8. ASSUME NEW k \in 1 .. L PROVE all[k] = Stored(pool, slots[k])
  <2> DEFINE q == (k - 1) \div Batch
             r == (k - 1) % Batch
             i == q + 1
             a == q * Batch
             j == r + 1
  <2>1. q \in Int /\ k - 1 = Batch * q + r /\ r \in 0 .. Batch - 1
    BY <1>1, Remainder, DivFloor
  <2>2. Batch * q = a /\ k = a + j /\ j \in 1 .. Batch /\ a \in Int
    BY <1>1, <2>1
  <2> HIDE DEF q, r
  <2>3. q \in Nat
    <3>1. 0 <= k - 1 /\ Batch * 0 <= k - 1 /\ 0 \in Int
      BY <1>1
    <3>2. 0 <= q
      BY <1>1, <3>1, DivLower DEF q
    <3> QED BY <2>1, <3>2
  <2>4. a < L
    BY <1>1, <2>2
  <2>5. i \in 1 .. n /\ i - 1 = q
    <3>1. n * Batch >= L
      BY <1>2 DEF Batched, L
    <3>2. Batch * q < Batch * n
      BY <1>1, <2>2, <2>4, <3>1
    <3>3. q < n
      BY <1>1, <2>1, <3>2, CancelFactor
    <3> QED BY <2>3, <3>3
  <2>6. /\ Len(c[i]) = (IF i * Batch < L THEN i * Batch ELSE L) - a
        /\ \A m \in 1 .. Len(c[i]) : c[i][m] = slots[a + m]
    <3> HIDE DEF i
    <3> QED BY <1>2, <2>5 DEF Batched, L
  <2>7. j \in 1 .. Len(c[i])
    <3>1. i * Batch = a + Batch
      BY <1>1, <2>1
    <3> HIDE DEF i, a, j
    <3> QED BY <1>1, <2>2, <2>6, <3>1
  <2>8. off[i - 1] = a
    <3>1. q \in 0 .. n /\ q * Batch < L
      BY <2>3, <2>4, <2>5
    <3> QED BY <1>7, <2>5, <3>1
  <2> HIDE DEF i, a, j, answer
  <2>9. all[off[i - 1] + j] = seqs[i][j]
    <3>1. seqs[i] = answer(i) /\ Len(answer(i)) = Len(c[i])
      BY <1>4, <1>5, <2>5
    <3> QED BY <1>6, <2>5, <2>7, <3>1 DEF Holds
  <2>10. seqs[i][j] = Stored(pool, c[i][j])
    BY <1>4, <1>5, <2>5, <2>7
  <2> QED BY <2>2, <2>6, <2>7, <2>8, <2>9, <2>10
<1> QED BY <1>8 DEF all, L

\* A signed number in `bits` bits is read back.
LEMMA SignedRead ==
  ASSUME NEW bits \in Nat \ {0}, NEW x \in Signed(bits)
  PROVE  x % 2^bits \in 0 .. 2^bits - 1 /\ SignExtend(x % 2^bits, bits) = x
<1> DEFINE h == 2^(bits - 1)
           m == 2^bits
<1>1. bits - 1 \in Nat /\ (bits - 1) + 1 = bits
  OBVIOUS
<1>2. h \in Nat \ {0} /\ m = 2 * h
  BY <1>1, PowType, PowNext
<1>3. x \in -h .. h - 1
  BY DEF Signed
<1>4. SignExtend(x % m, bits) = IF x % m < h THEN x % m ELSE (x % m) - m
  BY DEF SignExtend
<1> HIDE DEF h, m
<1>5. m \in Nat \ {0}
  BY <1>2
<1>6. CASE x >= 0
  <2>1. x \in 0 .. m - 1 /\ x \in Int /\ x = m * 0 + x /\ 0 \in Int
    BY <1>2, <1>3, <1>6
  <2>2. x % m = x
    BY <1>5, <2>1, QuotientIs
  <2>3. x < h
    BY <1>2, <1>3
  <2> QED BY <1>4, <2>1, <2>2, <2>3 DEF m
<1>7. CASE ~(x >= 0)
  <2>1. x + m \in 0 .. m - 1 /\ x \in Int /\ x = m * (-1) + (x + m) /\ -1 \in Int
    BY <1>2, <1>3, <1>7
  <2>2. x % m = x + m
    BY <1>5, <2>1, QuotientIs
  <2>3. ~(x + m < h) /\ (x + m) - m = x
    BY <1>2, <1>3, <1>7
  <2> QED BY <1>4, <2>1, <2>2, <2>3 DEF m
<1> QED BY <1>6, <1>7

\* Numbers that are packed next to each other are read back: `high` above the
\* `width` bits of `low`.
LEMMA Unpacked ==
  ASSUME NEW width \in Nat, NEW high \in Nat, NEW low \in 0 .. 2^width - 1
  PROVE  (low + 2^width * high) \div 2^width = high /\ (low + 2^width * high) % 2^width = low
<1> DEFINE m == 2^width
           v == low + m * high
<1>1. m \in Nat \ {0}
  BY PowType
<1>2. low \in 0 .. m - 1
  OBVIOUS
<1> HIDE DEF m
<1>3. v \in Int /\ v = m * high + low /\ high \in Int
  BY <1>1, <1>2
<1> HIDE DEF v
<1>4. v \div m = high /\ v % m = low
  BY <1>1, <1>2, <1>3, QuotientIs
<1> QED BY <1>4 DEF v, m

\* Two packed fields as one.
LEMMA PackedTwo ==
  ASSUME NEW m \in Nat, NEW n \in Nat, NEW a \in 0 .. 2^m - 1, NEW b \in 0 .. 2^n - 1
  PROVE  /\ a + 2^m * b \in 0 .. 2^(m + n) - 1
         /\ \A high \in Nat : a + 2^m * (b + 2^n * high) = (a + 2^m * b) + 2^(m + n) * high
<1> DEFINE x == 2^m
           y == 2^n
           z == 2^(m + n)
<1>1. x \in Nat \ {0} /\ y \in Nat \ {0} /\ z = x * y
  BY PowType, PowAdd
<1>2. a \in 0 .. x - 1 /\ b \in 0 .. y - 1
  OBVIOUS
<1> HIDE DEF x, y, z
<1>3. a + x * b \in 0 .. z - 1
  <2>1. x * b <= x * (y - 1)
    BY <1>1, <1>2, CancelFactor
  <2>2. x * (y - 1) = z - x /\ z \in Int
    BY <1>1
  <2>3. x * b \in Nat
    BY <1>1, <1>2, Product
  <2> QED BY <1>1, <1>2, <2>1, <2>2, <2>3
<1>4. ASSUME NEW high \in Nat PROVE a + x * (b + y * high) = (a + x * b) + z * high
  <2>1. x * (b + y * high) = x * b + x * (y * high) /\ x * (y * high) = z * high
    BY <1>1, <1>2
  <2>2. x * b \in Int /\ z * high \in Int /\ a \in Int
    BY <1>1, <1>2
  <2> QED BY <2>1, <2>2
<1> QED BY <1>3, <1>4 DEF x, y, z

\* The fields of slot0.
LEMMA Slot0Read ==
  ASSUME NEW pool, Storable(pool)
  PROVE  /\ Field(StoredSlot0(pool), 0, PriceBits) = pool.price
         /\ SignExtend(Field(StoredSlot0(pool), PriceBits, FieldBits), FieldBits) = pool.tick
         /\ Field(StoredSlot0(pool), PriceBits + FieldBits, FieldBits) = pool.protocolFee
         /\ Field(StoredSlot0(pool), PriceBits + 2 * FieldBits, FieldBits) = pool.fee
<1> DEFINE m == FieldBits
           p == PriceBits
           price == pool.price
           tick == pool.tick % 2^m
           b == pool.protocolFee
           c == pool.fee
           v == StoredSlot0(pool)
<1>1. m \in Nat \ {0} /\ p \in Nat \ {0} /\ p + m \in Nat
  BY StorageAssumption
<1>2. pool.tick \in Signed(m) /\ b \in 0 .. 2^m - 1 /\ c \in 0 .. 2^m - 1
  BY DEF Storable
<1>3. v = price + 2^p * (tick + 2^m * (b + 2^m * c))
  BY DEF StoredSlot0
<1>4. price \in 0 .. 2^p - 1
  BY DEF Storable
<1>5. tick \in 0 .. 2^m - 1 /\ SignExtend(tick, m) = pool.tick
  BY <1>1, <1>2, SignedRead
<1> HIDE DEF v, tick, price, b, c, m, p
<1>6. 2^m \in Nat \ {0}
  BY <1>1, PowType
<1> DEFINE bc == b + 2^m * c
           w == tick + 2^m * bc
           pt == price + 2^p * tick
           ptb == pt + 2^(p + m) * b
<1>7. b \in Nat /\ c \in Nat /\ tick \in Nat
  BY <1>2, <1>5
<1>8. bc \in Nat
  BY <1>6, <1>7
<1>9. w \in Nat
  <2> HIDE DEF bc
  <2> QED BY <1>6, <1>7, <1>8
<1>10. v \div 2^p = w
  <2> HIDE DEF w
  <2>1. v = price + 2^p * w
    BY <1>3 DEF w
  <2> QED BY <1>1, <1>4, <1>9, <2>1, Unpacked
<1>11. w % 2^m = tick
  <2> HIDE DEF bc
  <2> QED BY <1>1, <1>5, <1>8, Unpacked
<1>12. pt \in 0 .. 2^(p + m) - 1 /\ v = pt + 2^(p + m) * bc
  <2> HIDE DEF bc
  <2>1. v = price + 2^p * (tick + 2^m * bc)
    BY <1>3 DEF bc
  <2>2. /\ pt \in 0 .. 2^(p + m) - 1
        /\ \A high \in Nat : price + 2^p * (tick + 2^m * high) = pt + 2^(p + m) * high
    BY <1>1, <1>4, <1>5, PackedTwo
  <2> QED BY <1>8, <2>1, <2>2
<1> HIDE DEF pt
<1>13. v \div 2^(p + m) = bc
  <2> HIDE DEF bc
  <2> QED BY <1>1, <1>8, <1>12, Unpacked
<1>14. bc % 2^m = b
  BY <1>1, <1>2, <1>7, Unpacked
<1>15. v \div 2^(p + 2 * m) = c
  <2>1. (p + m) + m = p + 2 * m /\ p + 2 * m \in Nat
    BY <1>1
  <2>2. /\ ptb \in 0 .. 2^((p + m) + m) - 1
        /\ \A high \in Nat : pt + 2^(p + m) * (b + 2^m * high) = ptb + 2^((p + m) + m) * high
    BY <1>1, <1>2, <1>12, PackedTwo
  <2>3. v = ptb + 2^(p + 2 * m) * c /\ ptb \in 0 .. 2^(p + 2 * m) - 1
    BY <1>7, <1>12, <2>1, <2>2
  <2> HIDE DEF ptb
  <2> QED BY <1>7, <2>1, <2>3, Unpacked
<1>16. c % 2^m = c
  <2>1. c = 2^m * 0 + c /\ c \in Int /\ 0 \in Int
    BY <1>6, <1>7
  <2> QED BY <1>2, <1>6, <2>1, QuotientIs
<1>17. /\ Field(v, p, m) = tick /\ Field(v, p + m, m) = b /\ Field(v, p + 2 * m, m) = c
  BY <1>10, <1>11, <1>13, <1>14, <1>15, <1>16 DEF Field
<1>18. Field(v, 0, p) = price
  <2> HIDE DEF w
  <2>1. v = price + 2^p * w /\ 2^p \in Nat \ {0} /\ price \in Nat /\ v \in Int
    <3>1. v = price + 2^p * w
      BY <1>3 DEF w
    <3>2. 2^p \in Nat \ {0}
      BY <1>1, PowType
    <3>3. price \in Nat
      BY <1>4, <3>2
    <3>4. 2^p * w \in Int
      BY <1>9, <3>2
    <3> QED BY <3>1, <3>2, <3>3, <3>4
  <2>2. v % 2^p = price
    BY <1>1, <1>4, <1>9, <2>1, Unpacked
  <2>3. 2^0 = 1
    BY PowZero
  <2>4. v \div 2^0 = v
    BY <2>1, <2>3
  <2> QED BY <2>2, <2>4 DEF Field
<1> QED BY <1>5, <1>17, <1>18 DEF v, price, b, c, m, p

\* The slots of a tick.
LEMMA TickRead ==
  ASSUME NEW info \in TickEntries \cup {NoTick}
  PROVE  TickInfoOf(StoredTick(info, 1), StoredTick(info, 2), StoredTick(info, 3)) = info
<1> DEFINE m == InfoBits
           gross == info.gross
           net == info.net % 2^m
           v == StoredTick(info, 1)
<1>1. m \in Nat \ {0} /\ 2^m \in Nat \ {0} /\ 2^(m - 1) \in Nat \ {0}
  BY StorageAssumption, PowType
<1>2. /\ gross \in 0 .. 2^m - 1 /\ info.net \in Signed(m)
      /\ info.outside \in Int \X Int
      /\ info = [gross |-> info.gross, net |-> info.net, outside |-> info.outside]
  <2>1. CASE info \in TickEntries
    BY <1>1, <2>1 DEF TickEntries
  <2>2. CASE info = NoTick
    BY <1>1, <2>2 DEF NoTick, Signed
  <2> QED BY <2>1, <2>2
<1>3. net \in 0 .. 2^m - 1 /\ SignExtend(net, m) = info.net
  BY <1>1, <1>2, SignedRead
<1>4. v = net * 2^m + gross
  BY DEF StoredTick
<1> HIDE DEF v, net, gross, m
<1>5. v = gross + 2^m * net /\ net \in Nat /\ gross \in Nat /\ v \in Int
  BY <1>1, <1>2, <1>3, <1>4
<1>6. v \div 2^m = net /\ v % 2^m = gross
  BY <1>1, <1>2, <1>5, Unpacked
<1>7. v \div 2^0 = v
  <2>1. 2^0 = 1
    BY PowZero
  <2> QED BY <1>5, <2>1
<1>8. net % 2^m = net
  <2>1. net = 2^m * 0 + net /\ net \in Int /\ 0 \in Int
    BY <1>1, <1>5
  <2> QED BY <1>1, <1>3, <2>1, QuotientIs
<1>9. Field(v, 0, m) = gross /\ SignExtend(Field(v, m, m), m) = info.net
  BY <1>3, <1>6, <1>7, <1>8 DEF Field
<1>10. StoredTick(info, 2) = info.outside[1] /\ StoredTick(info, 3) = info.outside[2]
  BY DEF StoredTick
<1>11. info.outside = <<info.outside[1], info.outside[2]>>
  BY <1>2
<1> QED BY <1>2, <1>9, <1>10, <1>11 DEF TickInfoOf, v, gross, m

\* A function on 1 .. n is a sequence.
LEMMA ListOf ==
  ASSUME NEW W, NEW n \in Nat, NEW f \in [1 .. n -> W]
  PROVE  f \in Seq(W) /\ Len(f) = n
OBVIOUS

\* What the storage has for a tick.
TickEntry(pool, t) == IF t \in DOMAIN pool.ticks THEN pool.ticks[t] ELSE NoTick

\* The ticks asked for are read as they are stored.
LEMMA TickInfosAre ==
  ASSUME NEW pool, Storable(pool), NEW ticks \in SUBSET Int, IsFiniteSet(ticks)
  PROVE  TickInfos(pool, ticks) = [t \in ticks |-> TickEntry(pool, t)]
<1> DEFINE order == InOrder(ticks, <)
           n == Cardinality(ticks)
           three(i) == [k \in 1..3 |-> <<"tick", order[i], k>>]
           seqs == [i \in DOMAIN order |-> three(i)]
           slots == FlattenSeq(seqs)
           values == StorageSlots(pool, slots)
           place(t) == CHOOSE i \in DOMAIN order : order[i] = t
           at(t) == 3 * place(t)
           W == {"tick"} \X Int \X (1..3)
<1>1. TickInfos(pool, ticks) = [t \in ticks |-> TickInfoOf(values[at(t) - 2], values[at(t) - 1], values[at(t)])]
  BY DEF TickInfos
<1>2. /\ n \in Nat /\ order \in [1 .. n -> ticks]
      /\ \A x \in ticks : \E i \in 1 .. n : order[i] = x
  BY InOrderOfInts
<1> HIDE DEF order, n
<1>3. DOMAIN order = 1 .. n /\ \A i \in 1 .. n : order[i] \in Int
  BY <1>2
<1>4. ASSUME NEW i \in 1 .. n
      PROVE  /\ three(i) \in Seq(W) /\ Len(three(i)) = 3
             /\ \A k \in 1 .. 3 : three(i)[k] = <<"tick", order[i], k>>
  <2> DEFINE x == order[i]
  <2>1. x \in Int
    BY <1>3
  <2> HIDE DEF x
  <2> DEFINE f == [k \in 1..3 |-> <<"tick", x, k>>]
  <2>2. f \in [1 .. 3 -> W] /\ \A k \in 1 .. 3 : f[k] = <<"tick", x, k>>
    BY <2>1
  <2>3. f \in Seq(W) /\ Len(f) = 3
    <3>1. f \in [1 .. 3 -> W] /\ 3 \in Nat
      BY <2>2
    <3> HIDE DEF f, W
    <3> QED BY <3>1, ListOf
  <2>4. f = three(i)
    BY DEF x
  <2> HIDE DEF f, three, W
  <2> QED BY <2>2, <2>3, <2>4 DEF x
<1>5. seqs \in [1 .. n -> Seq(W)] /\ \A i \in 1 .. n : seqs[i] = three(i)
  <2> HIDE DEF three, W
  <2> QED BY <1>3, <1>4
<1> HIDE DEF seqs, W
<1>6. slots \in Seq(W) /\ \E off : Holds(slots, seqs, n, off)
  BY <1>2, <1>5, Flattened
<1> HIDE DEF slots
<1>7. PICK off : Holds(slots, seqs, n, off)
  BY <1>6
<1>8. \A i \in 0 .. n : off[i] = 3 * i
  <2> DEFINE good == {i \in 0 .. n : off[i] = 3 * i}
  <2>1. 0 \in good
    BY <1>2, <1>7 DEF Holds, Offsets
  <2>2. ASSUME NEW j \in 0 .. n - 1, j \in good PROVE j + 1 \in good
    <3> DEFINE i == j + 1
    <3>1. i \in 1 .. n /\ i - 1 = j /\ i \in 0 .. n
      BY <1>2
    <3>2. off[i] = off[i - 1] + Len(seqs[i]) /\ Len(seqs[i]) = 3
      <4> HIDE DEF three, i
      <4> QED BY <1>4, <1>5, <1>7, <3>1 DEF Holds, Offsets
    <3>3. off[j] = 3 * j
      BY <2>2
    <3>4. off[i] = 3 * j + 3
      <4> HIDE DEF i
      <4> QED BY <3>1, <3>2, <3>3
    <3> QED BY <3>1, <3>4
  <2>3. \A i \in 0 .. n : i \in good
    <3>1. good \in SUBSET (0 .. n) /\ 0 \in Int /\ n \in Int
      BY <1>2
    <3> HIDE DEF good
    <3> QED BY <2>1, <2>2, <3>1, IntervalInduction
  <2> QED BY <2>3
<1>9. ASSUME NEW i \in 1 .. n, NEW k \in 1 .. 3
      PROVE  values[3 * (i - 1) + k] = Stored(pool, <<"tick", order[i], k>>)
  <2> DEFINE a == 3 * (i - 1)
  <2>1. i - 1 \in 0 .. n /\ off[i - 1] = a /\ a \in Nat
    BY <1>2, <1>8
  <2>2. Len(seqs[i]) = 3 /\ seqs[i][k] = <<"tick", order[i], k>>
    <3> HIDE DEF three
    <3> QED BY <1>4, <1>5
  <2>3. Len(slots) = 3 * n /\ a + k \in 1 .. 3 * n
    <3>1. Len(slots) = off[n] /\ n \in 0 .. n
      BY <1>2, <1>7 DEF Holds
    <3> QED BY <1>2, <1>8, <3>1
  <2> HIDE DEF a
  <2>4. slots[off[i - 1] + k] = seqs[i][k]
    BY <1>7, <2>2 DEF Holds
  <2>5. \A m \in 1 .. Len(slots) : values[m] = Stored(pool, slots[m])
    BY <1>6, StorageSlotsAre
  <2> HIDE DEF values
  <2>6. values[a + k] = Stored(pool, slots[a + k])
    BY <2>3, <2>5
  <2> QED BY <2>1, <2>2, <2>4, <2>6 DEF a
<1> HIDE DEF values
<1>10. ASSUME NEW t \in ticks
       PROVE  TickInfoOf(values[at(t) - 2], values[at(t) - 1], values[at(t)]) = TickEntry(pool, t)
  <2> DEFINE i == place(t)
             info == TickEntry(pool, t)
  <2>1. i \in 1 .. n /\ order[i] = t
    BY <1>2, <1>3
  <2>2. at(t) = 3 * i
    OBVIOUS
  <2> HIDE DEF i, at, place
  <2>3. /\ at(t) - 2 = 3 * (i - 1) + 1 /\ at(t) - 1 = 3 * (i - 1) + 2 /\ at(t) = 3 * (i - 1) + 3
    BY <2>1, <2>2
  <2>4. /\ values[3 * (i - 1) + 1] = Stored(pool, <<"tick", t, 1>>)
        /\ values[3 * (i - 1) + 2] = Stored(pool, <<"tick", t, 2>>)
        /\ values[3 * (i - 1) + 3] = Stored(pool, <<"tick", t, 3>>)
    <3>1. 1 \in 1 .. 3 /\ 2 \in 1 .. 3 /\ 3 \in 1 .. 3
      OBVIOUS
    <3> QED BY <1>9, <2>1, <3>1
  <2>5. \A k \in 1 .. 3 : Stored(pool, <<"tick", t, k>>) = StoredTick(info, k)
    BY DEF Stored, TickEntry
  <2>6. info \in TickEntries \cup {NoTick}
    BY DEF TickEntry, Storable
  <2>7. TickInfoOf(StoredTick(info, 1), StoredTick(info, 2), StoredTick(info, 3)) = info
    <3> HIDE DEF info
    <3> QED BY <2>6, TickRead
  <2>8. values[at(t) - 2] = StoredTick(info, 1) /\ values[at(t) - 1] = StoredTick(info, 2)
        /\ values[at(t)] = StoredTick(info, 3)
    BY <2>3, <2>4, <2>5
  <2> HIDE DEF info
  <2> QED BY <2>7, <2>8 DEF info
<1> HIDE DEF at
<1> QED BY <1>1, <1>10

\* The first four slots.
LEMMA CoreRead ==
  ASSUME NEW pool, Storable(pool)
  PROVE  PoolCoreSnapshot(pool) =
           [price |-> pool.price, tick |-> pool.tick, protocolFee |-> pool.protocolFee,
            fee |-> pool.fee, growth |-> pool.growth, liquidity |-> pool.liquidity]
<1> DEFINE slots == << <<"slot0">>, <<"growth0">>, <<"growth1">>, <<"liquidity">> >>
           T == { <<"slot0">>, <<"growth0">>, <<"growth1">>, <<"liquidity">> }
           v == StorageSlots(pool, slots)
<1>1. slots \in Seq(T) /\ Len(slots) = 4
  OBVIOUS
<1>2. \A k \in 1 .. 4 : v[k] = Stored(pool, slots[k])
  <2> HIDE DEF slots, T
  <2> SUFFICES ASSUME NEW k \in 1 .. 4 PROVE v[k] = Stored(pool, slots[k])
    OBVIOUS
  <2>1. k \in 1 .. Len(slots) /\ slots \in Seq(T)
    BY <1>1
  <2> QED BY ONLY <2>1, StorageSlotsAre
<1>3. /\ v[1] = StoredSlot0(pool) /\ v[2] = pool.growth[1] /\ v[3] = pool.growth[2]
      /\ v[4] = pool.liquidity
  <2>1. /\ 1 \in 1 .. 4 /\ 2 \in 1 .. 4 /\ 3 \in 1 .. 4 /\ 4 \in 1 .. 4
        /\ slots[1] = <<"slot0">> /\ slots[2] = <<"growth0">> /\ slots[3] = <<"growth1">>
        /\ slots[4] = <<"liquidity">>
    OBVIOUS
  <2>2. /\ Stored(pool, <<"slot0">>) = StoredSlot0(pool)
        /\ Stored(pool, <<"growth0">>) = pool.growth[1]
        /\ Stored(pool, <<"growth1">>) = pool.growth[2]
        /\ Stored(pool, <<"liquidity">>) = pool.liquidity
    BY DEF Stored
  <2> HIDE DEF v, slots
  <2> QED BY <1>2, <2>1, <2>2
<1>4. PoolCoreSnapshot(pool) =
        [price |-> Field(v[1], 0, PriceBits),
         tick |-> SignExtend(Field(v[1], PriceBits, FieldBits), FieldBits),
         protocolFee |-> Field(v[1], PriceBits + FieldBits, FieldBits),
         fee |-> Field(v[1], PriceBits + 2 * FieldBits, FieldBits),
         growth |-> <<v[2], v[3]>>, liquidity |-> v[4]]
  BY DEF PoolCoreSnapshot
<1>5. pool.growth = <<pool.growth[1], pool.growth[2]>>
  BY DEF Storable
<1> HIDE DEF v
<1> QED BY <1>3, <1>4, <1>5, Slot0Read

\* The scan of the bitmap finds the ticks in use, all of them.
LEMMA TicksRead ==
  ASSUME NEW pool, Storable(pool)
  PROVE  InitializedTicks(pool) = pool.ticks
<1> DEFINE words == InOrder(WordPositions, <)
           n == Cardinality(WordPositions)
           slots == [i \in DOMAIN words |-> <<"word", words[i]>>]
           bitmaps == StorageSlots(pool, slots)
           found == {t \in TickIndices : \E i \in DOMAIN words : \E bit \in bitmaps[i] :
                                            t = (words[i] * WordBits + bit) * TickSpacing}
           infos == TickInfos(pool, found)
           D == DOMAIN pool.ticks
<1>1. InitializedTicks(pool) = [t \in {u \in found : infos[u].gross # 0} |-> infos[t]]
  BY DEF InitializedTicks
<1> DEFINE lowest == (MinTick \div TickSpacing) \div WordBits
           highest == (MaxTick \div TickSpacing) \div WordBits
<1>2. /\ MinTick \in Int /\ MaxTick \in Int /\ TickSpacing \in Nat \ {0} /\ WordBits \in Nat \ {0}
  BY StorageAssumption
<1>3. MinTick \div TickSpacing \in Int /\ MaxTick \div TickSpacing \in Int
  BY <1>2, DivFloor
<1>4. lowest \in Int /\ highest \in Int /\ WordPositions = lowest .. highest
  BY <1>2, <1>3, DivFloor DEF WordPositions
<1>5. WordPositions \in SUBSET Int /\ IsFiniteSet(WordPositions)
  <2> HIDE DEF lowest, highest
  <2> QED BY <1>4, FS_Interval
<1>6. /\ n \in Nat /\ words \in [1 .. n -> WordPositions]
      /\ \A x \in WordPositions : \E i \in 1 .. n : words[i] = x
  BY <1>5, InOrderOfInts
<1> HIDE DEF words, n, lowest, highest
<1>7. DOMAIN words = 1 .. n /\ \A i \in 1 .. n : words[i] \in Int
  BY <1>5, <1>6
<1>8. \A i \in 1 .. n : bitmaps[i] = StoredWord(pool.ticks, words[i])
  <2> DEFINE T == {"word"} \X Int
  <2>1. slots \in [1 .. n -> T] /\ \A i \in 1 .. n : slots[i] = <<"word", words[i]>>
    BY <1>7
  <2> HIDE DEF slots, T
  <2>2. slots \in Seq(T) /\ Len(slots) = n
    BY <1>6, <2>1
  <2>3. \A k \in 1 .. Len(slots) : bitmaps[k] = Stored(pool, slots[k])
    BY <2>2, StorageSlotsAre
  <2> HIDE DEF bitmaps
  <2>4. \A w \in Int : Stored(pool, <<"word", w>>) = StoredWord(pool.ticks, w)
    BY DEF Stored
  <2> QED BY <1>7, <2>1, <2>2, <2>3, <2>4
<1> HIDE DEF bitmaps
\* A tick in use is a multiple of the spacing, and a place in a word.
<1>9. ASSUME NEW u \in D
      PROVE  /\ u \in TickIndices /\ u \in Int
             /\ Compressed(u) \in Int /\ u = Compressed(u) * TickSpacing
             /\ Compressed(u) \div WordBits \in WordPositions
             /\ Compressed(u) = (Compressed(u) \div WordBits) * WordBits + (Compressed(u) % WordBits)
  <2>1. u \in TickIndices /\ u % TickSpacing = 0
    BY DEF Storable, Aligned
  <2>2. u \in Int /\ MinTick <= u /\ u <= MaxTick
    BY <1>2, <2>1 DEF TickIndices
  <2> DEFINE c == u \div TickSpacing
             q == c \div WordBits
  <2>3. c = Compressed(u)
    BY DEF Compressed
  <2>4. c \in Int /\ u = TickSpacing * c + (u % TickSpacing)
    <3>1. c \in Int
      BY <1>2, <2>2, DivFloor
    <3>2. u = TickSpacing * c + (u % TickSpacing)
      BY <1>2, <2>2, Remainder
    <3> QED BY <3>1, <3>2
  <2>5. MinTick \div TickSpacing <= c /\ c <= MaxTick \div TickSpacing
    <3>1. TickSpacing * (MinTick \div TickSpacing) <= MinTick
      BY <1>2, DivFloor
    <3>2. TickSpacing * (MinTick \div TickSpacing) <= u
      <4> DEFINE z == TickSpacing * (MinTick \div TickSpacing)
      <4>1. z \in Int /\ z <= MinTick
        BY <1>2, <1>3, <3>1
      <4> HIDE DEF z
      <4>2. z <= u
        BY <1>2, <2>2, <4>1
      <4> QED BY <4>2 DEF z
    <3>3. MinTick \div TickSpacing <= c
      BY <1>2, <1>3, <2>2, <3>2, DivLower
    <3>4. TickSpacing * c <= u
      BY <1>2, <2>2, DivFloor
    <3>5. TickSpacing * c <= MaxTick
      <4> DEFINE z == TickSpacing * c
      <4>1. z \in Int /\ z <= u
        BY <1>2, <2>4, <3>4
      <4> HIDE DEF z
      <4>2. z <= MaxTick
        BY <1>2, <2>2, <4>1
      <4> QED BY <4>2 DEF z
    <3>6. c <= MaxTick \div TickSpacing
      <4> HIDE DEF c
      <4> QED BY <1>2, <2>4, <3>5, DivLower
    <3> QED BY <3>3, <3>6
  <2> HIDE DEF c
  <2>6. q \in Int /\ c = WordBits * q + (c % WordBits) /\ WordBits * q <= c
    BY <1>2, <2>4, DivFloor, Remainder
  <2>7. lowest <= q /\ q <= highest
    <3> DEFINE a == MinTick \div TickSpacing
               b == MaxTick \div TickSpacing
    <3>1. a \in Int /\ b \in Int /\ a <= c /\ c <= b
      BY <1>3, <2>5
    <3>2. lowest = a \div WordBits /\ highest = b \div WordBits
      BY DEF lowest, highest
    <3> HIDE DEF a, b
    <3>3. WordBits * lowest <= a
      BY <1>2, <3>1, <3>2, DivFloor
    <3> DEFINE x == WordBits * lowest
               y == WordBits * q
    <3>4. x \in Int /\ y \in Int /\ x <= a /\ y <= c
      BY <1>2, <1>4, <2>6, <3>3
    <3> HIDE DEF x, y
    <3>5. x <= c /\ y <= b
      BY <2>4, <3>1, <3>4
    <3>6. lowest <= q
      BY <1>2, <1>4, <2>4, <3>5, DivLower DEF x
    <3>7. q <= highest
      <4> HIDE DEF q
      <4> QED BY <1>2, <2>6, <3>1, <3>2, <3>5, DivLower DEF y
    <3> QED BY <3>6, <3>7
  <2> HIDE DEF q
  <2>8. q \in WordPositions
    BY <1>4, <2>6, <2>7
  <2>9. u = c * TickSpacing /\ c = q * WordBits + (c % WordBits)
    <3>1. c % WordBits \in Int
      BY <1>2, <2>4
    <3> QED BY <1>2, <2>1, <2>4, <2>6, <3>1
  <2> QED BY <2>1, <2>2, <2>3, <2>4, <2>8, <2>9 DEF q
<1>10. found = D
  <2>1. ASSUME NEW u \in D PROVE u \in found
    <3>1. PICK i \in 1 .. n : words[i] = Compressed(u) \div WordBits
      BY <1>6, <1>9
    <3>2. Compressed(u) % WordBits \in bitmaps[i]
      BY <1>8, <3>1 DEF StoredWord
    <3>3. u = (words[i] * WordBits + (Compressed(u) % WordBits)) * TickSpacing
      BY <1>9, <3>1
    <3>4. \E bit \in bitmaps[i] : u = (words[i] * WordBits + bit) * TickSpacing
      BY <3>2, <3>3
    <3>5. \E j \in DOMAIN words : \E bit \in bitmaps[j] : u = (words[j] * WordBits + bit) * TickSpacing
      BY <1>7, <3>4
    <3> HIDE DEF D, infos
    <3> QED BY <1>9, <3>5
  <2>2. ASSUME NEW t \in found PROVE t \in D
    <3>1. PICK i \in 1 .. n : \E bit \in bitmaps[i] : t = (words[i] * WordBits + bit) * TickSpacing
      BY <1>7
    <3>2. PICK bit \in bitmaps[i] : t = (words[i] * WordBits + bit) * TickSpacing
      BY <3>1
    <3>3. PICK u \in D : Compressed(u) \div WordBits = words[i] /\ bit = Compressed(u) % WordBits
      BY <1>8 DEF StoredWord
    <3>4. Compressed(u) = words[i] * WordBits + bit /\ u = Compressed(u) * TickSpacing
      BY <1>9, <3>3
    <3> QED BY <3>2, <3>4
  <2> HIDE DEF found, D
  <2> QED BY <2>1, <2>2
<1>11. D \in SUBSET Int /\ IsFiniteSet(D)
  <2>1. D \in SUBSET TickIndices /\ D \in SUBSET Int
    BY <1>9
  <2>2. IsFiniteSet(TickIndices)
    BY <1>2, FS_Interval DEF TickIndices
  <2> QED BY <2>1, <2>2, FS_Subset
<1> HIDE DEF found
<1>12. infos = [t \in D |-> TickEntry(pool, t)]
  BY <1>10, <1>11, TickInfosAre
<1>13. \A t \in D : infos[t] = pool.ticks[t] /\ infos[t].gross # 0
  BY <1>12 DEF TickEntry, Storable, TickEntries
<1>14. pool.ticks = [t \in D |-> pool.ticks[t]]
  BY DEF Storable
<1> HIDE DEF infos
<1>15. {u \in found : infos[u].gross # 0} = D
  <2> HIDE DEF D
  <2> QED BY <1>10, <1>13
<1> HIDE DEF D
<1> QED BY <1>1, <1>13, <1>14, <1>15

\* A pool is read back from the storage as it was.
LEMMA SnapshotIsPool ==
  ASSUME NEW pool, Storable(pool)
  PROVE  PoolOf(PoolSnapshot(pool)) = pool
<1>1. PoolSnapshot(pool).core = PoolCoreSnapshot(pool) /\ PoolSnapshot(pool).ticks = pool.ticks
  BY TicksRead DEF PoolSnapshot
<1>2. pool = [price |-> pool.price, tick |-> pool.tick, growth |-> pool.growth,
              liquidity |-> pool.liquidity, fee |-> pool.fee, protocolFee |-> pool.protocolFee, ticks |-> pool.ticks]
  BY DEF Storable
<1> DEFINE s == PoolSnapshot(pool)
<1> HIDE DEF s
<1>3. /\ s.core.price = pool.price /\ s.core.tick = pool.tick
      /\ s.core.growth = pool.growth /\ s.core.liquidity = pool.liquidity
      /\ s.core.fee = pool.fee /\ s.core.protocolFee = pool.protocolFee /\ s.ticks = pool.ticks
  BY <1>1, CoreRead DEF s
<1>4. PoolOf(s) = pool
  BY <1>2, <1>3 DEF PoolOf
<1> QED BY <1>4 DEF s

-----------------------------------------------------------------------------
(* What a step of the replay does                                              *)

\* What the next transaction leaves, its operations `ops`, the state `after`.
Replays(ops, after) ==
  LET tx    == scan.order[replay.next]
      block == LogsOf(tx)[1].block
  IN  /\ ops \in DecodedOperations(tx)
      /\ after \in ReplayOps(CHOOSE p \in replay.pools : TRUE, TouchedBefore(block), ops)
      /\ replay'.initial = replay.initial /\ replay'.next = replay.next + 1
      /\ replay'.pools = {after.pool} /\ replay'.block = block /\ replay'.touched = after.touched
      /\ replay'.waiting = IF tx \in scan.checkpoints
                           THEN {[index |-> replay.next, block |-> block, touched |-> after.touched]}
                           ELSE {}
      /\ replay'.txs = Append(replay.txs, [tx |-> tx, ops |-> ops, checkpoint |-> {}])

\* A transaction that is replayed has operations and a pool after them.
LEMMA ReplayStepIs ==
  ASSUME DOMAIN replay = {"initial", "pools", "next", "block", "touched", "waiting", "txs"},
         ReplayTransaction, ~Abort
  PROVE  /\ phase = "replay" /\ replay.waiting = {} /\ replay.next <= Len(scan.order)
         /\ UNCHANGED <<input, phase, fetch, logs, scan, traces, queue, file, faults>>
         /\ DOMAIN replay' = DOMAIN replay
         /\ \E ops, after : Replays(ops, after)
<1> DEFINE k     == replay.next
           tx    == scan.order[k]
           block == LogsOf(tx)[1].block
           before == CHOOSE p \in replay.pools : TRUE
           ended(ops) == ReplayOps(before, TouchedBefore(block), ops)
           here(after) == IF tx \in scan.checkpoints
                          THEN {[index |-> k, block |-> block, touched |-> after.touched]} ELSE {}
<1>1. /\ phase = "replay" /\ replay.waiting = {} /\ k <= Len(scan.order)
      /\ IF \A ops \in DecodedOperations(tx) : ended(ops) = {} THEN Abort
         ELSE \E ops \in DecodedOperations(tx) : \E after \in ended(ops) :
                /\ replay' = [replay EXCEPT
                     !.next = @ + 1, !.pools = {after.pool}, !.block = block,
                     !.touched = after.touched, !.waiting = here(after),
                     !.txs = Append(@, [tx |-> tx, ops |-> ops, checkpoint |-> {}])]
                /\ UNCHANGED <<input, phase, fetch, logs, scan, traces, queue, file, faults>>
  BY DEF ReplayTransaction
<1> HIDE DEF ended, here
<1>2. PICK ops \in DecodedOperations(tx) : \E after \in ended(ops) :
                /\ replay' = [replay EXCEPT
                     !.next = @ + 1, !.pools = {after.pool}, !.block = block,
                     !.touched = after.touched, !.waiting = here(after),
                     !.txs = Append(@, [tx |-> tx, ops |-> ops, checkpoint |-> {}])]
                /\ UNCHANGED <<input, phase, fetch, logs, scan, traces, queue, file, faults>>
  BY <1>1, Zenon
<1>3. PICK after \in ended(ops) :
                /\ replay' = [replay EXCEPT
                     !.next = @ + 1, !.pools = {after.pool}, !.block = block,
                     !.touched = after.touched, !.waiting = here(after),
                     !.txs = Append(@, [tx |-> tx, ops |-> ops, checkpoint |-> {}])]
                /\ UNCHANGED <<input, phase, fetch, logs, scan, traces, queue, file, faults>>
  BY <1>2, Zenon
<1> DEFINE step == [tx |-> tx, ops |-> ops, checkpoint |-> {}]
<1>4. replay' = [replay EXCEPT !.next = k + 1, !.pools = {after.pool}, !.block = block,
                     !.touched = after.touched, !.waiting = here(after),
                     !.txs = Append(replay.txs, step)]
  BY <1>3
<1> HIDE DEF step, block, k, tx, before
<1>5. /\ DOMAIN replay' = DOMAIN replay
      /\ replay'.initial = replay.initial /\ replay'.next = k + 1
      /\ replay'.pools = {after.pool} /\ replay'.block = block /\ replay'.touched = after.touched
      /\ replay'.waiting = here(after) /\ replay'.txs = Append(replay.txs, step)
  BY <1>4
<1>6. Replays(ops, after)
  BY <1>2, <1>3, <1>5 DEF Replays, ended, here, before, block, tx, k, step
<1>7. \E o, a : Replays(o, a)
  BY <1>6
<1> QED BY <1>1, <1>3, <1>5, <1>7 DEF k

-----------------------------------------------------------------------------
\* The snapshot is what the storage holds at the start block.
SnapshotInv ==
  /\ input \in [history : Histories, options : Options]
  /\ DOMAIN replay = {"initial", "pools", "next", "block", "touched", "waiting", "txs"}
  /\ replay.initial \subseteq {PoolSnapshot(PoolAtBlock(Args.start))}

\* At first there is no snapshot.
LEMMA InitSnapshot == ASSUME Init PROVE SnapshotInv
BY DEF Init, SnapshotInv

\* It is taken once, and then kept.
LEMMA NextSnapshot == ASSUME SnapshotInv, [Next]_vars PROVE SnapshotInv'
<1> DEFINE quiet == input' = input /\ replay'.initial = replay.initial /\ DOMAIN replay' = DOMAIN replay
<1>1. CASE quiet
  <2>1. PoolAtBlock(Args.start)' = PoolAtBlock(Args.start)
    BY <1>1 DEF PoolAtBlock, LastTxOf, History, Args
  <2> QED BY <1>1, <2>1 DEF SnapshotInv
<1>2. ASSUME input' = input, replay' = replay PROVE SnapshotInv'
  BY <1>1, <1>2
<1>3. CASE RequestFails
  BY <1>2, <1>3 DEF RequestFails, Drops
<1>4. ASSUME NEW t \in queue.tasks, CheckpointFails(t) \/ CheckpointArrives(t) PROVE SnapshotInv'
  BY <1>2, <1>4 DEF CheckpointFails, CheckpointArrives, Becomes
<1>5. ASSUME NEW i \in fetch.running, NEW lost, LogsArrive(i, lost) PROVE SnapshotInv'
  BY <1>2, <1>5 DEF LogsArrive
<1>6. ASSUME NEW i \in fetch.running, NEW without, TraceArrives(i, without) PROVE SnapshotInv'
  BY <1>2, <1>6 DEF TraceArrives
<1>7. CASE LoadInitialPool
  <2>1. CASE ~Loadable
    BY <1>2, <1>7, <2>1, LoadSplit DEF Abort, Drops
  <2>2. CASE Loadable
    <3> DEFINE S == {PoolSnapshot(PoolAtBlock(Args.start))}
    <3>1. replay' = [replay EXCEPT !.initial = S] /\ input' = input
      BY <1>7, <2>2, LoadSplit
    <3>2. S' = S
      BY <3>1 DEF PoolAtBlock, LastTxOf, History, Args
    <3> HIDE DEF S
    <3>3. DOMAIN replay' = DOMAIN replay /\ replay'.initial = S
      BY <3>1 DEF SnapshotInv
    <3>4. replay'.initial \subseteq S'
      BY <3>2, <3>3
    <3> QED BY <3>1, <3>3, <3>4 DEF SnapshotInv, S
  <2> QED BY <2>1, <2>2
<1>8. CASE StartRequest
  BY <1>2, <1>8 DEF StartRequest
<1>9. CASE ScanTransactions
  BY <1>2, <1>9, Zenon DEF ScanTransactions, Abort, Drops
<1>10. CASE TracesDone
  <2>1. Abort \/ ReplayBegins
    BY <1>10, TracesSplit
  <2>2. ASSUME ReplayBegins PROVE quiet
    BY <2>2 DEF ReplayBegins, SnapshotInv
  <2> QED BY <1>1, <1>2, <2>1, <2>2 DEF Abort, Drops
<1>11. CASE ReplayTransaction
  <2>1. Abort \/ quiet
    <3> SUFFICES ASSUME ~Abort PROVE quiet
      OBVIOUS
    <3>1. input' = input /\ DOMAIN replay' = DOMAIN replay /\ \E ops, after : Replays(ops, after)
      BY <1>11, ReplayStepIs DEF SnapshotInv
    <3>2. replay'.initial = replay.initial
      BY <3>1 DEF Replays
    <3> QED BY <3>1, <3>2
  <2> QED BY <1>1, <1>2, <2>1 DEF Abort, Drops
<1>12. CASE PushCheckpoint
  <2>1. input' = input /\ replay' = [replay EXCEPT !.waiting = {}]
    BY <1>12 DEF PushCheckpoint
  <2>2. quiet
    BY <2>1 DEF SnapshotInv
  <2> QED BY <1>1, <2>2
<1>13. CASE WriteFixture
  BY <1>2, <1>13, Zenon DEF WriteFixture
<1>14. ASSUME NEW t \in queue.tasks, CollectNext(t) PROVE SnapshotInv'
  BY <1>2, <1>14, Zenon DEF CollectNext, Abort, Drops
<1>15. CASE UNCHANGED vars
  BY <1>2, <1>15 DEF vars
<1> QED BY <1>3, <1>4, <1>5, <1>6, <1>7, <1>8, <1>9, <1>10, <1>11, <1>12, <1>13, <1>14, <1>15
        DEF Next, Answers, Steps

\* The generator starts from the pool of the chain: the batches, the packed
\* fields and the scan of the bitmap give back what is stored (pool_snapshot).
THEOREM SnapshotIsExact == Spec => []SnapshotIsChainState
<1>1. Init => SnapshotInv
  BY InitSnapshot
<1>2. SnapshotInv /\ [Next]_vars => SnapshotInv'
  BY NextSnapshot
<1>3. SnapshotInv => SnapshotIsChainState
  <2> SUFFICES ASSUME SnapshotInv, NEW s \in replay.initial PROVE PoolOf(s) = PoolAtBlock(Args.start)
    BY DEF SnapshotIsChainState
  <2> DEFINE h == History
             n == LastTxOf(h, Args.start)
  <2>1. h \in Histories /\ Args \in Options
    BY DEF SnapshotInv, History, Args
  <2>2. Args.start \in Nat
    BY <2>1, ReplayAssumption
  <2>3. n \in 0 .. Len(h.txs)
    <3> HIDE DEF h
    <3> QED BY <2>1, <2>2, LastTxIs
  <2>4. Storable(PoolAtBlock(Args.start))
    <3>1. PoolAtBlock(Args.start) = ChainPools[h][n]
      BY DEF PoolAtBlock
    <3> HIDE DEF h, n
    <3> QED BY <2>1, <2>3, <3>1, ChainAssumption
  <2>5. s = PoolSnapshot(PoolAtBlock(Args.start))
    BY DEF SnapshotInv
  <2> QED BY <2>4, <2>5, SnapshotIsPool
<1> QED BY <1>1, <1>2, <1>3, PTL DEF Spec

-----------------------------------------------------------------------------
(* Folds, step by step                                                      *)

\* A set of small numbers has a greatest one.
LEMMA TopOf ==
  ASSUME NEW m \in Nat, NEW s \in SUBSET (1 .. m), s # {}
  PROVE  /\ Max(s) \in s /\ \A x \in s : x <= Max(s)
         /\ m > 0 => s \ {Max(s)} \in SUBSET (1 .. m - 1)
<1> DEFINE T == {m - i : i \in s}
<1>1. T \in SUBSET Nat /\ T # {}
  <2>1. \A i \in s : m - i \in Nat
    OBVIOUS
  <2> QED BY <2>1
<1>2. PICK d \in T : \A e \in T : d <= e
  BY <1>1, LeastNatural
<1>3. PICK top \in s : d = m - top
  BY <1>2
<1>4. ASSUME NEW i \in s PROVE top >= i
  <2>1. m - i \in T
    OBVIOUS
  <2>2. d <= m - i
    BY <1>2, <2>1
  <2>3. top \in Int /\ i \in Int /\ m \in Int
    OBVIOUS
  <2> QED BY <1>3, <2>2, <2>3
<1>5. Max(s) \in s /\ \A i \in s : Max(s) >= i
  BY <1>4 DEF Max
<1> DEFINE z == Max(s)
<1> HIDE DEF z
<1>6. z \in s /\ \A i \in s : z >= i
  BY <1>5 DEF z
<1>7. \A x \in s : x <= z
  BY <1>6
<1>8. ASSUME m > 0, NEW x \in s \ {z} PROVE x \in 1 .. m - 1
  <2>1. x <= z /\ x # z /\ x \in 1 .. m /\ z \in 1 .. m
    BY <1>6, <1>7
  <2> QED BY <2>1
<1> QED BY <1>6, <1>7, <1>8 DEF z

\* v has the pool before and after each operation of a transaction, on chain.
ChainRun(v, tx, pool, n) ==
  /\ DOMAIN v = 0 .. n /\ v[0] = pool
  /\ \A k \in 1 .. n : v[k] = ChainStep(tx, v[k - 1], Executed(tx)[k])

\* So has the fold.
LEMMA ChainFold ==
  ASSUME NEW tx, NEW base, NEW n \in Nat, DOMAIN Executed(tx) = 1 .. n
  PROVE  \E v : ChainRun(v, tx, base, n) /\ AfterTx(base, tx) = v[n]
<1> DEFINE seq == Executed(tx)
           step(x, y) == ChainStep(tx, x, y)
           Rec(g, m) == [s \in SUBSET (1 .. m) |->
                          IF s = {} THEN base ELSE step(g[s \ {Max(s)}], seq[Max(s)])]
           c == CHOOSE g : g = Rec(g, n)
           v == [k \in 0 .. n |-> c[1 .. k]]
<1>1. AfterTx(base, tx) = c[1 .. n]
  BY DEF AfterTx, FoldLeft, MapThenFoldSet
<1> HIDE DEF seq
<1> HIDE DEF step
<1>2. \E g : g = Rec(g, n)
  <2> DEFINE good == {m \in 0 .. n : \E g : g = Rec(g, m)}
  <2>1. 0 \in good
    <3> DEFINE h == [s \in SUBSET (1 .. 0) |-> base]
    <3>1. SUBSET (1 .. 0) = {{}}
      OBVIOUS
    <3>2. h = Rec(h, 0)
      BY <3>1
    <3>3. \E g : g = Rec(g, 0)
      BY <3>2
    <3> HIDE DEF Rec
    <3> QED BY <3>3
  <2>2. ASSUME NEW m \in 0 .. n - 1, m \in good PROVE m + 1 \in good
    <3>1. PICK g : g = Rec(g, m)
      <4> HIDE DEF Rec
      <4> QED BY <2>2
    <3> DEFINE h == Rec(g, m + 1)
    <3>2. \A s \in SUBSET (1 .. m) : s \in SUBSET (1 .. m + 1)
      OBVIOUS
    <3>3. \A s \in SUBSET (1 .. m) : h[s] = g[s]
      BY <3>1, <3>2
    <3>4. ASSUME NEW s \in SUBSET (1 .. m + 1), s # {} PROVE s \ {Max(s)} \in SUBSET (1 .. m)
      <4> DEFINE top == m + 1
      <4>1. top \in Nat /\ top > 0 /\ top - 1 = m
        OBVIOUS
      <4>2. s \in SUBSET (1 .. top) /\ s # {}
        BY <3>4
      <4> HIDE DEF top
      <4>3. s \ {Max(s)} \in SUBSET (1 .. top - 1)
        BY ONLY <4>1, <4>2, TopOf
      <4> QED BY <4>1, <4>3
    <3>5. h = Rec(h, m + 1)
      <4> DEFINE r(f, s) == IF s = {} THEN base ELSE step(f[s \ {Max(s)}], seq[Max(s)])
      <4>1. ASSUME NEW s \in SUBSET (1 .. m + 1) PROVE r(g, s) = r(h, s)
        <5>1. CASE s = {}
          BY <5>1
        <5>2. CASE s # {}
          <6> DEFINE u == s \ {Max(s)}
          <6>1. u \in SUBSET (1 .. m)
            BY <3>4, <5>2
          <6>2. h[u] = g[u]
            <7> HIDE DEF h, u
            <7> QED BY <3>3, <6>1
          <6> HIDE DEF h
          <6> QED BY <5>2, <6>2
        <5> HIDE DEF h
        <5> QED BY <5>1, <5>2
      <4>2. h = [s \in SUBSET (1 .. m + 1) |-> r(g, s)] /\ Rec(h, m + 1) = [s \in SUBSET (1 .. m + 1) |-> r(h, s)]
        OBVIOUS
      <4> HIDE DEF h, r, Rec
      <4> QED BY <4>1, <4>2
    <3>6. \E f : f = Rec(f, m + 1)
      <4> HIDE DEF h, Rec
      <4> QED BY <3>5
    <3>7. m + 1 \in 0 .. n
      OBVIOUS
    <3> HIDE DEF Rec
    <3> QED BY <3>6, <3>7
  <2>3. n \in good
    <3>1. good \in SUBSET (0 .. n) /\ 0 \in Int /\ n \in Int /\ n \in 0 .. n /\ 0 <= n
      OBVIOUS
    <3> HIDE DEF good
    <3> QED BY <2>1, <2>2, <3>1, IntervalInduction
  <2> HIDE DEF Rec
  <2> QED BY <2>3
<1>3. c = Rec(c, n)
  <2> HIDE DEF Rec
  <2> QED BY <1>2
<1> HIDE DEF c
<1>4. v[0] = base
  <2>1. {} \in SUBSET (1 .. n) /\ 1 .. 0 = {} /\ 0 \in 0 .. n
    OBVIOUS
  <2>2. c[{}] = base
    BY <1>3, <2>1
  <2> HIDE DEF Rec
  <2> QED BY <2>1, <2>2
<1>5. ASSUME NEW k \in 1 .. n PROVE v[k] = step(v[k - 1], seq[k])
  <2> DEFINE s == 1 .. k
  <2>1. s \in SUBSET (1 .. n) /\ s # {} /\ s \in SUBSET (1 .. k) /\ k \in s
    <3>1. k \in s /\ \A x \in s : x \in 1 .. n /\ x \in 1 .. k
      OBVIOUS
    <3> HIDE DEF s
    <3> QED BY <3>1
  <2>2. Max(s) = k
    <3>1. Max(s) \in s /\ \A x \in s : x <= Max(s)
      <4> HIDE DEF s
      <4> QED BY <2>1, TopOf
    <3>2. k <= Max(s) /\ Max(s) <= k /\ Max(s) \in Int
      BY <3>1
    <3> QED BY <3>2
  <2>3. s \ {k} = 1 .. k - 1
    OBVIOUS
  <2>4. c[s] = step(c[s \ {Max(s)}], seq[Max(s)])
    <3> HIDE DEF s
    <3> QED BY <1>3, <2>1
  <2>5. k \in 0 .. n /\ k - 1 \in 0 .. n
    OBVIOUS
  <2>6. v[k] = c[s] /\ v[k - 1] = c[1 .. k - 1]
    BY <2>5
  <2> HIDE DEF s, v
  <2> QED BY <2>2, <2>3, <2>4, <2>6
<1>6. DOMAIN v = 0 .. n /\ v[n] = c[1 .. n]
  BY n \in 0 .. n
<1> HIDE DEF v, Rec
<1>7. ChainRun(v, tx, base, n)
  BY <1>4, <1>5, <1>6 DEF ChainRun, step, seq
<1> QED BY <1>1, <1>6, <1>7

\* v has the states in which the first operations may leave the replay.
ReplayRun(v, state, ops, n) ==
  /\ DOMAIN v = 0 .. n /\ v[0] = {state}
  /\ \A k \in 1 .. n : v[k] = UNION {ReplayStep(s, ops[k]) : s \in v[k - 1]}

\* So has the fold.
LEMMA ReplayFold ==
  ASSUME NEW pool, NEW touched, NEW n \in Nat, NEW seq, DOMAIN seq = 1 .. n
  PROVE  \E v : /\ ReplayRun(v, [pool |-> pool, touched |-> touched], seq, n)
               /\ ReplayOps(pool, touched, seq) = v[n]
<1> DEFINE first == [pool |-> pool, touched |-> touched]
           base == {first}
           step(x, y) == UNION {ReplayStep(s, y) : s \in x}
           Rec(g, m) == [s \in SUBSET (1 .. m) |->
                          IF s = {} THEN base ELSE step(g[s \ {Max(s)}], seq[Max(s)])]
           c == CHOOSE g : g = Rec(g, n)
           v == [k \in 0 .. n |-> c[1 .. k]]
<1>1. ReplayOps(pool, touched, seq) = c[1 .. n]
  BY DEF ReplayOps, FoldLeft, MapThenFoldSet
<1> HIDE DEF base
<1> HIDE DEF step
<1>2. \E g : g = Rec(g, n)
  <2> DEFINE good == {m \in 0 .. n : \E g : g = Rec(g, m)}
  <2>1. 0 \in good
    <3> DEFINE h == [s \in SUBSET (1 .. 0) |-> base]
    <3>1. SUBSET (1 .. 0) = {{}}
      OBVIOUS
    <3>2. h = Rec(h, 0)
      BY <3>1
    <3>3. \E g : g = Rec(g, 0)
      BY <3>2
    <3> HIDE DEF Rec
    <3> QED BY <3>3
  <2>2. ASSUME NEW m \in 0 .. n - 1, m \in good PROVE m + 1 \in good
    <3>1. PICK g : g = Rec(g, m)
      <4> HIDE DEF Rec
      <4> QED BY <2>2
    <3> DEFINE h == Rec(g, m + 1)
    <3>2. \A s \in SUBSET (1 .. m) : s \in SUBSET (1 .. m + 1)
      OBVIOUS
    <3>3. \A s \in SUBSET (1 .. m) : h[s] = g[s]
      BY <3>1, <3>2
    <3>4. ASSUME NEW s \in SUBSET (1 .. m + 1), s # {} PROVE s \ {Max(s)} \in SUBSET (1 .. m)
      <4> DEFINE top == m + 1
      <4>1. top \in Nat /\ top > 0 /\ top - 1 = m
        OBVIOUS
      <4>2. s \in SUBSET (1 .. top) /\ s # {}
        BY <3>4
      <4> HIDE DEF top
      <4>3. s \ {Max(s)} \in SUBSET (1 .. top - 1)
        BY ONLY <4>1, <4>2, TopOf
      <4> QED BY <4>1, <4>3
    <3>5. h = Rec(h, m + 1)
      <4> DEFINE r(f, s) == IF s = {} THEN base ELSE step(f[s \ {Max(s)}], seq[Max(s)])
      <4>1. ASSUME NEW s \in SUBSET (1 .. m + 1) PROVE r(g, s) = r(h, s)
        <5>1. CASE s = {}
          BY <5>1
        <5>2. CASE s # {}
          <6> DEFINE u == s \ {Max(s)}
          <6>1. u \in SUBSET (1 .. m)
            BY <3>4, <5>2
          <6>2. h[u] = g[u]
            <7> HIDE DEF h, u
            <7> QED BY <3>3, <6>1
          <6> HIDE DEF h
          <6> QED BY <5>2, <6>2
        <5> HIDE DEF h
        <5> QED BY <5>1, <5>2
      <4>2. h = [s \in SUBSET (1 .. m + 1) |-> r(g, s)] /\ Rec(h, m + 1) = [s \in SUBSET (1 .. m + 1) |-> r(h, s)]
        OBVIOUS
      <4> HIDE DEF h, r, Rec
      <4> QED BY <4>1, <4>2
    <3>6. \E f : f = Rec(f, m + 1)
      <4> HIDE DEF h, Rec
      <4> QED BY <3>5
    <3>7. m + 1 \in 0 .. n
      OBVIOUS
    <3> HIDE DEF Rec
    <3> QED BY <3>6, <3>7
  <2>3. n \in good
    <3>1. good \in SUBSET (0 .. n) /\ 0 \in Int /\ n \in Int /\ n \in 0 .. n /\ 0 <= n
      OBVIOUS
    <3> HIDE DEF good
    <3> QED BY <2>1, <2>2, <3>1, IntervalInduction
  <2> HIDE DEF Rec
  <2> QED BY <2>3
<1>3. c = Rec(c, n)
  <2> HIDE DEF Rec
  <2> QED BY <1>2
<1> HIDE DEF c
<1>4. v[0] = base
  <2>1. {} \in SUBSET (1 .. n) /\ 1 .. 0 = {} /\ 0 \in 0 .. n
    OBVIOUS
  <2>2. c[{}] = base
    BY <1>3, <2>1
  <2> HIDE DEF Rec
  <2> QED BY <2>1, <2>2
<1>5. ASSUME NEW k \in 1 .. n PROVE v[k] = step(v[k - 1], seq[k])
  <2> DEFINE s == 1 .. k
  <2>1. s \in SUBSET (1 .. n) /\ s # {} /\ s \in SUBSET (1 .. k) /\ k \in s
    <3>1. k \in s /\ \A x \in s : x \in 1 .. n /\ x \in 1 .. k
      OBVIOUS
    <3> HIDE DEF s
    <3> QED BY <3>1
  <2>2. Max(s) = k
    <3>1. Max(s) \in s /\ \A x \in s : x <= Max(s)
      <4> HIDE DEF s
      <4> QED BY <2>1, TopOf
    <3>2. k <= Max(s) /\ Max(s) <= k /\ Max(s) \in Int
      BY <3>1
    <3> QED BY <3>2
  <2>3. s \ {k} = 1 .. k - 1
    OBVIOUS
  <2>4. c[s] = step(c[s \ {Max(s)}], seq[Max(s)])
    <3> HIDE DEF s
    <3> QED BY <1>3, <2>1
  <2>5. k \in 0 .. n /\ k - 1 \in 0 .. n
    OBVIOUS
  <2>6. v[k] = c[s] /\ v[k - 1] = c[1 .. k - 1]
    BY <2>5
  <2> HIDE DEF s, v
  <2> QED BY <2>2, <2>3, <2>4, <2>6
<1>6. DOMAIN v = 0 .. n /\ v[n] = c[1 .. n]
  BY n \in 0 .. n
<1> HIDE DEF v, Rec
<1>7. ReplayRun(v, first, seq, n)
  BY <1>4, <1>5, <1>6 DEF ReplayRun, step, base
<1> QED BY <1>1, <1>6, <1>7

-----------------------------------------------------------------------------
(* Operations one after the other                                              *)

\* The states before and after each of the first n operations.
Path(q, state, ops, n) ==
  /\ DOMAIN q = 0 .. n /\ q[0] = state
  /\ \A k \in 1 .. n : q[k] \in ReplayStep(q[k - 1], ops[k])

\* Only the pools.
Along(p, pool, ops, n) ==
  /\ DOMAIN p = 0 .. n /\ p[0] = pool
  /\ \A k \in 1 .. n : p[k] \in ReplayOn(p[k - 1], ops[k])

\* The operations lead from one pool to the other.
Takes(ops, pool, last) == \E p : Along(p, pool, ops, Len(ops)) /\ p[Len(ops)] = last

\* What ReplayOps ends with was reached step by step.
LEMMA OpsPath ==
  ASSUME NEW ops, Len(ops) \in Nat, DOMAIN ops = 1 .. Len(ops), NEW pool, NEW touched,
         NEW after \in ReplayOps(pool, touched, ops)
  PROVE  \E q : Path(q, [pool |-> pool, touched |-> touched], ops, Len(ops)) /\ q[Len(ops)] = after
<1> DEFINE n == Len(ops)
           first == [pool |-> pool, touched |-> touched]
<1> HIDE DEF n
<1>2. n \in Nat /\ DOMAIN ops = 1 .. n
  BY DEF n
<1>3. PICK v : ReplayRun(v, first, ops, n) /\ ReplayOps(pool, touched, ops) = v[n]
  BY <1>2, ReplayFold
<1> HIDE DEF first
<1> DEFINE good == {k \in 0 .. n : \A s \in v[k] : \E q : Path(q, first, ops, k) /\ q[k] = s}
<1>4. 0 \in good
  <2>1. ASSUME NEW s \in v[0] PROVE \E q : Path(q, first, ops, 0) /\ q[0] = s
    <3> DEFINE q == [i \in 0 .. 0 |-> first]
    <3>1. DOMAIN q = 0 .. 0 /\ q[0] = first /\ 1 .. 0 = {}
      OBVIOUS
    <3> HIDE DEF q
    <3>2. s = first
      BY <1>3, <2>1 DEF ReplayRun
    <3>3. Path(q, first, ops, 0) /\ q[0] = s
      BY <3>1, <3>2 DEF Path
    <3> QED BY <3>3
  <2> QED BY <1>2, <2>1
<1>5. ASSUME NEW k \in 0 .. n - 1, k \in good PROVE k + 1 \in good
  <2>1. k \in Nat /\ k + 1 \in 0 .. n /\ k + 1 \in 1 .. n /\ (k + 1) - 1 = k
    BY <1>2
  <2>2. ASSUME NEW s \in v[k + 1] PROVE \E q : Path(q, first, ops, k + 1) /\ q[k + 1] = s
    <3>1. v[k + 1] = UNION {ReplayStep(u, ops[k + 1]) : u \in v[k]}
      BY <1>3, <2>1 DEF ReplayRun
    <3>2. PICK u \in v[k] : s \in ReplayStep(u, ops[k + 1])
      BY <2>2, <3>1
    <3>3. PICK r : Path(r, first, ops, k) /\ r[k] = u
      BY <1>5, <3>2
    <3> DEFINE q == [i \in 0 .. k + 1 |-> IF i = k + 1 THEN s ELSE r[i]]
    <3>4. DOMAIN q = 0 .. k + 1 /\ q[k + 1] = s /\ \A i \in 0 .. k : q[i] = r[i]
      BY <2>1
    <3> HIDE DEF q
    <3>5. q[0] = first
      BY <2>1, <3>3, <3>4 DEF Path
    <3>6. ASSUME NEW i \in 1 .. k + 1 PROVE q[i] \in ReplayStep(q[i - 1], ops[i])
      <4>1. CASE i = k + 1
        BY <2>1, <3>2, <3>3, <3>4, <4>1
      <4>2. CASE i # k + 1
        <5>1. i \in 1 .. k /\ i \in 0 .. k /\ i - 1 \in 0 .. k
          BY <2>1, <4>2
        <5>2. r[i] \in ReplayStep(r[i - 1], ops[i])
          BY <3>3, <5>1 DEF Path
        <5> QED BY <3>4, <5>1, <5>2
      <4> QED BY <4>1, <4>2
    <3>7. Path(q, first, ops, k + 1)
      BY <3>4, <3>5, <3>6 DEF Path
    <3> QED BY <3>4, <3>7
  <2> QED BY <2>1, <2>2
<1>6. n \in good
  <2>1. good \in SUBSET (0 .. n) /\ 0 \in Int /\ n \in Int /\ n \in 0 .. n /\ 0 <= n
    BY <1>2
  <2> HIDE DEF good
  <2> QED BY <1>4, <1>5, <2>1, IntervalInduction
<1>7. after \in v[n]
  BY <1>3
<1>8. PICK q : Path(q, first, ops, n) /\ q[n] = after
  BY <1>6, <1>7
<1> QED BY <1>8 DEF first, n

\* What is reached step by step is what ReplayOps ends with.
LEMMA AlongReaches ==
  ASSUME NEW ops, Len(ops) \in Nat, DOMAIN ops = 1 .. Len(ops), NEW pool, NEW touched,
         NEW last, Takes(ops, pool, last)
  PROVE  \E end \in ReplayOps(pool, touched, ops) : end.pool = last
<1> DEFINE n == Len(ops)
           first == [pool |-> pool, touched |-> touched]
<1>2. PICK p : Along(p, pool, ops, n) /\ p[n] = last
  BY DEF Takes
<1> HIDE DEF n
<1>3. n \in Nat /\ DOMAIN ops = 1 .. n
  BY DEF n
<1>4. first.pool = pool
  OBVIOUS
<1>5. PICK v : ReplayRun(v, first, ops, n) /\ ReplayOps(pool, touched, ops) = v[n]
  BY <1>3, ReplayFold
<1> HIDE DEF first
<1> DEFINE good == {k \in 0 .. n : \E s \in v[k] : s.pool = p[k]}
<1>6. 0 \in good
  <2>1. first \in v[0] /\ first.pool = p[0]
    BY <1>2, <1>4, <1>5 DEF Along, ReplayRun
  <2> QED BY <1>3, <2>1
<1>7. ASSUME NEW k \in 0 .. n - 1, k \in good PROVE k + 1 \in good
  <2>1. k \in Nat /\ k + 1 \in 0 .. n /\ k + 1 \in 1 .. n /\ (k + 1) - 1 = k
    BY <1>3
  <2>2. PICK u \in v[k] : u.pool = p[k]
    BY <1>7
  <2> DEFINE s == [pool |-> p[k + 1], touched |-> u.touched \cup TouchedTicks(u.pool, ops[k + 1].op)]
  <2>3. p[k + 1] \in ReplayOn(u.pool, ops[k + 1])
    BY <1>2, <2>1, <2>2 DEF Along
  <2>4. s \in ReplayStep(u, ops[k + 1])
    BY <2>3 DEF ReplayStep
  <2>5. s.pool = p[k + 1]
    OBVIOUS
  <2> HIDE DEF s
  <2>6. v[k + 1] = UNION {ReplayStep(w, ops[k + 1]) : w \in v[k]}
    BY <1>5, <2>1 DEF ReplayRun
  <2>7. s \in v[k + 1]
    BY <2>2, <2>4, <2>6
  <2> QED BY <2>1, <2>5, <2>7
<1>8. n \in good
  <2>1. good \in SUBSET (0 .. n) /\ 0 \in Int /\ n \in Int /\ n \in 0 .. n /\ 0 <= n
    BY <1>3
  <2> HIDE DEF good
  <2> QED BY <1>6, <1>7, <2>1, IntervalInduction
<1>9. PICK s \in v[n] : s.pool = p[n]
  BY <1>8
<1>10. s \in ReplayOps(pool, touched, ops) /\ s.pool = last
  BY <1>2, <1>5, <1>9
<1> QED BY <1>10

\* A path's pools are the ones the operations lead along.
LEMMA PathTakes ==
  ASSUME NEW q, NEW state, NEW ops, Len(ops) \in Nat, Path(q, state, ops, Len(ops))
  PROVE  Takes(ops, state.pool, q[Len(ops)].pool)
<1> DEFINE n == Len(ops)
           p == [k \in 0 .. n |-> q[k].pool]
<1> HIDE DEF n
<1>1. n \in Nat
  BY DEF n
<1>2. DOMAIN p = 0 .. n /\ \A k \in 0 .. n : p[k] = q[k].pool
  OBVIOUS
<1> HIDE DEF p
<1>3. p[0] = state.pool
  BY <1>1, <1>2 DEF Path, n
<1>4. ASSUME NEW k \in 1 .. n PROVE p[k] \in ReplayOn(p[k - 1], ops[k])
  <2>1. q[k] \in ReplayStep(q[k - 1], ops[k])
    BY DEF Path, n
  <2>2. q[k].pool \in ReplayOn(q[k - 1].pool, ops[k])
    BY <2>1 DEF ReplayStep
  <2>3. k \in 0 .. n /\ k - 1 \in 0 .. n
    BY <1>1
  <2> QED BY <1>2, <2>2, <2>3
<1>5. Along(p, state.pool, ops, n) /\ p[n] = q[n].pool
  BY <1>1, <1>2, <1>3, <1>4 DEF Along
<1> QED BY <1>5 DEF Takes, n

\* One transaction after the other: the operations of all lead where those of
\* each have led.
LEMMA AllTake ==
  ASSUME NEW W, NEW n \in Nat, NEW seqs \in [1 .. n -> Seq(W)], NEW at,
         \A i \in 1 .. n : Takes(seqs[i], at[i - 1], at[i])
  PROVE  Takes(FlattenSeq(seqs), at[0], at[n])
<1> DEFINE all == FlattenSeq(seqs)
<1>1. PICK off : Holds(all, seqs, n, off)
  BY Flattened
<1>2. /\ off \in [0 .. n -> Nat] /\ off[0] = 0 /\ Len(all) = off[n]
      /\ \A i \in 1 .. n : off[i] = off[i - 1] + Len(seqs[i])
      /\ \A i \in 1 .. n : \A k \in 1 .. Len(seqs[i]) : all[off[i - 1] + k] = seqs[i][k]
  BY <1>1 DEF Holds, Offsets
<1> HIDE DEF all
<1> DEFINE good == {j \in 0 .. n : \E p : Along(p, at[0], all, off[j]) /\ p[off[j]] = at[j]}
<1>3. 0 \in good
  <2> DEFINE p == [i \in 0 .. 0 |-> at[0]]
  <2>1. DOMAIN p = 0 .. 0 /\ p[0] = at[0] /\ 1 .. 0 = {}
    OBVIOUS
  <2> HIDE DEF p
  <2>2. Along(p, at[0], all, 0) /\ p[0] = at[0]
    BY <2>1 DEF Along
  <2>3. Along(p, at[0], all, off[0]) /\ p[off[0]] = at[0]
    BY <1>2, <2>2
  <2> QED BY <2>3
<1>4. ASSUME NEW j \in 0 .. n - 1, j \in good PROVE j + 1 \in good
  <2> DEFINE m == Len(seqs[j + 1])
             a == off[j]
  <2>1. j + 1 \in 1 .. n /\ j + 1 \in 0 .. n /\ (j + 1) - 1 = j /\ j \in 0 .. n
    OBVIOUS
  <2>2. m \in Nat /\ a \in Nat /\ off[j + 1] = a + m
        /\ \A k \in 1 .. m : all[a + k] = seqs[j + 1][k]
    <3>1. seqs[j + 1] \in Seq(W)
      BY <2>1
    <3>2. m \in Nat
      BY <3>1
    <3> HIDE DEF m
    <3>3. a \in Nat
      BY <1>2, <2>1
    <3> QED BY <1>2, <2>1, <3>2, <3>3 DEF m
  <2>3. PICK p : Along(p, at[0], all, a) /\ p[a] = at[j]
    BY <1>4
  <2>4. PICK r : Along(r, at[j], seqs[j + 1], m) /\ r[m] = at[j + 1]
    BY <2>1 DEF Takes
  <2> HIDE DEF a, m
  <2> DEFINE q == [i \in 0 .. a + m |-> IF i <= a THEN p[i] ELSE r[i - a]]
  <2>5. DOMAIN q = 0 .. a + m /\ (\A i \in 0 .. a : q[i] = p[i])
    BY <2>2
  <2>6. \A i \in 0 .. m : q[a + i] = r[i]
    <3>1. ASSUME NEW i \in 0 .. m PROVE q[a + i] = r[i]
      <4>1. CASE i = 0
        <5>1. q[a] = p[a] /\ r[0] = at[j] /\ a + i = a
          BY <2>2, <2>4, <2>5, <4>1 DEF Along
        <5> QED BY <2>3, <4>1, <5>1
      <4>2. CASE i # 0
        <5>1. a + i \in 0 .. a + m /\ ~(a + i <= a) /\ (a + i) - a = i
          BY <2>2, <4>2
        <5> QED BY <5>1
      <4> QED BY <4>1, <4>2
    <3> QED BY <3>1
  <2> HIDE DEF q
  <2>7. q[0] = at[0]
    <3>1. 0 \in 0 .. a
      BY <2>2
    <3> QED BY <2>3, <2>5, <3>1 DEF Along
  <2>8. ASSUME NEW i \in 1 .. a + m PROVE q[i] \in ReplayOn(q[i - 1], all[i])
    <3>1. CASE i <= a
      <4>1. i \in 1 .. a /\ i \in 0 .. a /\ i - 1 \in 0 .. a
        BY <2>2, <3>1
      <4>2. p[i] \in ReplayOn(p[i - 1], all[i])
        BY <2>3, <4>1 DEF Along
      <4> QED BY <2>5, <4>1, <4>2
    <3>2. CASE ~(i <= a)
      <4> DEFINE k == i - a
      <4>1. k \in 1 .. m /\ k \in 0 .. m /\ k - 1 \in 0 .. m /\ a + k = i /\ a + (k - 1) = i - 1
        BY <2>2, <3>2
      <4> HIDE DEF k
      <4>2. r[k] \in ReplayOn(r[k - 1], seqs[j + 1][k])
        BY <2>4, <4>1 DEF Along
      <4>3. all[i] = seqs[j + 1][k]
        BY <2>2, <4>1
      <4>4. q[i] = r[k] /\ q[i - 1] = r[k - 1]
        BY <2>6, <4>1
      <4> QED BY <4>2, <4>3, <4>4
    <3> QED BY <3>1, <3>2
  <2>9. Along(q, at[0], all, a + m)
    BY <2>5, <2>7, <2>8 DEF Along
  <2>10. q[a + m] = at[j + 1]
    <3>1. m \in 0 .. m
      BY <2>2
    <3> QED BY <2>4, <2>6, <3>1
  <2>11. Along(q, at[0], all, off[j + 1]) /\ q[off[j + 1]] = at[j + 1]
    BY <2>2, <2>9, <2>10
  <2> QED BY <2>1, <2>11
<1>5. n \in good
  <2>1. good \in SUBSET (0 .. n) /\ 0 \in Int /\ n \in Int /\ n \in 0 .. n /\ 0 <= n
    OBVIOUS
  <2> HIDE DEF good
  <2> QED BY <1>3, <1>4, <2>1, IntervalInduction
<1>6. PICK p : Along(p, at[0], all, off[n]) /\ p[off[n]] = at[n]
  BY <1>5
<1>7. Along(p, at[0], all, Len(all)) /\ p[Len(all)] = at[n]
  BY <1>2, <1>6
<1> QED BY <1>7 DEF Takes, all

-----------------------------------------------------------------------------
(* The chain's pools                                                           *)

\* Each is what its transaction makes of the one before.
LEMMA ChainPoolsAre ==
  ASSUME NEW h \in Histories
  PROVE  /\ ChainPools[h][0] = h.pool
         /\ \A i \in 1 .. Len(h.txs) : ChainPools[h][i] = AfterTx(ChainPools[h][i - 1], h.txs[i])
<1> DEFINE n == Len(h.txs)
           Rec(g, m) == [i \in 0 .. m |-> IF i = 0 THEN h.pool ELSE AfterTx(g[i - 1], h.txs[i])]
           c == CHOOSE g : g = Rec(g, n)
<1>1. ChainPools[h] = c
  BY DEF ChainPools
<1>2. n \in Nat
  BY HistoryKnown
<1> HIDE DEF n
<1>3. \E g : g = Rec(g, n)
  <2> DEFINE good == {m \in 0 .. n : \E g : g = Rec(g, m)}
  <2>1. 0 \in good
    <3> DEFINE h0 == [i \in 0 .. 0 |-> h.pool]
    <3>1. h0 = Rec(h0, 0)
      OBVIOUS
    <3>2. \E g : g = Rec(g, 0)
      BY <3>1
    <3> HIDE DEF Rec
    <3> QED BY <1>2, <3>2
  <2>2. ASSUME NEW m \in 0 .. n - 1, m \in good PROVE m + 1 \in good
    <3>1. PICK g : g = Rec(g, m)
      <4> HIDE DEF Rec
      <4> QED BY <2>2
    <3> DEFINE e == Rec(g, m + 1)
               r(f, i) == IF i = 0 THEN h.pool ELSE AfterTx(f[i - 1], h.txs[i])
    <3>2. \A i \in 0 .. m : i \in 0 .. m + 1 /\ e[i] = r(g, i) /\ g[i] = r(g, i)
      BY <1>2, <3>1
    <3>3. ASSUME NEW i \in 0 .. m + 1 PROVE r(g, i) = r(e, i)
      <4>1. CASE i = 0
        BY <4>1
      <4>2. CASE i # 0
        <5>1. i - 1 \in 0 .. m
          BY <1>2, <4>2
        <5>2. e[i - 1] = g[i - 1]
          <6> HIDE DEF e, r
          <6> QED BY <3>2, <5>1
        <5> HIDE DEF e
        <5> QED BY <4>2, <5>2
      <4> HIDE DEF e, r
      <4> QED BY <4>1, <4>2
    <3>4. e = [i \in 0 .. m + 1 |-> r(g, i)] /\ Rec(e, m + 1) = [i \in 0 .. m + 1 |-> r(e, i)]
      OBVIOUS
    <3>5. e = Rec(e, m + 1)
      <4> HIDE DEF e, r, Rec
      <4> QED BY <3>3, <3>4
    <3>6. \E f : f = Rec(f, m + 1)
      <4> HIDE DEF e, Rec
      <4> QED BY <3>5
    <3>7. m + 1 \in 0 .. n
      BY <1>2
    <3> HIDE DEF Rec
    <3> QED BY <3>6, <3>7
  <2>3. n \in good
    <3>1. good \in SUBSET (0 .. n) /\ 0 \in Int /\ n \in Int /\ n \in 0 .. n /\ 0 <= n
      BY <1>2
    <3> HIDE DEF good
    <3> QED BY <2>1, <2>2, <3>1, IntervalInduction
  <2> HIDE DEF Rec
  <2> QED BY <2>3
<1>4. c = Rec(c, n)
  <2> HIDE DEF Rec
  <2> QED BY <1>3
<1> HIDE DEF c
<1>5. 0 \in 0 .. n /\ \A i \in 1 .. n : i \in 0 .. n /\ i # 0
  BY <1>2
<1>6. c[0] = h.pool /\ \A i \in 1 .. n : c[i] = AfterTx(c[i - 1], h.txs[i])
  BY <1>4, <1>5
<1> QED BY <1>1, <1>6 DEF n

-----------------------------------------------------------------------------
(* One operation                                                               *)

\* What an operation relies on.
Sound(op) ==
  /\ op.kind \in {"swap", "modify", "donate"}
  /\ op.kind = "swap" => op.amount \in Int /\ op.limit \in Int
  /\ op.kind = "modify" => op.lower \in Int /\ op.upper \in Int

Steady(pool, fee) ==
  /\ DOMAIN pool = {"price", "tick", "growth", "liquidity", "fee", "protocolFee", "ticks"}
  /\ pool.fee = fee /\ pool.tick \in Int
  /\ DOMAIN pool.ticks \in SUBSET Int /\ IsFiniteSet(DOMAIN pool.ticks)
  /\ \A t \in DOMAIN pool.ticks : DOMAIN pool.ticks[t] = {"gross", "net", "outside"}
                                  /\ pool.ticks[t].gross # 0

\* The pools differ at most at the ticks given.
DifferAt(pool, other, ticks) == \A t : TickEntry(pool, t) # TickEntry(other, t) => t \in ticks

\* A swap changes ticks between the current one and its limit only.
LEMMA SwapChanges ==
  ASSUME NEW pool, NEW fee, Steady(pool, fee), NEW op, Sound(op), op.kind = "swap", NEW paid,
         NEW after \in Swapped(pool, op, paid)
  PROVE  /\ Swapped(pool, op, paid) = {after} /\ Steady(after, fee)
         /\ DifferAt(pool, after, TouchedTicks(pool, op))
<1> DEFINE crossed == CrossedTicks(pool, op)
           growth  == [pool.growth EXCEPT ![IF op.zeroForOne THEN 1 ELSE 2] = @ + paid]
           net     == NetAcross(pool, crossed)
           end     == SwapEnd(pool, op)
           liquidity == IF op.zeroForOne THEN pool.liquidity - net ELSE pool.liquidity + net
           ticks == [t \in DOMAIN pool.ticks |->
                      IF t \in crossed THEN Flipped(pool.ticks[t], growth) ELSE pool.ticks[t]]
           price  == SwapPrice(pool, op)
           result == [pool EXCEPT !.tick = end, !.price = price, !.growth = growth,
                                  !.liquidity = liquidity, !.ticks = ticks]
<1>1. Swapped(pool, op, paid) = {} \/ Swapped(pool, op, paid) = {result}
  BY DEF Swapped, Initialized
<1>2. after = result /\ Swapped(pool, op, paid) = {after}
  BY <1>1
<1>0. pool.tick \in Int /\ op.amount \in Int /\ op.limit \in Int
  BY DEF Steady, Sound
<1>3. /\ end \in Int
      /\ op.zeroForOne => op.limit - 1 <= end
      /\ ~op.zeroForOne => end <= op.limit
  <2>1. CASE LimitReached(pool, op)
    <3>1. end = IF op.zeroForOne /\ StepEnds(pool, op.limit) THEN op.limit - 1 ELSE op.limit
      BY <2>1 DEF SwapEnd
    <3> QED BY <1>0, <3>1
  <2>2. CASE ~LimitReached(pool, op)
    <3>1. end = IF op.zeroForOne THEN pool.tick - op.amount ELSE pool.tick + op.amount
      BY <2>2 DEF SwapEnd
    <3>2. IF op.zeroForOne THEN ~(pool.tick - op.amount < op.limit)
          ELSE ~(pool.tick + op.amount >= op.limit)
      BY <2>2 DEF LimitReached
    <3> QED BY <1>0, <3>1, <3>2
  <2> QED BY <2>1, <2>2
<1>4. ASSUME NEW t \in crossed PROVE t \in TouchedTicks(pool, op)
  <2>1. /\ t \in Initialized(pool) /\ t \in Int
        /\ IF op.zeroForOne THEN end < t /\ t <= pool.tick ELSE pool.tick < t /\ t <= end
    BY DEF Steady, CrossedTicks, Initialized
  <2> HIDE DEF end
  <2>2. IF op.zeroForOne THEN op.limit <= t /\ t <= pool.tick ELSE pool.tick <= t /\ t <= op.limit
    BY <1>0, <1>3, <2>1
  <2> QED BY <2>1, <2>2 DEF TouchedTicks
<1>5. \A t \in DOMAIN pool.ticks \ crossed : ticks[t] = pool.ticks[t]
  OBVIOUS
<1>6. \A t \in DOMAIN pool.ticks : DOMAIN ticks[t] = {"gross", "net", "outside"} /\ ticks[t].gross # 0
  <2>1. ASSUME NEW t \in DOMAIN pool.ticks
        PROVE DOMAIN ticks[t] = {"gross", "net", "outside"} /\ ticks[t].gross # 0
    <3> DEFINE e == pool.ticks[t]
    <3>1. DOMAIN e = {"gross", "net", "outside"} /\ e.gross # 0
      BY DEF Steady
    <3>2. ticks[t] = IF t \in crossed THEN Flipped(e, growth) ELSE e
      OBVIOUS
    <3> HIDE DEF e, growth, ticks, crossed
    <3> QED BY <3>1, <3>2 DEF Flipped
  <2> QED BY <2>1
<1>7. DOMAIN ticks = DOMAIN pool.ticks
  OBVIOUS
<1> HIDE DEF crossed, growth, end, liquidity, ticks, price
<1>8. DOMAIN result = DOMAIN pool /\ result.fee = fee /\ result.tick = end /\ result.ticks = ticks
  BY DEF Steady
<1> HIDE DEF result
<1>9. Steady(after, fee)
  BY <1>2, <1>3, <1>6, <1>7, <1>8 DEF Steady
<1>10. ASSUME NEW t, t \notin crossed PROVE TickEntry(pool, t) = TickEntry(after, t)
  BY <1>2, <1>5, <1>7, <1>8, <1>10 DEF TickEntry
<1> QED BY <1>1, <1>4, <1>9, <1>10 DEF DifferAt

\* A change of liquidity changes the two ticks of its range only.
LEMMA ModifyChanges ==
  ASSUME NEW pool, NEW fee, Steady(pool, fee), NEW op, Sound(op), op.kind = "modify",
         NEW after \in Modified(pool, op)
  PROVE  /\ Modified(pool, op) = {after} /\ Steady(after, fee)
         /\ DifferAt(pool, after, {op.lower, op.upper})
<1> DEFINE info(t) == IF t \in DOMAIN pool.ticks THEN pool.ticks[t]
                 ELSE [NoTick EXCEPT !.outside = IF t <= pool.tick THEN pool.growth ELSE NoTick.outside]
           bounds == {op.lower, op.upper}
           entry(t) == IF t \notin bounds THEN pool.ticks[t]
                    ELSE [info(t) EXCEPT !.gross = info(t).gross + op.delta,
                                         !.net = info(t).net + (IF t = op.lower THEN op.delta ELSE -op.delta)]
           updated == [t \in DOMAIN pool.ticks \cup bounds |-> entry(t)]
           liquidity == IF op.lower <= pool.tick /\ pool.tick < op.upper
                        THEN pool.liquidity + op.delta ELSE pool.liquidity
           ticks == [t \in {u \in DOMAIN updated : updated[u].gross # 0} |-> updated[t]]
           result == [pool EXCEPT !.liquidity = liquidity, !.ticks = ticks]
<1>1. Modified(pool, op) = {} \/ Modified(pool, op) = {result}
  BY DEF Modified, Initialized
<1>2. after = result /\ Modified(pool, op) = {after}
  BY <1>1
<1>3. \A t \in DOMAIN pool.ticks : DOMAIN pool.ticks[t] = {"gross", "net", "outside"}
                                   /\ pool.ticks[t].gross # 0
  BY DEF Steady
<1>4. \A t : DOMAIN info(t) = {"gross", "net", "outside"}
  <2>1. ASSUME NEW t PROVE DOMAIN info(t) = {"gross", "net", "outside"}
    <3>1. DOMAIN NoTick = {"gross", "net", "outside"}
      BY DEF NoTick
    <3> QED BY <1>3, <3>1
  <2> HIDE DEF info
  <2> QED BY <2>1
<1> HIDE DEF info
<1>5. \A t \in DOMAIN pool.ticks \cup bounds : DOMAIN entry(t) = {"gross", "net", "outside"}
  <2>1. ASSUME NEW t \in DOMAIN pool.ticks \cup bounds PROVE DOMAIN entry(t) = {"gross", "net", "outside"}
    <3>1. CASE t \notin bounds
      BY <1>3, <3>1
    <3>2. CASE t \in bounds
      BY <1>4, <3>2
    <3> HIDE DEF entry
    <3> QED BY <3>1, <3>2
  <2> HIDE DEF entry
  <2> QED BY <2>1
<1>6. \A t : t \notin bounds => entry(t) = pool.ticks[t]
  OBVIOUS
<1> HIDE DEF entry
<1>7. /\ DOMAIN updated = DOMAIN pool.ticks \cup bounds
      /\ \A t \in DOMAIN pool.ticks \cup bounds : updated[t] = entry(t)
  OBVIOUS
<1> HIDE DEF updated
<1>8. /\ DOMAIN ticks = {u \in DOMAIN updated : updated[u].gross # 0}
      /\ \A t \in DOMAIN ticks : ticks[t] = updated[t]
  OBVIOUS
<1> HIDE DEF ticks, liquidity
<1>9. \A t \in DOMAIN ticks : DOMAIN ticks[t] = {"gross", "net", "outside"} /\ ticks[t].gross # 0
  BY <1>5, <1>7, <1>8
<1>10. DOMAIN ticks \in SUBSET Int /\ IsFiniteSet(DOMAIN ticks)
  <2>1. bounds \in SUBSET Int /\ DOMAIN pool.ticks \in SUBSET Int /\ IsFiniteSet(DOMAIN pool.ticks)
    BY DEF Sound, Steady
  <2>2. IsFiniteSet(DOMAIN pool.ticks \cup bounds)
    <3>1. IsFiniteSet({op.upper}) /\ bounds = {op.upper} \cup {op.lower}
      BY FS_Singleton
    <3>2. IsFiniteSet(bounds)
      BY <3>1, FS_AddElement
    <3> HIDE DEF bounds
    <3> QED BY <2>1, <3>2, FS_Union
  <2>3. DOMAIN ticks \in SUBSET (DOMAIN pool.ticks \cup bounds)
    BY <1>7, <1>8
  <2> HIDE DEF bounds
  <2> QED BY <2>1, <2>2, <2>3, FS_Subset
<1>11. /\ DOMAIN result = DOMAIN pool /\ result.fee = fee /\ result.tick = pool.tick /\ result.ticks = ticks
  BY DEF Steady
<1> HIDE DEF result
<1>12. Steady(after, fee)
  <2>1. pool.tick \in Int /\ DOMAIN pool = {"price", "tick", "growth", "liquidity", "fee", "protocolFee", "ticks"}
    BY DEF Steady
  <2> QED BY <1>2, <1>9, <1>10, <1>11, <2>1 DEF Steady
<1>13. ASSUME NEW t, t \notin bounds PROVE TickEntry(pool, t) = TickEntry(after, t)
  <2> HIDE DEF bounds
  <2>1. t \in DOMAIN ticks <=> t \in DOMAIN pool.ticks
    BY <1>3, <1>6, <1>7, <1>8, <1>13
  <2>2. t \in DOMAIN ticks => ticks[t] = pool.ticks[t]
    BY <1>6, <1>7, <1>8, <1>13
  <2> QED BY <1>2, <1>11, <2>1, <2>2 DEF TickEntry
<1> QED BY <1>2, <1>12, <1>13 DEF DifferAt

-----------------------------------------------------------------------------
(* An operation replayed                                                    *)

\* The calls of a history are sound, and the fee of a swap is the pool's unless
\* the pool's fee is dynamic.
LEMMA FramesKnown ==
  ASSUME NEW h \in Histories, NEW i \in DOMAIN h.txs, NEW j \in Persisted(h.txs[i].frames)
  PROVE  /\ Sound(h.txs[i].frames[j].op)
         /\ ~h.dynamic /\ h.txs[i].frames[j].op.kind = "swap" => h.txs[i].frames[j].fee = h.pool.fee
<1> DEFINE tx == h.txs[i]
           frame == tx.frames[j]
<1>1. tx \in ToSet(h.txs)
  BY DEF ToSet
<1> HIDE DEF tx
<1>2. j \in Persisted(tx.frames) /\ j \in DOMAIN tx.frames
  BY DEF tx, Persisted
<1>3. frame \in ToSet(tx.frames)
  BY <1>2 DEF ToSet
<1>4. ~h.dynamic /\ frame.op.kind = "swap" => frame.fee = h.pool.fee
  BY <1>1, <1>2, HistoryAssumption
<1> HIDE DEF frame
<1>5. Sound(frame.op)
  BY <1>1, <1>3, ReplayAssumption DEF Sound
<1> QED BY <1>4, <1>5 DEF frame, tx

\* The replay has an operation as the chain executed it, call j of transaction i.
SameCall(h, i, o, j) ==
  LET frame == h.txs[i].frames[j]
  IN  /\ o.op = frame.op
      /\ frame.op.kind = "swap" => o.fee = IF h.dynamic THEN {frame.fee} ELSE {}

TouchedSet(touched) == touched \in SUBSET Int /\ IsFiniteSet(touched)

\* It does what the call did, and changes touched ticks only.
LEMMA CallReplayed ==
  ASSUME NEW h \in Histories, NEW i \in DOMAIN h.txs, NEW j \in Persisted(h.txs[i].frames),
         NEW o, SameCall(h, i, o, j), NEW pool, Steady(pool, h.pool.fee),
         NEW after \in ReplayOn(pool, o)
  PROVE  /\ after = ChainStep(h.txs[i], pool, j) /\ Steady(after, h.pool.fee)
         /\ DifferAt(pool, after, TouchedTicks(pool, o.op)) /\ TouchedSet(TouchedTicks(pool, o.op))
<1> DEFINE frame == h.txs[i].frames[j]
           op == frame.op
           fee == IF o.fee = {} THEN pool.fee ELSE CHOOSE f \in o.fee : TRUE
           chain == Applied(pool, op, frame.fee)
<1>1. /\ o.op = op
      /\ op.kind = "swap" => o.fee = IF h.dynamic THEN {frame.fee} ELSE {}
  BY DEF SameCall
<1>2. Sound(op) /\ (~h.dynamic /\ op.kind = "swap" => frame.fee = h.pool.fee)
  BY FramesKnown
<1>3. ChainStep(h.txs[i], pool, j) = CHOOSE p \in chain : TRUE
  BY DEF ChainStep
<1>4. after \in Applied(pool, op, fee) /\ op.kind # "donate"
  BY <1>1 DEF ReplayOn
<1>5. pool.fee = h.pool.fee
  BY DEF Steady
<1> HIDE DEF op
<1>6. CASE op.kind = "swap"
  <2>1. fee = frame.fee
    <3>1. CASE h.dynamic
      <4>1. o.fee = {frame.fee}
        BY <1>1, <1>6, <3>1
      <4> HIDE DEF frame
      <4> QED BY <4>1
    <3>2. CASE ~h.dynamic
      <4>1. o.fee = {} /\ frame.fee = h.pool.fee
        BY <1>1, <1>2, <1>6, <3>2
      <4> HIDE DEF frame
      <4> QED BY <1>5, <4>1
    <3> QED BY <3>1, <3>2
  <2> HIDE DEF fee, frame
  <2>2. Applied(pool, op, frame.fee) = Swapped(pool, op, frame.fee)
    BY <1>6 DEF Applied
  <2>3. after \in Swapped(pool, op, frame.fee)
    BY <1>4, <2>1, <2>2
  <2>4. /\ Swapped(pool, op, frame.fee) = {after} /\ Steady(after, h.pool.fee)
        /\ DifferAt(pool, after, TouchedTicks(pool, op))
    BY <1>2, <1>6, <2>3, SwapChanges
  <2>5. chain = {after}
    BY <2>2, <2>4
  <2>6. TouchedTicks(pool, op) \in SUBSET DOMAIN pool.ticks
    BY <1>6 DEF TouchedTicks, Initialized
  <2>7. TouchedSet(TouchedTicks(pool, op))
    <3>1. DOMAIN pool.ticks \in SUBSET Int /\ IsFiniteSet(DOMAIN pool.ticks)
      BY DEF Steady
    <3> QED BY <2>6, <3>1, FS_Subset DEF TouchedSet
  <2> HIDE DEF chain
  <2>8. (CHOOSE p \in chain : TRUE) = after
    BY <2>5
  <2> QED BY <1>1, <1>3, <2>4, <2>7, <2>8
<1>7. CASE op.kind = "modify"
  <2> HIDE DEF fee, frame
  <2>1. Applied(pool, op, frame.fee) = Modified(pool, op) /\ Applied(pool, op, fee) = Modified(pool, op)
    BY <1>7 DEF Applied
  <2>2. after \in Modified(pool, op)
    BY <1>4, <2>1
  <2>3. TouchedTicks(pool, op) = {op.lower, op.upper}
    BY <1>7 DEF TouchedTicks
  <2>4. /\ Modified(pool, op) = {after} /\ Steady(after, h.pool.fee)
        /\ DifferAt(pool, after, {op.lower, op.upper})
    BY <1>2, <1>7, <2>2, ModifyChanges
  <2>5. chain = {after}
    BY <2>1, <2>4
  <2>6. TouchedSet({op.lower, op.upper})
    <3>1. op.lower \in Int /\ op.upper \in Int
      BY <1>2, <1>7 DEF Sound
    <3>2. IsFiniteSet({op.upper}) /\ {op.lower, op.upper} = {op.upper} \cup {op.lower}
      BY FS_Singleton
    <3>3. IsFiniteSet({op.lower, op.upper})
      BY <3>2, FS_AddElement
    <3> QED BY <3>1, <3>3 DEF TouchedSet
  <2> HIDE DEF chain
  <2>7. (CHOOSE p \in chain : TRUE) = after
    BY <2>5
  <2> QED BY <1>1, <1>3, <2>3, <2>4, <2>6, <2>7
<1> QED BY <1>2, <1>4, <1>6, <1>7 DEF Sound

\* The two parts of a step.
LEMMA StepIs ==
  ASSUME NEW s, NEW o, NEW t \in ReplayStep(s, o)
  PROVE  t.pool \in ReplayOn(s.pool, o) /\ t.touched = s.touched \cup TouchedTicks(s.pool, o.op)
BY DEF ReplayStep

\* The operations of a transaction lead where the chain's have led.
LEMMA TxReplayed ==
  ASSUME NoBeforeHooks, NEW h \in Histories, NEW i \in DOMAIN h.txs, NEW ops,
         DOMAIN ops = 1 .. Ops(h, i), Len(ops) = Ops(h, i),
         \A k \in 1 .. Ops(h, i) : SameCall(h, i, ops[k], Executed(h.txs[i])[k]),
         NEW pool, Steady(pool, h.pool.fee), NEW touched, TouchedSet(touched),
         NEW after \in ReplayOps(pool, touched, ops)
  PROVE  /\ after.pool = AfterTx(pool, h.txs[i]) /\ Takes(ops, pool, after.pool)
         /\ touched \subseteq after.touched /\ TouchedSet(after.touched)
         /\ DifferAt(pool, after.pool, after.touched)
<1> DEFINE n == Ops(h, i)
           tx == h.txs[i]
           first == [pool |-> pool, touched |-> touched]
           order == Executed(tx)
<1>1. n \in Nat /\ order \in [1 .. n -> Persisted(tx.frames)]
  BY PersistedFinite, ExecutedIs DEF Ops
<1>2. PICK q : Path(q, first, ops, n) /\ q[n] = after
  BY <1>1, OpsPath
<1> HIDE DEF tx
<1>3. PICK v : ChainRun(v, tx, pool, n) /\ AfterTx(pool, tx) = v[n]
  <2>1. DOMAIN Executed(tx) = 1 .. n
    BY <1>1
  <2> QED BY <1>1, <2>1, ChainFold
<1>4. first.pool = pool /\ first.touched = touched
  OBVIOUS
<1> HIDE DEF n, first, order
<1> DEFINE holds(k) == /\ q[k].pool = v[k] /\ Steady(q[k].pool, h.pool.fee)
                       /\ touched \subseteq q[k].touched /\ TouchedSet(q[k].touched)
                       /\ DifferAt(pool, q[k].pool, q[k].touched)
           good == {k \in 0 .. n : holds(k)}
<1>5. 0 \in good
  <2>1. q[0] = first /\ v[0] = pool
    BY <1>2, <1>3 DEF Path, ChainRun
  <2>2. DifferAt(pool, pool, touched)
    BY DEF DifferAt
  <2>3. holds(0)
    BY <1>4, <2>1, <2>2
  <2> HIDE DEF holds
  <2> QED BY <1>1, <2>3
<1>6. ASSUME NEW k \in 0 .. n - 1, k \in good PROVE k + 1 \in good
  <2>1. k + 1 \in 1 .. n /\ k + 1 \in 0 .. n /\ (k + 1) - 1 = k
    BY <1>1
  <2> DEFINE s == q[k]
             t == q[k + 1]
             o == ops[k + 1]
             j == order[k + 1]
  <2>2. holds(k)
    BY <1>6
  <2>3. t \in ReplayStep(s, o)
    BY <1>2, <2>1 DEF Path
  <2>4. t.pool \in ReplayOn(s.pool, o) /\ t.touched = s.touched \cup TouchedTicks(s.pool, o.op)
    <3> HIDE DEF s, t, o
    <3> QED BY <2>3, StepIs
  <2>5. j \in Persisted(h.txs[i].frames) /\ SameCall(h, i, o, j)
    BY <1>1, <2>1 DEF tx, order, n
  <2>6. v[k + 1] = ChainStep(tx, v[k], j)
    BY <1>3, <2>1 DEF ChainRun, order
  <2> HIDE DEF s, t, o, j
  <2>7. /\ t.pool = ChainStep(tx, s.pool, j) /\ Steady(t.pool, h.pool.fee)
        /\ DifferAt(s.pool, t.pool, TouchedTicks(s.pool, o.op)) /\ TouchedSet(TouchedTicks(s.pool, o.op))
    <3>1. Steady(s.pool, h.pool.fee)
      BY <2>2 DEF s
    <3> DEFINE p == s.pool
               r == t.pool
    <3> HIDE DEF p, r
    <3>2. r \in ReplayOn(p, o) /\ Steady(p, h.pool.fee)
      BY <2>4, <3>1 DEF p, r
    <3>3. /\ r = ChainStep(h.txs[i], p, j) /\ Steady(r, h.pool.fee)
          /\ DifferAt(p, r, TouchedTicks(p, o.op)) /\ TouchedSet(TouchedTicks(p, o.op))
      BY <2>5, <3>2, CallReplayed
    <3> QED BY <3>3 DEF p, r, tx
  <2>8. t.pool = v[k + 1]
    BY <2>2, <2>6, <2>7 DEF s
  <2>9. TouchedSet(t.touched) /\ touched \subseteq t.touched
    <3>1. TouchedSet(s.touched) /\ touched \subseteq s.touched
      BY <2>2 DEF s
    <3> DEFINE a == s.touched
               b == TouchedTicks(s.pool, o.op)
    <3>2. t.touched = a \cup b /\ TouchedSet(a) /\ TouchedSet(b) /\ touched \subseteq a
      BY <2>4, <2>7, <3>1
    <3> HIDE DEF a, b
    <3>3. IsFiniteSet(a \cup b)
      BY <3>2, FS_Union DEF TouchedSet
    <3> QED BY <3>2, <3>3 DEF TouchedSet
  <2>10. DifferAt(pool, t.pool, t.touched)
    <3>1. DifferAt(pool, s.pool, s.touched)
      BY <2>2 DEF s
    <3> QED BY <2>4, <2>7, <3>1 DEF DifferAt
  <2>11. holds(k + 1)
    BY <2>7, <2>8, <2>9, <2>10 DEF t
  <2> HIDE DEF holds
  <2> QED BY <2>1, <2>11
<1>7. n \in good
  <2>1. good \in SUBSET (0 .. n) /\ 0 \in Int /\ n \in Int /\ n \in 0 .. n /\ 0 <= n
    BY <1>1
  <2> HIDE DEF good
  <2> QED BY <1>5, <1>6, <2>1, IntervalInduction
<1>8. holds(n)
  BY <1>7
<1>9. Takes(ops, pool, after.pool)
  <2>1. Len(ops) = n
    BY DEF n
  <2> QED BY <1>1, <1>2, <1>4, <2>1, PathTakes
<1> QED BY <1>2, <1>3, <1>8, <1>9 DEF tx

-----------------------------------------------------------------------------
(* The logs of a transaction are its calls'                                    *)

\* Numbers that never fall and leave none out are at their places.
LEMMA RisingOnto ==
  ASSUME NEW m \in Nat, NEW g \in [1 .. m -> 1 .. m],
         \A j, k \in 1 .. m : j < k => g[j] <= g[k],
         \A x \in 1 .. m : \E j \in 1 .. m : g[j] = x
  PROVE  \A k \in 1 .. m : g[k] = k
<1> DEFINE low  == {k \in 1 .. m : g[k] <= k}
           high == {i \in 0 .. m - 1 : g[m - i] >= m - i}
<1>1. \A k \in 1 .. m : g[k] \in Int /\ 1 <= g[k] /\ g[k] <= m
  OBVIOUS
<1>2. 1 <= m => 1 \in low
  <2> SUFFICES ASSUME 1 <= m PROVE 1 \in low
    OBVIOUS
  <2>1. PICK j \in 1 .. m : g[j] = 1
    OBVIOUS
  <2>2. 1 \in 1 .. m
    OBVIOUS
  <2>3. j = 1 \/ 1 < j
    OBVIOUS
  <2>4. g[1] <= 1
    BY <1>1, <2>1, <2>2, <2>3
  <2> QED BY <2>2, <2>4
<1>3. ASSUME NEW k \in 1 .. m - 1, k \in low PROVE k + 1 \in low
  <2>1. k + 1 \in 1 .. m /\ k \in 1 .. m /\ g[k] <= k
    BY <1>3
  <2>2. PICK j \in 1 .. m : g[j] = k + 1
    BY <2>1
  <2>3. j <= k => g[j] <= g[k]
    <3>1. j = k \/ j < k \/ k < j
      BY <2>1
    <3> QED BY <1>1, <2>1, <3>1
  <2>4. ~(j <= k)
    BY <1>1, <2>1, <2>2, <2>3
  <2>5. j = k + 1 \/ k + 1 < j
    BY <2>1, <2>4
  <2>6. g[k + 1] <= g[j]
    BY <1>1, <2>1, <2>5
  <2> QED BY <2>1, <2>2, <2>6
<1>4. \A k \in 1 .. m : k \in low
  <2>1. low \in SUBSET (1 .. m) /\ 1 \in Int /\ m \in Int
    OBVIOUS
  <2> HIDE DEF low
  <2> QED BY <1>2, <1>3, <2>1, IntervalInduction
<1>5. 0 <= m - 1 => 0 \in high
  <2> SUFFICES ASSUME 0 <= m - 1 PROVE 0 \in high
    OBVIOUS
  <2>1. m \in 1 .. m
    OBVIOUS
  <2>2. PICK j \in 1 .. m : g[j] = m
    BY <2>1
  <2>3. j = m \/ j < m
    OBVIOUS
  <2>4. g[m] >= m
    BY <1>1, <2>1, <2>2, <2>3
  <2>5. m - 0 = m /\ 0 \in 0 .. m - 1
    OBVIOUS
  <2> QED BY <2>4, <2>5
<1>6. ASSUME NEW i \in 0 .. (m - 1) - 1, i \in high PROVE i + 1 \in high
  <2> DEFINE k == m - (i + 1)
  <2>1. k \in 1 .. m - 1 /\ k + 1 = m - i /\ i + 1 \in 0 .. m - 1
    OBVIOUS
  <2>2. g[m - i] >= m - i
    BY <1>6
  <2> HIDE DEF k
  <2>3. k \in 1 .. m /\ k + 1 \in 1 .. m /\ g[k + 1] >= k + 1
    BY <2>1, <2>2
  <2>4. PICK j \in 1 .. m : g[j] = k
    BY <2>3
  <2>5. j = k + 1 \/ j < k + 1 \/ k + 1 < j
    BY <2>3
  <2>6. ~(j = k + 1 \/ k + 1 < j)
    <3>1. j = k + 1 \/ k + 1 < j => g[k + 1] <= g[j]
      BY <1>1, <2>3
    <3> QED BY <1>1, <2>3, <2>4, <3>1
  <2>7. j = k \/ j < k
    BY <2>3, <2>5, <2>6
  <2>8. g[j] <= g[k]
    BY <1>1, <2>3, <2>7
  <2>9. g[k] >= k
    BY <1>1, <2>3, <2>4, <2>8
  <2> QED BY <2>1, <2>9 DEF k
<1>7. \A i \in 0 .. m - 1 : i \in high
  <2>1. high \in SUBSET (0 .. m - 1) /\ 0 \in Int /\ m - 1 \in Int
    OBVIOUS
  <2> HIDE DEF high
  <2> QED BY <1>5, <1>6, <2>1, IntervalInduction
<1>8. ASSUME NEW k \in 1 .. m PROVE g[k] = k
  <2>1. m - k \in 0 .. m - 1 /\ m - (m - k) = k
    OBVIOUS
  <2>2. m - k \in high /\ k \in low
    BY <1>4, <1>7, <2>1
  <2>3. g[m - (m - k)] >= m - (m - k)
    BY <2>2
  <2>4. g[k] >= k
    BY <2>1, <2>3
  <2> QED BY <1>1, <2>2, <2>4
<1> QED BY <1>8

\* Each call's log is at its place.
CallsLogged(tx) ==
  \A k \in 1 .. Ops(History, tx) :
    LET frame == History.txs[tx].frames[Executed(History.txs[tx])[k]]
    IN  LogsOf(tx)[k].kind = frame.op.kind /\ LogsOf(tx)[k].fee = frame.fee

\* As many logs as there were calls are the calls' logs, in order.
LEMMA TxLogs ==
  ASSUME NoBeforeHooks, InputKnown, LogsSound, LogsRead,
         NEW tx \in DOMAIN History.txs, InRange(History.txs[tx].block),
         Len(LogsOf(tx)) = Ops(History, tx)
  PROVE  CallsLogged(tx)
<1> DEFINE L == ChainLogs[History]
           S == SortedLogs
           Q == {k \in DOMAIN S : S[k].tx = tx}
           m == Ops(History, tx)
           own == LogsOf(tx)
<1>1. LogOrder(History, L) /\ \A l \in RangeLogs : \E p \in DOMAIN L : L[p] = l
  BY ChainLogsKnown
<1>2. /\ S \in Seq(RangeLogs) /\ ToSet(S) = ToSet(logs) /\ DOMAIN S = 1 .. Len(S) /\ Len(S) \in Nat
      /\ \A j, k \in DOMAIN S : j < k =>
           \/ S[j].block < S[k].block
           \/ S[j].block = S[k].block /\ S[j].index <= S[k].index
  BY SortedIs
<1>3. m \in Nat /\ m = Cardinality(Q) /\ \A k \in 1 .. m : own[k] \in RangeLogs /\ own[k].tx = tx
  BY LogsOfIs
<1>4. own = Kept(S, Q)
  BY DEF LogsOf
<1>5. L = LogsOfHistory(History) /\ History \in Histories
  BY DEF ChainLogs, InputKnown
<1>6. PICK off : LogsAt(L, History, Len(History.txs), off) /\ CallsAt(L, History, Len(History.txs), off)
  BY <1>5, LogsFound
<1>7. DOMAIN History.txs = 1 .. Len(History.txs) /\ Len(History.txs) \in Nat
  BY <1>5, HistoryKnown
<1> DEFINE b == off[tx - 1]
<1>8. b \in Nat /\ off[tx] = b + m /\ off[tx] \in Nat /\ off[tx] <= off[Len(History.txs)]
  <2>1. tx \in 1 .. Len(History.txs) /\ tx - 1 \in 0 .. Len(History.txs) /\ tx \in 0 .. Len(History.txs)
    BY <1>7
  <2> QED BY <1>6, <2>1 DEF LogsAt
<1>9. \A x \in 1 .. m : b + x \in DOMAIN L /\ b + x \in Nat /\ L[b + x].tx = tx
  <2>1. ASSUME NEW x \in 1 .. m PROVE b + x \in DOMAIN L /\ b + x \in Nat /\ L[b + x].tx = tx
    <3> HIDE DEF m
    <3>1. off[tx - 1] = b /\ tx \in 1 .. Len(History.txs)
      BY <1>7
    <3>2. off[Len(History.txs)] \in Nat
      <4>1. Len(History.txs) \in 0 .. Len(History.txs)
        BY <1>7
      <4> QED BY <1>6, <4>1 DEF LogsAt
    <3> HIDE DEF b
    <3>3. b + x \in b + 1 .. off[tx] /\ b + x \in 1 .. off[Len(History.txs)] /\ b + x \in Nat
      BY <1>3, <1>8, <3>2
    <3> QED BY <1>6, <3>1, <3>3 DEF LogsAt
  <2> QED BY <2>1
<1>10. ASSUME NEW p \in DOMAIN L, L[p].tx = tx PROVE p - b \in 1 .. m /\ b + (p - b) = p
  <2>1. PICK i \in 1 .. Len(History.txs) : p \in off[i - 1] + 1 .. off[i]
    BY <1>6 DEF LogsAt
  <2>2. L[p].tx = i
    BY <1>6, <2>1 DEF LogsAt
  <2>3. p \in b + 1 .. off[tx]
    BY <1>10, <2>1, <2>2
  <2> HIDE DEF b, m
  <2> QED BY <1>3, <1>8, <2>3
<1>11. Ops(History, tx) = m /\ tx \in 1 .. Len(History.txs) /\ off[tx - 1] = b
  BY <1>7
<1>12. \A k \in 1 .. m : LET frame == History.txs[tx].frames[Executed(History.txs[tx])[k]]
                         IN  L[b + k].kind = frame.op.kind /\ L[b + k].fee = frame.fee
  BY <1>6, <1>11 DEF CallsAt
<1>13. RangeLogs \subseteq ToSet(L) /\ \A p \in DOMAIN L : L[p].tx = tx => L[p] \in ToSet(S)
  <2>1. ASSUME NEW p \in DOMAIN L, L[p].tx = tx PROVE L[p] \in ToSet(S)
    <3>1. InRange(L[p].block)
      BY <1>1, <2>1 DEF LogOrder
    <3>2. L[p] \in ToSet(L)
      BY DEF ToSet
    <3>3. L[p] \in RangeLogs
      BY <3>1, <3>2 DEF RangeLogs
    <3> QED BY <1>2, <3>3 DEF LogsRead
  <2> QED BY <2>1 DEF RangeLogs
<1>14. ToSet(S) = {S[k] : k \in DOMAIN S}
  BY DEF ToSet
<1> HIDE DEF L, S, own, b, m
<1>inS. Q \in SUBSET (1 .. Len(S))
  BY <1>2
<1> HIDE DEF Q
<1>kept. PICK order : KeptInOrder(order, S, Q)
  BY <1>2, <1>inS, KeptIs
<1>15. /\ order \in [1 .. m -> Q]
       /\ Kept(S, Q) = [i \in 1 .. m |-> S[order[i]]]
       /\ \A k \in Q : \E i \in 1 .. m : order[i] = k
       /\ \A i, j \in 1 .. m : i < j <=> order[i] < order[j]
  BY <1>3, <1>kept DEF KeptInOrder
<1> USE DEF Q
<1>16. \A k \in 1 .. m : own[k] = S[order[k]] /\ order[k] \in Q
  BY <1>4, <1>15
<1>17. \A k \in 1 .. m : \E x \in 1 .. m : L[b + x] = own[k]
  <2>1. ASSUME NEW k \in 1 .. m PROVE \E x \in 1 .. m : L[b + x] = own[k]
    <3>1. PICK p \in DOMAIN L : L[p] = own[k]
      BY <1>1, <1>3
    <3>2. L[p].tx = tx
      BY <1>3, <3>1
    <3>3. p - b \in 1 .. m /\ b + (p - b) = p
      BY <1>10, <3>2
    <3>4. L[b + (p - b)] = own[k]
      BY <3>1, <3>3
    <3> QED BY <3>3, <3>4
  <2> QED BY <2>1
<1> DEFINE g == [k \in 1 .. m |-> CHOOSE x \in 1 .. m : L[b + x] = own[k]]
<1>18. g \in [1 .. m -> 1 .. m] /\ \A k \in 1 .. m : L[b + g[k]] = own[k]
  BY <1>17
<1> HIDE DEF g
<1>19. ASSUME NEW x \in 1 .. m, NEW y \in 1 .. m
       PROVE  /\ L[b + x].index \in Nat /\ L[b + y].index \in Nat
              /\ L[b + x].block = L[b + y].block
              /\ x < y => L[b + x].index < L[b + y].index
  <2>1. /\ b + x \in DOMAIN L /\ b + y \in DOMAIN L /\ (x < y => b + x < b + y)
        /\ L[b + x].tx = tx /\ L[b + y].tx = tx
    BY <1>8, <1>9
  <2>2. L[b + x].block = L[b + y].block /\ L[b + x].index \in Nat /\ L[b + y].index \in Nat
    BY <1>1, <2>1 DEF LogOrder
  <2> QED BY <1>1, <2>1, <2>2 DEF LogOrder
<1>20. ASSUME NEW j \in 1 .. m, NEW k \in 1 .. m, j < k PROVE g[j] <= g[k]
  <2>1. g[j] \in 1 .. m /\ g[k] \in 1 .. m /\ L[b + g[j]] = own[j] /\ L[b + g[k]] = own[k]
    BY <1>18
  <2> DEFINE x == g[j]
             y == g[k]
  <2> HIDE DEF x, y
  <2>2. x \in 1 .. m /\ y \in 1 .. m /\ L[b + x] = own[j] /\ L[b + y] = own[k]
    BY <2>1 DEF x, y
  <2>3. order[j] < order[k] /\ order[j] \in DOMAIN S /\ order[k] \in DOMAIN S
    BY <1>15, <1>16, <1>20
  <2>4. \/ own[j].block < own[k].block
        \/ own[j].block = own[k].block /\ own[j].index <= own[k].index
    BY <1>2, <1>16, <2>3
  <2>5. L[b + x].block \in Nat
    <3>1. b + x \in DOMAIN L
      BY <1>9, <2>2
    <3> QED BY <1>1, <3>1 DEF LogOrder
  <2>6. L[b + x].index <= L[b + y].index
    <3>1. L[b + x].block = L[b + y].block
      BY <1>19, <2>2
    <3> QED BY <2>2, <2>4, <2>5, <3>1
  <2>7. ~(y < x)
    <3>1. /\ L[b + x].index \in Nat /\ L[b + y].index \in Nat
          /\ y < x => L[b + y].index < L[b + x].index
      BY <1>19, <2>2
    <3> QED BY <2>6, <3>1
  <2>8. x <= y
    BY <2>2, <2>7
  <2> QED BY <2>8 DEF x, y
<1>21. ASSUME NEW x \in 1 .. m PROVE \E j \in 1 .. m : g[j] = x
  <2>1. L[b + x] \in ToSet(S) /\ L[b + x].tx = tx
    BY <1>9, <1>13
  <2>2. PICK q \in DOMAIN S : S[q] = L[b + x]
    BY <1>14, <2>1
  <2>3. q \in Q
    BY <2>1, <2>2
  <2>4. PICK j \in 1 .. m : order[j] = q
    BY <1>15, <2>3
  <2>5. L[b + g[j]] = L[b + x] /\ g[j] \in 1 .. m
    BY <1>16, <1>18, <2>2, <2>4
  <2> DEFINE y == g[j]
  <2> HIDE DEF y
  <2>6. L[b + y] = L[b + x] /\ y \in 1 .. m
    BY <2>5 DEF y
  <2>7. ~(x < y) /\ ~(y < x)
    <3>1. /\ L[b + x].index \in Nat
          /\ x < y => L[b + x].index < L[b + y].index
          /\ y < x => L[b + y].index < L[b + x].index
      BY <1>19, <2>6
    <3> QED BY <2>6, <3>1
  <2>8. y = x
    BY <2>6, <2>7
  <2> QED BY <2>8 DEF y
<1>22. \A k \in 1 .. m : g[k] = k
  BY <1>3, <1>18, <1>20, <1>21, RisingOnto
<1>23. \A k \in 1 .. m : own[k] = L[b + k]
  BY <1>18, <1>22
<1> QED BY <1>12, <1>23 DEF CallsLogged, m, own

-----------------------------------------------------------------------------
(* The operations decoded are those executed                                *)

\* Where an entry that is kept comes.
LEMMA KeptAt ==
  ASSUME NEW T, NEW s \in Seq(T), NEW places \in SUBSET (1 .. Len(s)), NEW k \in places,
         NEW n, n = Cardinality({m \in 1 .. k : m \in places})
  PROVE  n \in DOMAIN Kept(s, places) /\ Kept(s, places)[n] = s[k]
<1>kept. PICK order : KeptInOrder(order, s, places)
  BY KeptIs
<1>1. /\ Cardinality(places) \in Nat /\ IsFiniteSet(places)
      /\ order \in [1 .. Cardinality(places) -> places]
      /\ Kept(s, places) = [i \in 1 .. Cardinality(places) |-> s[order[i]]]
      /\ \A m \in places : \E i \in 1 .. Cardinality(places) : order[i] = m
      /\ \A i, j \in 1 .. Cardinality(places) : i < j <=> order[i] < order[j]
  BY <1>kept DEF KeptInOrder
<1> DEFINE A == {m \in 1 .. k : m \in places}
<1>2. PICK i \in 1 .. Cardinality(places) : order[i] = k
  BY <1>1
<1> DEFINE f == [j \in 1 .. i |-> order[j]]
<1>3. i \in Nat /\ \A j \in 1 .. i : j \in 1 .. Cardinality(places)
  BY <1>1
<1>4. \A j \in 1 .. Cardinality(places) : order[j] \in places /\ order[j] \in Int
  <2>1. \A m \in places : m \in Int
    OBVIOUS
  <2> QED BY <1>1, <2>1
<1>5. \A j \in 1 .. i : f[j] \in A
  <2>1. ASSUME NEW j \in 1 .. i PROVE f[j] \in A
    <3>1. f[j] = order[j] /\ j \in 1 .. Cardinality(places) /\ order[j] \in places /\ order[j] \in Int
      BY <1>3, <1>4
    <3>2. ~(order[i] < order[j])
      <4>1. ~(i < j)
        BY <1>3
      <4> QED BY <1>1, <3>1, <4>1
    <3>3. order[j] <= k /\ 1 <= order[j]
      BY <1>2, <3>1, <3>2
    <3> QED BY <3>1, <3>3
  <2> QED BY <2>1
<1>6. \A m \in A : \E j \in 1 .. i : f[j] = m
  <2>1. ASSUME NEW m \in A PROVE \E j \in 1 .. i : f[j] = m
    <3>1. PICK j \in 1 .. Cardinality(places) : order[j] = m
      BY <1>1
    <3>2. m <= k /\ m \in Int /\ k \in Int
      OBVIOUS
    <3>3. ~(order[i] < order[j])
      BY <1>2, <3>1, <3>2
    <3>4. ~(i < j)
      BY <1>1, <3>3
    <3>5. j \in 1 .. i
      BY <1>3, <3>4
    <3> QED BY <3>1, <3>5
  <2> QED BY <2>1
<1>7. \A j, l \in 1 .. i : f[j] = f[l] => j = l
  <2>1. ASSUME NEW j \in 1 .. i, NEW l \in 1 .. i, f[j] = f[l] PROVE j = l
    <3>1. order[j] = order[l] /\ order[j] \in Int /\ j \in 1 .. Cardinality(places) /\ l \in 1 .. Cardinality(places)
      BY <1>3, <1>4, <2>1
    <3>2. ~(j < l) /\ ~(l < j)
      <4>1. ~(order[j] < order[l]) /\ ~(order[l] < order[j])
        BY <3>1
      <4> QED BY <1>1, <3>1, <4>1
    <3> QED BY <3>2
  <2> QED BY <2>1
<1>8. f \in [1 .. i -> A]
  BY <1>5
<1> HIDE DEF f, A
<1>9. f \in Surjection(1 .. i, A) /\ f \in Injection(1 .. i, A)
  BY <1>6, <1>7, <1>8 DEF Surjection, Injection, IsInjective
<1>10. IsFiniteSet(1 .. i) /\ Cardinality(1 .. i) = i
  <2>1. 1 \in Int /\ i \in Int /\ ~(1 > i)
    BY <1>3
  <2>2. Cardinality(1 .. i) = (i - 1) + 1
    BY <2>1, FS_Interval
  <2> QED BY <1>3, <2>1, <2>2, FS_Interval
<1>11. Cardinality(A) = Cardinality(1 .. i)
  BY <1>9, <1>10, FS_Surjection
<1>12. n = i
  BY <1>10, <1>11 DEF A
<1> QED BY <1>1, <1>2, <1>12

\* What the replay has of a transaction is what the chain executed.
TxDecoded(tx, ops) ==
  /\ ops \in Seq(ToSet(ops))
  /\ DOMAIN ops = 1 .. Ops(History, tx) /\ Len(ops) = Ops(History, tx)
  /\ \A k \in 1 .. Ops(History, tx) :
       SameCall(History, tx, ops[k], Executed(History.txs[tx])[k])

\* Decoded operations that are accepted are those, when the logs are there.
LEMMA DecodedIs ==
  ASSUME NoBeforeHooks, InputKnown, LogsSound, LogsRead, NEW tx \in Seen,
         tx \in DOMAIN History.txs, InRange(History.txs[tx].block),
         NEW ops \in DecodedOperations(tx)
  PROVE  TxDecoded(tx, ops)
<1> DEFINE frames == History.txs[tx].frames
           order == DecodedFrames(tx)
           n == Ops(History, tx)
           own == LogsOf(tx)
           fees == SwapFees(tx)
           op(k) == frames[order[k]].op
           nth(k) == Cardinality({m \in 1 .. k : op(m).kind = "swap"})
           fee(k) == {fees[i] : i \in {m \in DOMAIN fees :
                        History.dynamic /\ op(k).kind = "swap" /\ m = nth(k)}}
           places == {k \in DOMAIN own : own[k].kind = "swap"}
           kept == Kept(own, places)
<1>1. ops = [k \in DOMAIN order |-> [op |-> op(k), fee |-> fee(k)]]
  BY DEF DecodedOperations
<1>2. /\ Persisted(frames) \cap traces[tx] = Persisted(frames)
      /\ Len(own) = n
  BY DecodedAll
<1>3. History \in Histories
  BY DEF InputKnown
<1>4. order = Executed(History.txs[tx]) /\ order \in [1 .. n -> Persisted(frames)] /\ n \in Nat
  <2>1. order = InOrder(Persisted(frames), <)
    BY <1>2 DEF DecodedFrames
  <2>2. /\ Executed(History.txs[tx]) \in [1 .. n -> Persisted(frames)]
        /\ Executed(History.txs[tx]) = InOrder(Persisted(frames), <)
    BY <1>3, ExecutedIs DEF Ops
  <2>3. n \in Nat
    BY <1>3, PersistedFinite DEF Ops
  <2> QED BY <2>1, <2>2, <2>3
<1>5. CallsLogged(tx)
  BY <1>2, TxLogs
<1>6. \A k \in 1 .. n : own[k].kind = op(k).kind /\ own[k].fee = frames[order[k]].fee
  BY <1>4, <1>5 DEF CallsLogged
<1>7. own \in Seq(RangeLogs) /\ DOMAIN own = 1 .. n
  <2> DEFINE S == SortedLogs
             Q == {k \in DOMAIN S : S[k].tx = tx}
  <2>1. own = Kept(S, Q)
    BY DEF LogsOf
  <2>2. S \in Seq(RangeLogs) /\ DOMAIN S = 1 .. Len(S)
    BY SortedIs
  <2> HIDE DEF S
  <2>3. Q \in SUBSET (1 .. Len(S)) /\ \A k \in Q : S[k] \in RangeLogs
    BY <2>2
  <2> HIDE DEF Q
  <2>kept. PICK at : KeptInOrder(at, S, Q)
    BY <2>2, <2>3, KeptIs
  <2>4. /\ Cardinality(Q) \in Nat /\ at \in [1 .. Cardinality(Q) -> Q]
        /\ Kept(S, Q) = [i \in 1 .. Cardinality(Q) |-> S[at[i]]]
    BY <2>kept DEF KeptInOrder
  <2> HIDE DEF own
  <2> DEFINE z == Cardinality(Q)
  <2> HIDE DEF z
  <2>5. z \in Nat /\ own = [i \in 1 .. z |-> S[at[i]]] /\ at \in [1 .. z -> Q]
    BY <2>1, <2>4 DEF z
  <2>6. own \in [1 .. z -> RangeLogs]
    BY <2>3, <2>5
  <2>7. Len(own) = z /\ own \in Seq(RangeLogs)
    BY <2>5, <2>6
  <2> QED BY <1>2, <2>6, <2>7
<1>8. fees = [i \in DOMAIN kept |-> kept[i].fee]
  BY DEF SwapFees
<1> HIDE DEF frames, order, n, own, fees, kept
<1>9. ASSUME NEW k \in 1 .. n, op(k).kind = "swap"
      PROVE  fee(k) = IF History.dynamic THEN {frames[order[k]].fee} ELSE {}
  <2>1. k \in places /\ places \in SUBSET (1 .. Len(own))
    BY <1>2, <1>6, <1>7, <1>9
  <2> DEFINE A == {m \in 1 .. k : op(m).kind = "swap"}
             B == {m \in 1 .. k : m \in places}
  <2>2. A = B
    <3>1. \A m \in 1 .. k : m \in 1 .. n
      BY <1>4
    <3> QED BY <1>6, <1>7, <3>1
  <2>3. nth(k) = Cardinality(B)
    BY <2>2
  <2>4. \A i : i = Cardinality(B) => i \in DOMAIN kept /\ kept[i] = own[k]
    <3>1. ASSUME NEW i, i = Cardinality(B) PROVE i \in DOMAIN kept /\ kept[i] = own[k]
      <4> HIDE DEF places
      <4> QED BY <1>7, <2>1, <3>1, KeptAt DEF kept
    <3> QED BY <3>1
  <2> HIDE DEF A, B, places
  <2> DEFINE i == nth(k)
  <2>5. i \in DOMAIN kept /\ kept[i] = own[k]
    BY <2>3, <2>4
  <2> HIDE DEF i
  <2>6. i \in DOMAIN fees /\ fees[i] = own[k].fee /\ own[k].fee = frames[order[k]].fee
    BY <1>6, <1>8, <2>5
  <2>7. fee(k) = {fees[j] : j \in {m \in DOMAIN fees : History.dynamic /\ op(k).kind = "swap" /\ m = i}}
    BY DEF i
  <2>8. History.dynamic => {m \in DOMAIN fees : History.dynamic /\ op(k).kind = "swap" /\ m = i} = {i}
    BY <1>9, <2>6
  <2>9. ~History.dynamic => {m \in DOMAIN fees : History.dynamic /\ op(k).kind = "swap" /\ m = i} = {}
    OBVIOUS
  <2> HIDE DEF op, nth
  <2> QED BY <2>6, <2>7, <2>8, <2>9
<1>10. \A k \in 1 .. n : ops[k].op = op(k) /\ ops[k].fee = fee(k)
  <2> HIDE DEF op, fee
  <2> QED BY <1>1, <1>4
<1>11. DOMAIN ops = 1 .. n /\ Len(ops) = n /\ ops \in Seq(ToSet(ops))
  <2>1. DOMAIN ops = 1 .. n /\ ops = [k \in 1 .. n |-> ops[k]]
    <3> HIDE DEF op, fee
    <3> QED BY <1>1, <1>4
  <2>2. \A k \in 1 .. n : ops[k] \in ToSet(ops)
    BY <2>1 DEF ToSet
  <2>3. ops \in [1 .. n -> ToSet(ops)]
    BY <2>1, <2>2
  <2> QED BY <1>4, <2>1, <2>3, ListOf
<1>12. ASSUME NEW k \in 1 .. n PROVE SameCall(History, tx, ops[k], Executed(History.txs[tx])[k])
  <2> DEFINE frame == frames[order[k]]
  <2>1. frame = History.txs[tx].frames[Executed(History.txs[tx])[k]]
    BY <1>4 DEF frames
  <2>2. ops[k].op = frame.op /\ op(k) = frame.op
    BY <1>10
  <2>3. frame.op.kind = "swap" => ops[k].fee = IF History.dynamic THEN {frame.fee} ELSE {}
    <3> SUFFICES ASSUME frame.op.kind = "swap"
                 PROVE  ops[k].fee = IF History.dynamic THEN {frame.fee} ELSE {}
      OBVIOUS
    <3>1. op(k).kind = "swap"
      BY <2>2
    <3>2. fee(k) = IF History.dynamic THEN {frame.fee} ELSE {}
      BY <1>9, <3>1
    <3> QED BY <1>10, <3>2
  <2> HIDE DEF frame
  <2> QED BY <2>1, <2>2, <2>3 DEF SameCall
<1> QED BY <1>11, <1>12 DEF TxDecoded, n

-----------------------------------------------------------------------------
(* The replay follows the chain                                                *)

\* A pool of the chain is stored, and its fee is the first pool's.
LEMMA ChainSteady ==
  ASSUME NEW h \in Histories, NEW n \in 0 .. Len(h.txs)
  PROVE  Storable(ChainPools[h][n]) /\ Steady(ChainPools[h][n], h.pool.fee)
<1> DEFINE pool == ChainPools[h][n]
<1>1. Storable(pool) /\ pool.fee = h.pool.fee
  BY ChainAssumption
<1> HIDE DEF pool
<1>2. /\ DOMAIN pool = {"price", "tick", "growth", "liquidity", "fee", "protocolFee", "ticks"}
      /\ pool.tick \in Signed(FieldBits)
      /\ DOMAIN pool.ticks \subseteq Aligned
      /\ pool.ticks \in [DOMAIN pool.ticks -> TickEntries]
  BY <1>1 DEF Storable
<1>3. pool.tick \in Int
  <2>1. FieldBits - 1 \in Nat
    BY StorageAssumption
  <2>2. 2^(FieldBits - 1) \in Nat
    BY <2>1, PowType
  <2> QED BY <1>2, <2>2 DEF Signed
<1>4. DOMAIN pool.ticks \in SUBSET Int /\ IsFiniteSet(DOMAIN pool.ticks)
  <2>1. IsFiniteSet(MinTick .. MaxTick)
    BY StorageAssumption, FS_Interval
  <2>2. DOMAIN pool.ticks \in SUBSET (MinTick .. MaxTick)
    BY <1>2 DEF Aligned, TickIndices
  <2> QED BY <2>1, <2>2, FS_Subset, StorageAssumption
<1>5. ASSUME NEW t \in DOMAIN pool.ticks
      PROVE  DOMAIN pool.ticks[t] = {"gross", "net", "outside"} /\ pool.ticks[t].gross # 0
  <2> DEFINE e == pool.ticks[t]
  <2>1. e \in TickEntries
    BY <1>2
  <2> HIDE DEF e
  <2>2. DOMAIN e = {"gross", "net", "outside"} /\ e.gross \in 1 .. 2^InfoBits - 1
    BY <2>1 DEF TickEntries
  <2>3. 2^InfoBits - 1 \in Int
    <3>1. 2^InfoBits \in Nat
      BY StorageAssumption, PowType
    <3> QED BY <3>1
  <2>4. e.gross # 0
    BY <2>2, <2>3
  <2> QED BY <2>2, <2>4 DEF e
<1>6. Steady(pool, h.pool.fee)
  BY <1>1, <1>2, <1>3, <1>4, <1>5 DEF Steady
<1> QED BY <1>1, <1>6 DEF pool

\* The transactions of a run, by their place: the chain's pool after the k-th, its
\* block, the pool before that block and the one after it.
RunStart(run)   == LastTxOf(run.history, run.options.start)
PoolNo(run, k)  == ChainPools[run.history][RunStart(run) + k]
BlockNo(run, k) == run.history.txs[RunStart(run) + k].block
PoolBefore(run, k) == ChainPools[run.history][LastTxOf(run.history, BlockNo(run, k) - 1)]
PoolAfter(run, k)  == ChainPools[run.history][LastTxOf(run.history, BlockNo(run, k))]

\* Whatever the block has changed until its k-th transaction is among them.
Covers(run, k, touched) == TouchedSet(touched) /\ DifferAt(PoolBefore(run, k), PoolNo(run, k), touched)

\* Before a transaction that begins a block come those of the blocks before.
LEMMA BlockBegins ==
  ASSUME NEW h \in Histories, NEW tx \in 1 .. Len(h.txs), h.txs[tx].block # 0,
         tx = 1 \/ h.txs[tx - 1].block # h.txs[tx].block
  PROVE  LastTxOf(h, h.txs[tx].block - 1) = tx - 1
<1> DEFINE b == h.txs[tx].block
           last == LastTxOf(h, b - 1)
<1>1. /\ DOMAIN h.txs = 1 .. Len(h.txs) /\ Len(h.txs) \in Nat
      /\ \A i \in DOMAIN h.txs : h.txs[i].block \in Nat
      /\ \A i, j \in DOMAIN h.txs : i <= j => h.txs[i].block <= h.txs[j].block
  BY HistoryKnown
<1>2. b \in Nat /\ b - 1 \in Nat /\ ~(b <= b - 1)
  BY <1>1
<1>3. last \in 0 .. Len(h.txs) /\ \A i \in 1 .. Len(h.txs) : h.txs[i].block <= b - 1 <=> i <= last
  <2> HIDE DEF b
  <2> QED BY <1>2, LastTxIs
<1> HIDE DEF last
<1>4. ~(tx <= last)
  BY <1>2, <1>3
<1>5. tx # 1 => tx - 1 <= last
  <2> SUFFICES ASSUME tx # 1 PROVE tx - 1 <= last
    OBVIOUS
  <2>1. tx - 1 \in 1 .. Len(h.txs) /\ tx - 1 <= tx
    BY <1>1
  <2>2. h.txs[tx - 1].block <= b /\ h.txs[tx - 1].block # b /\ h.txs[tx - 1].block \in Nat
    BY <1>1, <2>1
  <2> DEFINE c == h.txs[tx - 1].block
  <2> HIDE DEF b, c
  <2>3. c <= b - 1
    <3>1. c <= b /\ c # b /\ c \in Nat
      BY <2>2 DEF c, b
    <3> QED BY <1>2, <3>1
  <2> QED BY <1>3, <2>1, <2>3 DEF c
<1>6. last = tx - 1
  BY <1>1, <1>3, <1>4, <1>5
<1> QED BY <1>6 DEF last, b

-----------------------------------------------------------------------------
(* A transaction replayed                                                   *)

\* The operations of a run's k-th transaction lead from one pool of the chain to the
\* next.
TxFollowed(run, k, ops) ==
  ops \in Seq(ToSet(ops)) /\ Takes(ops, PoolNo(run, k - 1), PoolNo(run, k))

\* A transaction whose replay starts at the chain's pool ends at the chain's pool,
\* and the ticks touched cover its block's changes again.
LEMMA TxFollows ==
  ASSUME NoBeforeHooks, InputKnown, NEW n \in Nat, TxBefore \in Nat,
         TxBefore + (n + 1) \in DOMAIN History.txs,
         InRange(History.txs[TxBefore + (n + 1)].block),
         NEW ops, TxDecoded(TxBefore + (n + 1), ops),
         NEW block, block = IF n = 0 THEN 0 ELSE BlockNo(input, n),
         NEW touched, n # 0 => Covers(input, n, touched),
         NEW after \in ReplayOps(PoolNo(input, n),
                                 IF block = BlockNo(input, n + 1) THEN touched ELSE {}, ops)
  PROVE  /\ after.pool = PoolNo(input, n + 1)
         /\ TxFollowed(input, n + 1, ops)
         /\ Covers(input, n + 1, after.touched)
<1> DEFINE h    == History
           tx   == TxBefore + (n + 1)
           from == PoolNo(input, n)
           to   == PoolNo(input, n + 1)
           now  == BlockNo(input, n + 1)
           before == IF block = now THEN touched ELSE {}
<1>1. h \in Histories /\ Args \in Options /\ Args.start \in Nat
  BY ReplayAssumption DEF InputKnown
<1>2. /\ Len(h.txs) \in Nat /\ DOMAIN h.txs = 1 .. Len(h.txs)
      /\ \A i \in DOMAIN h.txs : h.txs[i].block \in Nat
      /\ \A i, j \in DOMAIN h.txs : i <= j => h.txs[i].block <= h.txs[j].block
  BY <1>1, HistoryKnown
<1>3. RunStart(input) = TxBefore
  BY DEF RunStart, TxBefore, History, Args
<1>4. /\ tx \in 1 .. Len(h.txs) /\ tx - 1 = TxBefore + n /\ tx - 1 \in 0 .. Len(h.txs)
  BY <1>2
<1>5. from = ChainPools[h][tx - 1] /\ to = ChainPools[h][tx] /\ now = h.txs[tx].block
  BY <1>3, <1>4 DEF PoolNo, BlockNo, History
<1>6. Steady(from, h.pool.fee)
  <2> HIDE DEF h, from, tx
  <2> QED BY <1>1, <1>4, <1>5, ChainSteady
<1>7. to = AfterTx(from, h.txs[tx])
  <2> HIDE DEF h, from, to, tx
  <2> QED BY <1>1, <1>4, <1>5, ChainPoolsAre
<1>8. now \in Nat /\ now # 0 /\ Args.start < now
  <2>1. Args.start < now
    BY <1>5 DEF InRange
  <2>2. now \in Nat
    BY <1>2, <1>4, <1>5
  <2> HIDE DEF now
  <2> QED BY <1>1, <2>1, <2>2
<1>9. block = now => n # 0
  BY <1>8
<1>10. TouchedSet(before)
  <2>1. CASE block = now
    BY <1>9, <2>1 DEF Covers
  <2>2. CASE block # now
    BY <2>2, FS_EmptySet DEF TouchedSet
  <2> QED BY <2>1, <2>2
<1>11. /\ ops \in Seq(ToSet(ops)) /\ DOMAIN ops = 1 .. Ops(h, tx) /\ Len(ops) = Ops(h, tx)
       /\ \A k \in 1 .. Ops(h, tx) : SameCall(h, tx, ops[k], Executed(h.txs[tx])[k])
  BY DEF TxDecoded
<1>12. /\ after.pool = AfterTx(from, h.txs[tx]) /\ Takes(ops, from, after.pool)
       /\ before \subseteq after.touched /\ TouchedSet(after.touched)
       /\ DifferAt(from, after.pool, after.touched)
  <2>1. after \in ReplayOps(from, before, ops) /\ tx \in DOMAIN h.txs
    OBVIOUS
  <2> HIDE DEF h, from, before, tx
  <2> QED BY <1>1, <1>6, <1>10, <1>11, <2>1, TxReplayed
<1>13. after.pool = to
  BY <1>7, <1>12
<1>14. TxFollowed(input, n + 1, ops)
  <2>1. (n + 1) - 1 = n
    OBVIOUS
  <2>2. Takes(ops, from, to)
    BY <1>12, <1>13
  <2> QED BY <1>11, <2>1, <2>2 DEF TxFollowed
<1>15. DifferAt(PoolBefore(input, n + 1), to, after.touched)
  <2>1. DifferAt(from, to, after.touched)
    BY <1>12, <1>13
  <2>2. CASE block = now
    <3>1. n # 0 /\ BlockNo(input, n) = now
      BY <1>9, <2>2
    <3>2. PoolBefore(input, n) = PoolBefore(input, n + 1)
      BY <3>1 DEF PoolBefore
    <3>3. DifferAt(PoolBefore(input, n), from, touched) /\ touched \subseteq after.touched
      BY <1>12, <2>2, <3>1 DEF Covers
    <3> HIDE DEF from, to
    <3> QED BY <2>1, <3>2, <3>3 DEF DifferAt
  <2>3. CASE block # now
    <3>1. tx = 1 \/ h.txs[tx - 1].block # h.txs[tx].block
      <4>1. CASE n # 0
        <5>1. BlockNo(input, n) = h.txs[tx - 1].block
          BY <1>3, <1>4 DEF BlockNo, History
        <5> QED BY <1>5, <2>3, <4>1, <5>1
      <4>2. CASE n = 0 /\ TxBefore # 0
        <5>1. tx - 1 = TxBefore /\ tx - 1 \in 1 .. Len(h.txs)
          BY <1>4, <4>2
        <5>2. TxBefore = LastTxOf(h, Args.start)
          BY DEF TxBefore
        <5> DEFINE i == tx - 1
                   b == h.txs[i].block
        <5>3. b <= Args.start
          <6>1. i \in 1 .. Len(h.txs) /\ i <= LastTxOf(h, Args.start)
            BY <5>1, <5>2
          <6> HIDE DEF h, i
          <6> QED BY <1>1, <6>1, LastTxIs
        <5>4. b \in Nat
          BY <1>2, <5>1
        <5> HIDE DEF b, now
        <5>5. b # now
          BY <1>1, <1>8, <5>3, <5>4
        <5> QED BY <1>5, <5>5 DEF b
      <4>3. CASE n = 0 /\ TxBefore = 0
        BY <4>3
      <4> QED BY <4>1, <4>2, <4>3
    <3>2. LastTxOf(h, h.txs[tx].block - 1) = tx - 1
      <4>1. h.txs[tx].block # 0
        BY <1>5, <1>8
      <4> HIDE DEF h, tx
      <4> QED BY <1>1, <1>4, <3>1, <4>1, BlockBegins
    <3>3. PoolBefore(input, n + 1) = ChainPools[h][LastTxOf(h, now - 1)]
      BY DEF PoolBefore, History
    <3>4. PoolBefore(input, n + 1) = from
      BY <1>5, <3>2, <3>3
    <3> QED BY <2>1, <3>4
  <2> QED BY <2>2, <2>3
<1> QED BY <1>12, <1>13, <1>14, <1>15 DEF Covers

-----------------------------------------------------------------------------
(* The replay and the queue follow the chain                                *)

\* What the queue holds of a checkpoint: the block and ticks that cover its changes,
\* and what the chain has of them at its end.
Sent(run, w) == w.block = BlockNo(run, w.index) /\ Covers(run, w.index, w.touched)

Fetching(run, t) ==
  /\ DOMAIN t = {"task", "result", "failed"} /\ Sent(run, t.task)
  /\ t.result \subseteq {PoolCheckpoint(PoolAfter(run, t.task.index), t.task.touched)}

Checkpointed(run, k, c) ==
  \E touched : Covers(run, k, touched) /\ c = PoolCheckpoint(PoolAfter(run, k), touched)

\* The replay has come to the chain's pool.
ReplayFollows(run, r) ==
  /\ r.pools = {PoolNo(run, r.next - 1)}
  /\ r.block = IF r.next - 1 = 0 THEN 0 ELSE BlockNo(run, r.next - 1)
  /\ r.next - 1 # 0 => Covers(run, r.next - 1, r.touched)
  /\ \A k \in 1 .. r.next - 1 : TxFollowed(run, k, r.txs[k].ops)
  /\ \A w \in r.waiting : Sent(run, w)

QueueFollows(run, q) ==
  /\ \A t \in q.tasks : Fetching(run, t)
  /\ \A k \in DOMAIN q.results : Checkpointed(run, k, q.results[k])

FileFollows(run, f) ==
  /\ f.initial = PoolSnapshot(PoolNo(run, 0))
  /\ \A k \in DOMAIN f.txs :
       /\ TxFollowed(run, k, f.txs[k].ops)
       /\ \A c \in f.txs[k].checkpoint : Checkpointed(run, k, c)

\* As long as no log is missing.
FollowInv ==
  /\ phase \in {"start", "logs", "traces"} => replay.block = 0
  /\ phase \in {"logs", "traces", "replay", "written"} => replay.initial # {}
  /\ LogsComplete /\ phase \in {"replay", "written"} =>
       ReplayFollows(input, replay) /\ QueueFollows(input, queue)
  /\ LogsComplete => \A f \in file : FileFollows(input, f)

\* At first nothing is followed.
LEMMA InitFollow == ASSUME Init PROVE FollowInv
<1>1. phase = "start" /\ replay.block = 0 /\ file = {}
  BY DEF Init
<1> QED BY <1>1 DEF FollowInv

\* Whatever is quiet keeps it.
LEMMA QuietFollow ==
  ASSUME FollowInv, input' = input, file' = file, replay' = replay,
         LogsComplete' => LogsComplete,
         phase' \in {"start", "logs", "traces"} => phase \in {"start", "logs", "traces"},
         phase' \in {"logs", "traces", "replay", "written"} =>
           phase \in {"logs", "traces", "replay", "written"},
         phase' \in {"replay", "written"} => phase \in {"replay", "written"} /\ queue' = queue
  PROVE  FollowInv'
BY DEF FollowInv

\* An error ends it all.
LEMMA DroppedFollow ==
  ASSUME FollowInv, Drops, LogsComplete' => LogsComplete PROVE FollowInv'
<1>1. phase' = "failed" /\ input' = input /\ file' = file /\ replay' = replay
  BY DEF Drops
<1> QED BY <1>1, QuietFollow

\* So does an error of the generator's own.
LEMMA AbortFollow == ASSUME FollowInv, Abort PROVE FollowInv'
<1>1. Drops /\ faults' = faults
  BY DEF Abort
<1> QED BY <1>1, DroppedFollow DEF LogsComplete

\* The initial pool is loaded.
LEMMA LoadFollow == ASSUME FollowInv, SnapshotInv, LoadInitialPool, file = {} PROVE FollowInv'
<1>1. CASE ~Loadable
  BY <1>1, LoadSplit, AbortFollow
<1>2. CASE Loadable
  <2> DEFINE S == {PoolSnapshot(PoolAtBlock(Args.start))}
  <2>1. phase = "start" /\ phase' = "logs" /\ replay' = [replay EXCEPT !.initial = S] /\ file' = file
    BY <1>2, LoadSplit
  <2>2. S # {}
    OBVIOUS
  <2> HIDE DEF S
  <2>3. replay'.initial = S /\ replay'.block = replay.block
    BY <2>1 DEF SnapshotInv
  <2> QED BY <2>1, <2>2, <2>3 DEF FollowInv
<1> QED BY <1>1, <1>2

\* The first pool of the run.
LEMMA FirstPool ==
  ASSUME input \in [history : Histories, options : Options]
  PROVE  /\ PoolNo(input, 0) = PoolAtBlock(Args.start)
         /\ PoolOf(PoolSnapshot(PoolNo(input, 0))) = PoolNo(input, 0)
<1> DEFINE h == History
           n == LastTxOf(h, Args.start)
           pool == ChainPools[h][n]
<1>1. h \in Histories /\ Args \in Options
  BY DEF History, Args
<1>2. Args.start \in Nat
  BY <1>1, ReplayAssumption
<1>3. n \in 0 .. Len(h.txs) /\ n + 0 = n
  <2>1. n \in 0 .. Len(h.txs) /\ Len(h.txs) \in Nat
    <3> HIDE DEF h
    <3> QED BY <1>1, <1>2, LastTxIs
  <2> QED BY <2>1
<1>4. PoolAtBlock(Args.start) = pool
  BY DEF PoolAtBlock
<1>5. PoolNo(input, 0) = pool
  BY <1>3 DEF PoolNo, RunStart, History, Args
<1>6. Storable(pool)
  <2> HIDE DEF h, n
  <2> QED BY <1>1, <1>3, ChainAssumption
<1> HIDE DEF pool
<1> QED BY <1>4, <1>5, <1>6, SnapshotIsPool

\* The replay starts there.
LEMMA StartFollow ==
  ASSUME FollowInv, SnapshotInv, QueueInv, FileInv, ReplayBegins PROVE FollowInv'
<1> DEFINE P == {PoolOf(s) : s \in replay.initial}
<1>1. /\ phase = "traces" /\ phase' = "replay" /\ queue' = NewQueue /\ replay' = [replay EXCEPT !.pools = P]
      /\ UNCHANGED <<input, file, faults>>
  BY DEF ReplayBegins
<1>2. replay.next = 1 /\ replay.waiting = {} /\ replay.block = 0 /\ replay.initial # {} /\ file = {}
  BY <1>1 DEF QueueInv, FollowInv, FileInv
<1>3. P = {PoolNo(input, 0)}
  <2>1. /\ replay.initial \subseteq {PoolSnapshot(PoolAtBlock(Args.start))}
        /\ input \in [history : Histories, options : Options]
    BY DEF SnapshotInv
  <2>2. replay.initial = {PoolSnapshot(PoolNo(input, 0))}
    BY <1>2, <2>1, FirstPool
  <2> QED BY <2>1, <2>2, FirstPool
<1> HIDE DEF P
<1>4. /\ replay'.pools = P /\ replay'.next = 1 /\ replay'.waiting = {} /\ replay'.block = 0
      /\ replay'.initial # {}
  BY <1>1, <1>2 DEF SnapshotInv
<1>5. ReplayFollows(input', replay')
  <2>1. replay'.next - 1 = 0 /\ 1 .. 0 = {}
    BY <1>4
  <2> QED BY <1>1, <1>3, <1>4, <2>1 DEF ReplayFollows
<1>6. QueueFollows(input', queue')
  <2> DEFINE l == BoundedConcurrency(Args.checkpointConcurrency, Cardinality(SelectedCheckpoints))
  <2>1. NewQueue = [limit |-> l, tasks |-> {}, results |-> <<>>]
    BY DEF NewQueue
  <2> HIDE DEF l
  <2>2. queue'.tasks = {} /\ DOMAIN queue'.results = {}
    BY <1>1, <2>1
  <2> QED BY <2>2 DEF QueueFollows
<1>7. file' = {}
  BY <1>1, <1>2
<1> QED BY <1>1, <1>4, <1>5, <1>6, <1>7 DEF FollowInv

\* Which transaction comes next, and its block.
LEMMA NextTx ==
  ASSUME NoBeforeHooks, LogsInv, phase = "replay", LogsComplete,
         NEW k \in 1 .. Len(scan.order)
  PROVE  /\ scan.order[k] = TxBefore + k /\ TxBefore \in Nat
         /\ scan.order[k] \in Seen /\ scan.order[k] \in DOMAIN History.txs
         /\ InRange(History.txs[scan.order[k]].block)
         /\ LogsOf(scan.order[k])[1].block = BlockNo(input, k)
<1>1. LogsRead /\ InputKnown /\ LogsSound /\ Args.start < Args.end
  BY DEF LogsInv, LogsComplete
<1>2. /\ Len(scan.order) \in Nat /\ Len(scan.order) <= Len(TxOrder)
      /\ scan.order[k] = TxOrder[k] /\ scan.order[k] \in Seen
  BY OrderSeen
<1>3. Len(TxOrder) \in Nat
  BY <1>1, TxOrderIs
<1>4. k \in 1 .. Len(TxOrder)
  BY <1>2, <1>3
<1>5. TxOrder[k] = TxBefore + k
  BY <1>1, <1>4, TxOrderIsChainOrder
<1> DEFINE tx == scan.order[k]
<1> HIDE DEF tx
<1>6. tx = TxBefore + k /\ tx \in Seen
  BY <1>2, <1>5 DEF tx
<1>7. TxBefore \in Nat /\ tx \in DOMAIN History.txs /\ InRange(History.txs[tx].block)
  BY <1>1, <1>6, SeenIs
<1>8. LogsOf(tx)[1].block = History.txs[tx].block
  BY <1>1, <1>6, BlockIs
<1>9. History.txs[tx].block = BlockNo(input, k)
  BY <1>6 DEF BlockNo, RunStart, TxBefore, History, Args
<1> QED BY <1>6, <1>7, <1>8, <1>9 DEF tx

\* A transaction is replayed.
LEMMA ReplayedFollow ==
  ASSUME NoBeforeHooks, QueueInv, LogsInv, FileInv, FollowInv, ReplayTransaction
  PROVE  FollowInv'
<1>1. CASE Abort
  BY <1>1, AbortFollow
<1>2. CASE ~Abort
  <2>1. /\ phase = "replay" /\ replay.next <= Len(scan.order)
        /\ UNCHANGED <<input, phase, fetch, logs, scan, traces, queue, file, faults>>
        /\ \E ops, after : Replays(ops, after)
    BY <1>2, ReplayStepIs DEF QueueInv
  <2>2. PICK ops, after : Replays(ops, after)
    BY <2>1
  <2>3. replay'.initial = replay.initial /\ file = {}
    BY <2>1, <2>2 DEF Replays, FileInv
  <2>4. ASSUME LogsComplete PROVE ReplayFollows(input, replay')
    <3> DEFINE n == replay.next - 1
               tx == scan.order[replay.next]
               block == LogsOf(tx)[1].block
               step == [tx |-> tx, ops |-> ops, checkpoint |-> {}]
    <3>1. n \in Nat /\ replay.next = n + 1 /\ n + 1 \in 1 .. Len(scan.order)
      <4>1. replay.next \in Nat \ {0}
        BY <2>1 DEF QueueInv, Queued
      <4>2. Len(scan.order) \in Nat
        BY <2>1, OrderSeen
      <4> QED BY <2>1, <4>1, <4>2
    <3>2. /\ ops \in DecodedOperations(tx)
          /\ after \in ReplayOps(CHOOSE p \in replay.pools : TRUE, TouchedBefore(block), ops)
          /\ replay'.next = replay.next + 1
          /\ replay'.pools = {after.pool} /\ replay'.block = block /\ replay'.touched = after.touched
          /\ replay'.waiting = IF tx \in scan.checkpoints
                               THEN {[index |-> replay.next, block |-> block, touched |-> after.touched]}
                               ELSE {}
          /\ replay'.txs = Append(replay.txs, step)
      BY <2>2 DEF Replays
    <3>3. step.ops = ops
      OBVIOUS
    <3>4. ReplayFollows(input, replay)
      BY <2>1, <2>4 DEF FollowInv
    <3>5. /\ replay.pools = {PoolNo(input, n)}
          /\ replay.block = IF n = 0 THEN 0 ELSE BlockNo(input, n)
          /\ n # 0 => Covers(input, n, replay.touched)
          /\ \A k \in 1 .. n : TxFollowed(input, k, replay.txs[k].ops)
      BY <3>4 DEF ReplayFollows
    <3> HIDE DEF step, n
    <3>6. /\ tx = TxBefore + (n + 1) /\ TxBefore \in Nat /\ tx \in Seen /\ tx \in DOMAIN History.txs
          /\ InRange(History.txs[tx].block) /\ block = BlockNo(input, n + 1)
      BY <2>1, <2>4, <3>1, NextTx
    <3> HIDE DEF tx, block
    <3>7. InputKnown /\ LogsSound /\ LogsRead
      BY <2>1, <2>4 DEF LogsInv, LogsComplete
    <3>8. TxDecoded(tx, ops)
      BY <3>2, <3>6, <3>7, DecodedIs
    <3>9. after \in ReplayOps(PoolNo(input, n),
                              IF replay.block = BlockNo(input, n + 1) THEN replay.touched ELSE {}, ops)
      <4>1. (CHOOSE p \in replay.pools : TRUE) = PoolNo(input, n)
        BY <3>5
      <4>2. TouchedBefore(block) = IF replay.block = BlockNo(input, n + 1) THEN replay.touched ELSE {}
        BY <3>6 DEF TouchedBefore
      <4> QED BY <3>2, <4>1, <4>2
    <3>10. /\ after.pool = PoolNo(input, n + 1)
           /\ TxFollowed(input, n + 1, ops)
           /\ Covers(input, n + 1, after.touched)
      <4> DEFINE b == replay.block
                 u == replay.touched
                 s == IF b = BlockNo(input, n + 1) THEN u ELSE {}
      <4> HIDE DEF b, u
      <4>1. /\ after \in ReplayOps(PoolNo(input, n), s, ops)
            /\ b = IF n = 0 THEN 0 ELSE BlockNo(input, n)
            /\ n # 0 => Covers(input, n, u)
        BY <3>5, <3>9 DEF b, u
      <4>2. /\ TxBefore + (n + 1) \in DOMAIN History.txs
            /\ InRange(History.txs[TxBefore + (n + 1)].block)
            /\ TxDecoded(TxBefore + (n + 1), ops)
        BY <3>6, <3>8
      <4> QED BY <3>1, <3>6, <3>7, <4>1, <4>2, TxFollows
    <3>11. /\ replay.txs \in Seq(ToSet(replay.txs)) /\ Len(replay.txs) = n
      BY <2>1 DEF FileInv, n
    <3>12. /\ replay'.txs[n + 1] = step
           /\ \A k \in 1 .. n : replay'.txs[k] = replay.txs[k]
      BY <3>2, <3>11, Appended
    <3>13. replay'.next - 1 = n + 1 /\ n + 1 # 0
      BY <3>1, <3>2
    <3>14. ASSUME NEW k \in 1 .. n + 1 PROVE TxFollowed(input, k, replay'.txs[k].ops)
      <4>1. CASE k = n + 1
        BY <3>3, <3>10, <3>12, <4>1
      <4>2. CASE k # n + 1
        <5>1. k \in 1 .. n
          BY <3>1, <4>2
        <5> QED BY <3>5, <3>12, <5>1
      <4> QED BY <4>1, <4>2
    <3>15. ASSUME NEW w \in replay'.waiting PROVE Sent(input, w)
      <4> DEFINE v == [index |-> replay.next, block |-> block, touched |-> after.touched]
      <4>1. v.index = n + 1 /\ v.block = block /\ v.touched = after.touched
        BY <3>1
      <4> HIDE DEF v
      <4>2. w = v
        BY <3>2, <3>15 DEF v
      <4> QED BY <3>6, <3>10, <4>1, <4>2 DEF Sent
    <3>16. replay'.block = BlockNo(input, n + 1) /\ replay'.pools = {PoolNo(input, n + 1)}
           /\ replay'.touched = after.touched
      BY <3>2, <3>6, <3>10
    <3>17. Covers(input, n + 1, replay'.touched)
      BY <3>10, <3>16
    <3> QED BY <3>13, <3>14, <3>15, <3>16, <3>17 DEF ReplayFollows
  <2>5. LogsComplete' => LogsComplete
    BY <2>1 DEF LogsComplete
  <2>6. input' = input /\ file' = {} /\ queue' = queue /\ phase' = phase
    BY <2>1, <2>3
  <2>7. /\ replay'.initial # {}
        /\ LogsComplete => QueueFollows(input, queue)
    BY <2>1, <2>3 DEF FollowInv
  <2> QED BY <2>1, <2>4, <2>5, <2>6, <2>7 DEF FollowInv
<1> QED BY <1>1, <1>2

\* A checkpoint is pushed.
LEMMA PushFollow ==
  ASSUME QueueInv, FollowInv, PushCheckpoint PROVE FollowInv'
<1> DEFINE new(w) == [task |-> w, result |-> {}, failed |-> FALSE]
           added == {new(w) : w \in replay.waiting}
<1>1. /\ phase = "replay" /\ queue' = [queue EXCEPT !.tasks = @ \cup added]
      /\ replay' = [replay EXCEPT !.waiting = {}]
      /\ UNCHANGED <<input, phase, fetch, logs, scan, traces, file, faults>>
  BY DEF PushCheckpoint
<1>2. \A w : DOMAIN new(w) = {"task", "result", "failed"} /\ new(w).task = w /\ new(w).result = {}
  OBVIOUS
<1> HIDE DEF new
<1>3. \A t \in added : \E w \in replay.waiting : t = new(w)
  OBVIOUS
<1> HIDE DEF added
<1>4. /\ queue'.tasks = queue.tasks \cup added /\ queue'.results = queue.results
      /\ replay'.waiting = {} /\ replay'.initial = replay.initial /\ replay'.pools = replay.pools
      /\ replay'.next = replay.next /\ replay'.block = replay.block /\ replay'.touched = replay.touched
      /\ replay'.txs = replay.txs
  BY <1>1 DEF QueueInv
<1>5. ASSUME LogsComplete PROVE ReplayFollows(input, replay') /\ QueueFollows(input, queue')
  <2>1. ReplayFollows(input, replay) /\ QueueFollows(input, queue)
    BY <1>1, <1>5 DEF FollowInv
  <2>2. ReplayFollows(input, replay')
    BY <1>4, <2>1 DEF ReplayFollows
  <2>3. ASSUME NEW t \in added PROVE Fetching(input, t)
    <3>1. PICK w \in replay.waiting : t = new(w)
      BY <1>3
    <3>2. Sent(input, w)
      BY <2>1 DEF ReplayFollows
    <3> QED BY <1>2, <3>1, <3>2 DEF Fetching
  <2>4. QueueFollows(input, queue')
    BY <1>4, <2>1, <2>3 DEF QueueFollows
  <2> QED BY <2>2, <2>4
<1>6. LogsComplete' = LogsComplete
  BY <1>1 DEF LogsComplete
<1> QED BY <1>1, <1>4, <1>5, <1>6 DEF FollowInv

\* A fetch ends.
LEMMA AnswerFollow ==
  ASSUME QueueInv, FollowInv, NEW t \in queue.tasks, CheckpointFails(t) \/ CheckpointArrives(t)
  PROVE  FollowInv'
<1>1. PICK u : /\ Becomes(t, u) /\ DOMAIN u = DOMAIN t /\ u.task = t.task
               /\ \/ u.result = t.result
                  \/ u.result = {PoolCheckpoint(PoolAtBlock(t.task.block), t.task.touched)}
               /\ ("logs" \in faults => "logs" \in faults')
  <2>1. CASE CheckpointFails(t)
    <3> DEFINE u == [t EXCEPT !.failed = TRUE]
    <3>1. Becomes(t, u) /\ ("logs" \in faults => "logs" \in faults')
      BY <2>1 DEF CheckpointFails
    <3>2. DOMAIN u = DOMAIN t /\ u.task = t.task /\ u.result = t.result
      OBVIOUS
    <3> HIDE DEF u
    <3> QED BY <3>1, <3>2
  <2>2. CASE CheckpointArrives(t)
    <3> DEFINE c == PoolCheckpoint(PoolAtBlock(t.task.block), t.task.touched)
               u == IF Parses(c.core) THEN [t EXCEPT !.result = {c}] ELSE [t EXCEPT !.failed = TRUE]
    <3>1. Becomes(t, u) /\ faults' = faults
      BY <2>2, Zenon DEF CheckpointArrives
    <3> HIDE DEF c
    <3>2. DOMAIN u = DOMAIN t /\ u.task = t.task /\ (u.result = t.result \/ u.result = {c})
      OBVIOUS
    <3> HIDE DEF u
    <3> QED BY <3>1, <3>2 DEF c
  <2> QED BY <2>1, <2>2
<1>2. /\ queue' = [queue EXCEPT !.tasks = (@ \ {t}) \cup {u}]
      /\ UNCHANGED <<input, phase, fetch, logs, scan, traces, replay, file>>
  BY <1>1 DEF Becomes
<1>3. queue'.tasks = (queue.tasks \ {t}) \cup {u} /\ queue'.results = queue.results
  BY <1>2 DEF QueueInv
<1>4. ASSUME QueueFollows(input, queue) PROVE QueueFollows(input, queue')
  <2>1. Fetching(input, t)
    BY <1>4 DEF QueueFollows
  <2>2. PoolAtBlock(t.task.block) = PoolAfter(input, t.task.index)
    BY <2>1 DEF Fetching, Sent, PoolAtBlock, PoolAfter, History
  <2>3. Fetching(input, u)
    BY <1>1, <2>1, <2>2 DEF Fetching
  <2> QED BY <1>3, <1>4, <2>3 DEF QueueFollows
<1>5. LogsComplete' => LogsComplete
  BY <1>1 DEF LogsComplete
<1> QED BY <1>2, <1>4, <1>5 DEF FollowInv

\* A checkpoint is collected.
LEMMA CollectFollow ==
  ASSUME QueueInv, FollowInv, NEW t \in queue.tasks, CollectNext(t)
  PROVE  FollowInv'
<1> DEFINE k    == t.task.index
           rest == queue.tasks \ {t}
           all  == [i \in DOMAIN queue.results \cup {k} |->
                      IF i = k THEN CHOOSE r \in t.result : TRUE ELSE queue.results[i]]
<1>1. CASE t.failed
  BY <1>1, AbortFollow DEF CollectNext
<1>2. CASE ~t.failed
  <2>1. /\ queue' = [queue EXCEPT !.tasks = rest, !.results = all]
        /\ phase = "replay" /\ UNCHANGED <<input, phase, fetch, logs, scan, traces, replay, file, faults>>
        /\ t.result # {}
    BY <1>2 DEF CollectNext, Collecting, ReplayDone, Running
  <2>2. /\ DOMAIN all = DOMAIN queue.results \cup {k}
        /\ \A i \in DOMAIN all : all[i] = IF i = k THEN CHOOSE r \in t.result : TRUE ELSE queue.results[i]
    OBVIOUS
  <2> HIDE DEF all, rest
  <2>3. queue'.tasks = rest /\ queue'.results = all
    BY <2>1 DEF QueueInv
  <2>4. ASSUME QueueFollows(input, queue) PROVE QueueFollows(input, queue')
    <3>1. Fetching(input, t)
      BY <2>4 DEF QueueFollows
    <3> DEFINE c == PoolCheckpoint(PoolAfter(input, k), t.task.touched)
    <3>2. t.result = {c} /\ Covers(input, k, t.task.touched)
      BY <2>1, <3>1 DEF Fetching, Sent
    <3>3. Checkpointed(input, k, c)
      BY <3>2 DEF Checkpointed
    <3> HIDE DEF c, k
    <3>4. (CHOOSE r \in t.result : TRUE) = c
      BY <3>2
    <3>5. ASSUME NEW i \in DOMAIN all PROVE Checkpointed(input, i, all[i])
      <4>1. CASE i = k
        BY <2>2, <3>3, <3>4, <4>1
      <4>2. CASE i # k
        BY <2>2, <2>4, <4>2 DEF QueueFollows
      <4> QED BY <4>1, <4>2
    <3>6. \A u \in rest : Fetching(input, u)
      BY <2>4 DEF QueueFollows, rest
    <3> QED BY <2>3, <3>5, <3>6 DEF QueueFollows
  <2>5. LogsComplete' = LogsComplete
    BY <2>1 DEF LogsComplete
  <2> QED BY <2>1, <2>4, <2>5 DEF FollowInv
<1> QED BY <1>1, <1>2

\* The file is written.
LEMMA WriteFollow ==
  ASSUME SnapshotInv, FileInv, FollowInv, WriteFixture PROVE FollowInv'
<1>1. /\ phase = "replay" /\ phase' = "written"
      /\ UNCHANGED <<input, fetch, logs, scan, traces, replay, queue, faults>>
      /\ \A f \in file' :
           /\ f.initial \in replay.initial
           /\ f.txs = [i \in DOMAIN replay.txs |->
                [replay.txs[i] EXCEPT !.checkpoint =
                   {queue.results[k] : k \in DOMAIN queue.results \cap {i}}]]
  BY Written
<1>2. /\ Len(replay.txs) \in Nat /\ DOMAIN replay.txs = 1 .. Len(replay.txs)
      /\ Len(replay.txs) = replay.next - 1
      /\ \A k \in DOMAIN replay.txs : DOMAIN replay.txs[k] = {"tx", "ops", "checkpoint"}
  <2>1. replay.txs \in Seq(ToSet(replay.txs))
    BY DEF FileInv
  <2>2. Len(replay.txs) \in Nat /\ DOMAIN replay.txs = 1 .. Len(replay.txs)
    BY <2>1
  <2> QED BY <1>1, <2>2 DEF FileInv
<1>3. ASSUME LogsComplete, NEW f \in file' PROVE FileFollows(input, f)
  <2>1. ReplayFollows(input, replay) /\ QueueFollows(input, queue)
    BY <1>1, <1>3 DEF FollowInv
  <2>2. f.initial = PoolSnapshot(PoolNo(input, 0))
    <3>1. /\ replay.initial \subseteq {PoolSnapshot(PoolAtBlock(Args.start))}
          /\ input \in [history : Histories, options : Options]
      BY DEF SnapshotInv
    <3>2. f.initial = PoolSnapshot(PoolAtBlock(Args.start))
      BY <1>1, <3>1
    <3> QED BY <3>1, <3>2, FirstPool
  <2> DEFINE c(i) == {queue.results[k] : k \in DOMAIN queue.results \cap {i}}
  <2>3. f.txs = [i \in DOMAIN replay.txs |-> [replay.txs[i] EXCEPT !.checkpoint = c(i)]]
    BY <1>1
  <2>4. ASSUME NEW i, NEW e \in c(i) PROVE Checkpointed(input, i, e)
    <3>1. i \in DOMAIN queue.results /\ e = queue.results[i]
      BY <2>4
    <3> QED BY <2>1, <3>1 DEF QueueFollows
  <2> HIDE DEF c
  <2>5. DOMAIN f.txs = DOMAIN replay.txs
    BY <2>3
  <2>6. ASSUME NEW k \in DOMAIN replay.txs
        PROVE  f.txs[k].ops = replay.txs[k].ops /\ f.txs[k].checkpoint = c(k)
    <3> DEFINE r == replay.txs[k]
    <3>1. f.txs[k] = [r EXCEPT !.checkpoint = c(k)] /\ DOMAIN r = {"tx", "ops", "checkpoint"}
      BY <1>2, <2>3
    <3> HIDE DEF r
    <3>2. f.txs[k].ops = r.ops /\ f.txs[k].checkpoint = c(k)
      BY <3>1
    <3> QED BY <3>2 DEF r
  <2>7. ASSUME NEW k \in DOMAIN f.txs
        PROVE  /\ TxFollowed(input, k, f.txs[k].ops)
               /\ \A e \in f.txs[k].checkpoint : Checkpointed(input, k, e)
    <3>1. k \in DOMAIN replay.txs /\ k \in 1 .. replay.next - 1
      BY <1>2, <2>5
    <3>2. TxFollowed(input, k, replay.txs[k].ops)
      BY <2>1, <3>1 DEF ReplayFollows
    <3> QED BY <2>4, <2>6, <3>1, <3>2
  <2> QED BY <2>2, <2>7 DEF FileFollows
<1>4. LogsComplete' = LogsComplete
  BY <1>1 DEF LogsComplete
<1> QED BY <1>1, <1>3, <1>4 DEF FollowInv

\* The invariant of the replay is inductive.
LEMMA NextFollow ==
  ASSUME NoBeforeHooks, QueueInv, LogsInv, FileInv, SnapshotInv, FollowInv, [Next]_vars
  PROVE  FollowInv'
<1> DEFINE quiet == /\ input' = input /\ file' = file /\ replay' = replay /\ queue' = queue
                    /\ faults' = faults /\ phase' = phase
<1>1. CASE quiet
  BY <1>1, QuietFollow DEF LogsComplete
<1>2. CASE RequestFails
  <2>1. Drops /\ faults' = faults \cup {"request"}
    BY <1>2 DEF RequestFails
  <2>2. LogsComplete' => LogsComplete
    BY <2>1 DEF LogsComplete
  <2> QED BY <2>1, <2>2, DroppedFollow
<1>3. ASSUME NEW t \in queue.tasks, CheckpointFails(t) \/ CheckpointArrives(t) PROVE FollowInv'
  BY <1>3, AnswerFollow
<1>4. ASSUME NEW i \in fetch.running, NEW lost, LogsArrive(i, lost) PROVE FollowInv'
  <2>1. /\ input' = input /\ file' = file /\ replay' = replay /\ queue' = queue /\ phase' = phase
        /\ faults' = IF lost = {} THEN faults ELSE faults \cup {"logs"}
    BY <1>4 DEF LogsArrive
  <2>2. LogsComplete' => LogsComplete
    BY <2>1 DEF LogsComplete
  <2> QED BY <2>1, <2>2, QuietFollow
<1>5. ASSUME NEW i \in fetch.running, NEW without, TraceArrives(i, without) PROVE FollowInv'
  <2>1. /\ input' = input /\ file' = file /\ replay' = replay /\ queue' = queue /\ phase' = phase
        /\ faults' = IF without = 0 THEN faults ELSE faults \cup {"trace"}
    BY <1>5 DEF TraceArrives
  <2>2. LogsComplete' => LogsComplete
    BY <2>1 DEF LogsComplete
  <2> QED BY <2>1, <2>2, QuietFollow
<1>6. CASE LoadInitialPool
  <2>1. file = {}
    BY <1>6, LoadSplit DEF FileInv
  <2> QED BY <1>6, <2>1, LoadFollow
<1>7. CASE StartRequest
  <2>1. quiet
    BY <1>7 DEF StartRequest
  <2> QED BY <1>1, <2>1
<1>8. CASE ScanTransactions
  <2>1. phase = "logs"
    BY <1>8 DEF ScanTransactions
  <2>2. Abort \/ (phase' = "traces" /\ UNCHANGED <<input, replay, queue, file, faults>>)
    BY <1>8, Zenon DEF ScanTransactions
  <2>3. CASE phase' = "traces" /\ UNCHANGED <<input, replay, queue, file, faults>>
    BY <2>1, <2>3, QuietFollow DEF LogsComplete
  <2> QED BY <2>2, <2>3, AbortFollow
<1>9. CASE TracesDone
  BY <1>9, TracesSplit, AbortFollow, StartFollow
<1>10. CASE ReplayTransaction
  BY <1>10, ReplayedFollow
<1>11. CASE PushCheckpoint
  BY <1>11, PushFollow
<1>12. CASE WriteFixture
  BY <1>12, WriteFollow
<1>13. ASSUME NEW t \in queue.tasks, CollectNext(t) PROVE FollowInv'
  BY <1>13, CollectFollow
<1>14. CASE UNCHANGED vars
  <2>1. quiet
    BY <1>14 DEF vars
  <2> QED BY <1>1, <2>1
<1> QED BY <1>2, <1>3, <1>4, <1>5, <1>6, <1>7, <1>8, <1>9, <1>10, <1>11, <1>12, <1>13, <1>14
        DEF Next, Answers, Steps

-----------------------------------------------------------------------------
(* What the file promises                                                      *)

\* A sparse checkpoint has the chain's entries of the ticks touched.
LEMMA CheckpointIs ==
  ASSUME NEW pool, Storable(pool), NEW touched, TouchedSet(touched)
  PROVE  /\ DOMAIN PoolCheckpoint(pool, touched).ticks = touched
         /\ \A t \in touched : PoolCheckpoint(pool, touched).ticks[t] = TickEntry(pool, t)
         /\ PoolOf([core |-> PoolCheckpoint(pool, touched).core, ticks |-> pool.ticks]) = pool
<1> DEFINE c == PoolCheckpoint(pool, touched)
           infos == TickInfos(pool, touched)
           kept(t) == IF t \in DOMAIN infos /\ infos[t].gross # 0 THEN infos[t] ELSE NoTick
<1>1. c.core = PoolCoreSnapshot(pool) /\ c.ticks = [t \in touched |-> kept(t)]
  BY DEF PoolCheckpoint, SparseTicks
<1>2. infos = [t \in touched |-> TickEntry(pool, t)]
  BY TickInfosAre DEF TouchedSet
<1>3. pool = [price |-> pool.price, tick |-> pool.tick, growth |-> pool.growth,
              liquidity |-> pool.liquidity, fee |-> pool.fee, protocolFee |-> pool.protocolFee, ticks |-> pool.ticks]
  BY DEF Storable
<1> HIDE DEF infos
<1>4. ASSUME NEW t \in touched PROVE kept(t) = TickEntry(pool, t)
  <2>1. t \in DOMAIN infos /\ infos[t] = TickEntry(pool, t)
    BY <1>2
  <2>2. CASE t \in DOMAIN pool.ticks
    <3> DEFINE e == pool.ticks[t]
    <3>1. e \in TickEntries
      BY <2>2 DEF Storable
    <3> HIDE DEF e
    <3>2. e.gross \in 1 .. 2^InfoBits - 1 /\ 2^InfoBits \in Nat
      BY <3>1, StorageAssumption, PowType DEF TickEntries
    <3>3. e.gross # 0
      BY <3>2
    <3>4. TickEntry(pool, t) = e
      BY <2>2 DEF TickEntry, e
    <3> QED BY <2>1, <3>3, <3>4
  <2>3. CASE t \notin DOMAIN pool.ticks
    <3>1. TickEntry(pool, t) = NoTick /\ NoTick.gross = 0
      BY <2>3 DEF TickEntry, NoTick
    <3> QED BY <2>1, <3>1
  <2> QED BY <2>2, <2>3
<1> HIDE DEF c, kept
<1>5. DOMAIN c.ticks = touched /\ \A t \in touched : c.ticks[t] = TickEntry(pool, t)
  BY <1>1, <1>4
<1> DEFINE s == [core |-> c.core, ticks |-> pool.ticks]
<1>6. s.core = PoolCoreSnapshot(pool) /\ s.ticks = pool.ticks
  BY <1>1
<1> HIDE DEF s
<1>7. /\ s.core.price = pool.price /\ s.core.tick = pool.tick
      /\ s.core.growth = pool.growth /\ s.core.liquidity = pool.liquidity
      /\ s.core.fee = pool.fee /\ s.core.protocolFee = pool.protocolFee /\ s.ticks = pool.ticks
  BY <1>6, CoreRead
<1>8. PoolOf(s) = pool
  BY <1>3, <1>7 DEF PoolOf
<1> QED BY <1>5, <1>8 DEF c, s

\* The k-th transaction of the file, and its checkpoint.
LEMMA FileTx ==
  ASSUME NoBeforeHooks, QueueInv, LogsInv, FileInv, FollowInv, LogsComplete,
         NEW f \in file, NEW k \in DOMAIN f.txs
  PROVE  /\ k \in Nat /\ \A i \in 1 .. k : i \in DOMAIN f.txs
         /\ Storable(PoolNo(input, k))
         /\ BlockNo(input, k) = History.txs[f.txs[k].tx].block
         /\ \A c \in f.txs[k].checkpoint :
              PoolAfter(input, k) = PoolNo(input, k) /\ Checkpointed(input, k, c)
<1>1. phase = "written"
  BY DEF FileInv
<1>2. LogsRead /\ InputKnown /\ LogsSound /\ Args.start < Args.end
  BY <1>1 DEF LogsInv, LogsComplete
<1>3. /\ DOMAIN f.txs = DOMAIN replay.txs /\ replay.txs \in Seq(ToSet(replay.txs))
      /\ f.txs[k].tx = replay.txs[k].tx /\ replay.txs[k].tx = scan.order[k]
      /\ Len(replay.txs) = replay.next - 1 /\ replay.next <= Len(scan.order) + 1
  BY <1>1 DEF FileInv
<1>4. Len(scan.order) \in Nat /\ Len(scan.order) <= Len(TxOrder)
      /\ \A j \in 1 .. Len(scan.order) : scan.order[j] = TxOrder[j] /\ scan.order[j] \in Seen
  BY <1>1, OrderSeen
<1>5. DOMAIN replay.txs = 1 .. Len(replay.txs) /\ Len(replay.txs) \in Nat
  BY <1>3
<1>6. k \in Nat /\ k \in 1 .. Len(scan.order) /\ \A i \in 1 .. k : i \in DOMAIN f.txs
  <2> DEFINE m == Len(replay.txs)
  <2> HIDE DEF m
  <2>1. m \in Nat /\ k \in 1 .. m /\ DOMAIN f.txs = 1 .. m
    BY <1>3, <1>5 DEF m
  <2>2. replay.next \in Nat
    BY <1>1 DEF QueueInv, Queued
  <2>3. m <= Len(scan.order)
    BY <1>3, <1>4, <2>1, <2>2 DEF m
  <2> QED BY <1>4, <2>1, <2>3
<1>7. f.txs[k].tx = TxBefore + k /\ f.txs[k].tx \in Seen
  <2>1. Len(TxOrder) \in Nat
    BY <1>2, TxOrderIs
  <2>2. k \in 1 .. Len(TxOrder)
    BY <1>4, <1>6, <2>1
  <2>3. TxOrder[k] = TxBefore + k
    BY <1>2, <2>2, TxOrderIsChainOrder
  <2> QED BY <1>3, <1>4, <1>6, <2>3
<1> DEFINE tx == f.txs[k].tx
<1> HIDE DEF tx
<1>8. tx = TxBefore + k /\ tx \in DOMAIN History.txs /\ History \in Histories
  <2>1. tx \in Seen
    BY <1>7 DEF tx
  <2> QED BY <1>2, <1>7, <2>1, SeenIs DEF tx, InputKnown
<1>9. PoolNo(input, k) = ChainPools[History][tx] /\ BlockNo(input, k) = History.txs[tx].block
  BY <1>8 DEF PoolNo, BlockNo, RunStart, TxBefore, History, Args
<1>10. Storable(PoolNo(input, k))
  <2>1. tx \in 0 .. Len(History.txs)
    BY <1>8, HistoryKnown
  <2> QED BY <1>8, <1>9, <2>1, ChainAssumption
<1>11. ASSUME NEW c \in f.txs[k].checkpoint
       PROVE  PoolAfter(input, k) = PoolNo(input, k) /\ Checkpointed(input, k, c)
  <2>1. tx = LastTxOf(History, History.txs[tx].block)
    <3>1. FixtureIsChainPrefix
      BY FileIsPrefix
    <3>2. f.txs[k].checkpoint # {} <=>
            f.txs[k].tx = LastTxOf(History, History.txs[f.txs[k].tx].block)
      BY <3>1, Zenon DEF FixtureIsChainPrefix
    <3> QED BY <1>11, <3>2 DEF tx
  <2>2. PoolAfter(input, k) = ChainPools[History][LastTxOf(History, BlockNo(input, k))]
    BY DEF PoolAfter, History
  <2>3. FileFollows(input, f)
    BY DEF FollowInv
  <2> QED BY <1>9, <2>1, <2>2, <2>3 DEF FileFollows
<1> QED BY <1>6, <1>9, <1>10, <1>11 DEF tx

\* Whoever replays the file comes past the pools of the chain.
LEMMA FileTakes ==
  ASSUME FollowInv, LogsComplete, NEW f \in file, NEW k \in Nat,
         \A i \in 1 .. k : i \in DOMAIN f.txs,
         NEW all, all = FlattenSeq([i \in 1 .. k |-> f.txs[i].ops])
  PROVE  /\ Takes(all, PoolNo(input, 0), PoolNo(input, k))
         /\ Len(all) \in Nat /\ DOMAIN all = 1 .. Len(all)
<1> DEFINE seqs == [i \in 1 .. k |-> f.txs[i].ops]
           at   == [i \in 0 .. k |-> PoolNo(input, i)]
           W    == UNION {ToSet(f.txs[i].ops) : i \in 1 .. k}
<1>1. ASSUME NEW i \in 1 .. k PROVE f.txs[i].ops \in Seq(W) /\ TxFollowed(input, i, f.txs[i].ops)
  <2>1. FileFollows(input, f) /\ i \in DOMAIN f.txs
    BY DEF FollowInv
  <2>2. TxFollowed(input, i, f.txs[i].ops)
    BY <2>1 DEF FileFollows
  <2> DEFINE s == f.txs[i].ops
  <2>3. ToSet(s) \in SUBSET W
    OBVIOUS
  <2> HIDE DEF s, W
  <2>4. s \in Seq(ToSet(s))
    BY <2>2 DEF TxFollowed, s
  <2>5. s \in Seq(W)
    BY <2>3, <2>4
  <2> QED BY <2>2, <2>5 DEF s
<1> HIDE DEF W
<1>2. seqs \in [1 .. k -> Seq(W)] /\ \A i \in 1 .. k : seqs[i] = f.txs[i].ops
  BY <1>1
<1>3. all = FlattenSeq(seqs)
  OBVIOUS
<1>4. \A i \in 0 .. k : at[i] = PoolNo(input, i)
  OBVIOUS
<1> HIDE DEF seqs, at
<1>5. ASSUME NEW i \in 1 .. k PROVE Takes(seqs[i], at[i - 1], at[i])
  <2>1. i \in 0 .. k /\ i - 1 \in 0 .. k
    OBVIOUS
  <2> QED BY <1>1, <1>2, <1>4, <2>1 DEF TxFollowed
<1>6. Takes(FlattenSeq(seqs), at[0], at[k]) /\ FlattenSeq(seqs) \in Seq(W)
  BY <1>2, <1>5, AllTake, Flattened
<1>7. at[0] = PoolNo(input, 0) /\ at[k] = PoolNo(input, k)
  BY <1>4
<1>8. all \in Seq(W)
  BY <1>3, <1>6
<1> QED BY <1>3, <1>6, <1>7, <1>8

-----------------------------------------------------------------------------
(* A replay of the file                                                     *)

\* A replay that ends where the chain was finds the checkpoint.
Finds(f, k, c) ==
  \E end \in ReplayOps(PoolOf(f.initial), {}, FlattenSeq([i \in 1..k |-> f.txs[i].ops])) :
    /\ PoolOf([core |-> c.core, ticks |-> end.pool.ticks]) = end.pool
    /\ \A t \in DOMAIN c.ticks :
         c.ticks[t] = IF t \in Initialized(end.pool) THEN end.pool.ticks[t] ELSE NoTick

\* Each checkpoint of the file is.
LEMMA CheckpointIsFound ==
  ASSUME NoBeforeHooks, QueueInv, LogsInv, FileInv, FollowInv, LogsComplete,
         NEW f \in file, NEW k \in DOMAIN f.txs, NEW c \in f.txs[k].checkpoint
  PROVE  Finds(f, k, c)
<1> DEFINE pool == PoolNo(input, k)
           all  == FlattenSeq([i \in 1..k |-> f.txs[i].ops])
           from == PoolOf(f.initial)
<1>1. /\ k \in Nat /\ (\A i \in 1 .. k : i \in DOMAIN f.txs) /\ Storable(pool)
      /\ PoolAfter(input, k) = pool /\ Checkpointed(input, k, c)
  BY FileTx
<1>2. PICK touched : Covers(input, k, touched) /\ c = PoolCheckpoint(pool, touched)
  BY <1>1 DEF Checkpointed
<1>3. TouchedSet(touched)
  BY <1>2 DEF Covers
<1>4. from = PoolNo(input, 0)
  <2>1. f.initial = PoolSnapshot(PoolNo(input, 0))
    BY DEF FollowInv, FileFollows
  <2>2. input \in [history : Histories, options : Options]
    BY DEF QueueInv
  <2> QED BY <2>1, <2>2, FirstPool
<1>5. all = FlattenSeq([i \in 1 .. k |-> f.txs[i].ops])
  OBVIOUS
<1> HIDE DEF all, from
<1>6. Takes(all, from, PoolNo(input, k)) /\ Len(all) \in Nat /\ DOMAIN all = 1 .. Len(all)
  BY <1>1, <1>4, <1>5, FileTakes
<1> HIDE DEF pool
<1>7. Takes(all, from, pool)
  BY <1>6 DEF pool
<1>8. PICK end \in ReplayOps(from, {}, all) : end.pool = pool
  BY <1>6, <1>7, AlongReaches
<1>9. /\ DOMAIN c.ticks = touched /\ \A t \in touched : c.ticks[t] = TickEntry(pool, t)
      /\ PoolOf([core |-> c.core, ticks |-> pool.ticks]) = pool
  BY <1>1, <1>2, <1>3, CheckpointIs DEF pool
<1>10. /\ PoolOf([core |-> c.core, ticks |-> end.pool.ticks]) = end.pool
       /\ \A t \in DOMAIN c.ticks :
            c.ticks[t] = IF t \in Initialized(end.pool) THEN end.pool.ticks[t] ELSE NoTick
  BY <1>8, <1>9 DEF TickEntry, Initialized
<1> QED BY <1>8, <1>10 DEF Finds, all, from

\* The invariants of the replay together.
ReplayInv == QueueInv /\ LogsInv /\ FileInv /\ SnapshotInv /\ FollowInv

\* They are inductive.
LEMMA ReplayInvHolds ==
  ASSUME NoBeforeHooks
  PROVE  /\ Init => ReplayInv
         /\ ReplayInv /\ [Next]_vars => ReplayInv'
<1>1. Init => ReplayInv
  BY InitQueue, InitLogs, InitFile, InitSnapshot, InitFollow DEF ReplayInv
<1>2. ReplayInv /\ [Next]_vars => ReplayInv'
  BY NextQueue, NextLogs, NextFile, NextSnapshot, NextFollow DEF ReplayInv
<1> QED BY <1>1, <1>2

\* Whatever the histories hold, in whatever order logs, traces and checkpoints
\* come: when no log is missing, whoever replays the file from its initial pool
\* finds the chain's pool at each checkpoint, as recorded: replay_and_checkpoint.
THEOREM CheckpointsAreFound ==
  ASSUME NoBeforeHooks
  PROVE  Spec => []CheckpointsHold
<1>1. Init => ReplayInv
  BY ReplayInvHolds
<1>2. ReplayInv /\ [Next]_vars => ReplayInv'
  BY ReplayInvHolds
<1>3. ReplayInv => CheckpointsHold
  <2> SUFFICES ASSUME ReplayInv, NEW f \in file, LogsComplete, NEW k \in DOMAIN f.txs,
                      NEW c \in f.txs[k].checkpoint
               PROVE  Finds(f, k, c)
    BY Zenon DEF CheckpointsHold, Finds
  <2> QED BY CheckpointIsFound DEF ReplayInv
<1> QED BY <1>1, <1>2, <1>3, PTL DEF Spec

\* A checkpoint has the ticks its block changed.
LEMMA ChangesAreCovered ==
  ASSUME NoBeforeHooks, ReplayInv, LogsComplete, NEW f \in file, NEW k \in DOMAIN f.txs,
         NEW c \in f.txs[k].checkpoint,
         NEW block, block = History.txs[f.txs[k].tx].block, NEW t, NEW i,
         Stored(PoolAtBlock(block), <<"tick", t, i>>) # Stored(PoolAtBlock(block - 1), <<"tick", t, i>>)
  PROVE  t \in DOMAIN c.ticks
<1> DEFINE pool == PoolNo(input, k)
           before == PoolBefore(input, k)
<1>1. /\ Storable(pool) /\ BlockNo(input, k) = block
      /\ PoolAfter(input, k) = pool /\ Checkpointed(input, k, c)
  BY FileTx DEF ReplayInv
<1>2. PoolAtBlock(block) = pool /\ PoolAtBlock(block - 1) = before
  BY <1>1 DEF PoolAtBlock, PoolAfter, PoolBefore, History
<1>3. PICK touched : Covers(input, k, touched) /\ c = PoolCheckpoint(pool, touched)
  BY <1>1 DEF Checkpointed
<1>4. TouchedSet(touched) /\ DifferAt(before, pool, touched)
  BY <1>3 DEF Covers
<1>5. DOMAIN c.ticks = touched
  <2> HIDE DEF pool
  <2> QED BY <1>1, <1>3, <1>4, CheckpointIs
<1> HIDE DEF pool, before
<1>6. ASSUME NEW p PROVE Stored(p, <<"tick", t, i>>) = StoredTick(TickEntry(p, t), i)
  <2> DEFINE slot == <<"tick", t, i>>
  <2>1. slot[1] = "tick" /\ slot[2] = t /\ slot[3] = i
    OBVIOUS
  <2> HIDE DEF slot
  <2>2. Stored(p, slot) = StoredTick(IF slot[2] \in DOMAIN p.ticks THEN p.ticks[slot[2]] ELSE NoTick, slot[3])
    BY <2>1 DEF Stored
  <2>3. Stored(p, slot) = StoredTick(TickEntry(p, t), i)
    BY <2>1, <2>2 DEF TickEntry
  <2> QED BY <2>3 DEF slot
<1>7. TickEntry(pool, t) # TickEntry(before, t)
  BY <1>2, <1>6
<1> QED BY <1>4, <1>5, <1>7 DEF DifferAt

\* And no tick that changed on chain during the block is left out of the block's
\* checkpoint: touched_ticks, over all transactions of the block.
THEOREM CheckpointsCoverBlocks ==
  ASSUME NoBeforeHooks
  PROVE  Spec => []CheckpointCoversBlock
<1>1. Init => ReplayInv
  BY ReplayInvHolds
<1>2. ReplayInv /\ [Next]_vars => ReplayInv'
  BY ReplayInvHolds
<1>3. ReplayInv => CheckpointCoversBlock
  <2> SUFFICES ASSUME ReplayInv, NEW f \in file, LogsComplete, NEW k \in DOMAIN f.txs,
                      NEW c \in f.txs[k].checkpoint, NEW block, block = History.txs[f.txs[k].tx].block,
                      NEW t \in TickIndices, NEW i \in 1 .. 3,
                      Stored(PoolAtBlock(block), <<"tick", t, i>>)
                        # Stored(PoolAtBlock(block - 1), <<"tick", t, i>>)
               PROVE  t \in DOMAIN c.ticks
    BY DEF CheckpointCoversBlock
  <2> QED BY ChangesAreCovered
<1> QED BY <1>1, <1>2, <1>3, PTL DEF Spec

=============================================================================
