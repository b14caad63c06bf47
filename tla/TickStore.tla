----------------------------- MODULE TickStore -----------------------------
(***************************************************************************)
(* What the tick storage promises the pool: a map from tick keys to tick   *)
(* infos with ordered neighbour queries.  Keys are ordered as their ticks  *)
(* are.  A call leaves its answer, and the caller takes it before it calls *)
(* again; a result is the set of the entries it holds.                     *)
(***************************************************************************)
EXTENDS Integers, Functions

CONSTANTS
  Keys,       \* the keys a caller can form
  Capacity,   \* keys below Capacity can be stored
  Infos       \* tick infos

VARIABLES
  store,      \* the initialized ticks
  answer      \* the call just made, its key and the <<key, info>> pairs it returns

Lowest(S)  == {k \in S : \A j \in S : k <= j}
Highest(S) == {k \in S : \A j \in S : j <= k}
Entries(S) == {<<k, store[k]>> : k \in S}
At(k)      == DOMAIN store \cap {k}

NoAnswer == <<>>
Answers(call, k, result) == answer' = <<call, k, result>>

Init == store = [k \in {} |-> CHOOSE i \in Infos : TRUE] /\ answer = NoAnswer

Return == answer # NoAnswer /\ answer' = NoAnswer /\ UNCHANGED store

Insert(k, info) ==
  /\ store' = IF k < Capacity
              THEN [j \in DOMAIN store \cup {k} |-> IF j = k THEN info ELSE store[j]]
              ELSE store
  /\ Answers("insert", k, IF k < Capacity THEN {<<k, info>>} ELSE {})

\* update_initialized_tick, and with it cross_tick.
Update(k, info) ==
  /\ store' = [j \in DOMAIN store |-> IF j = k THEN info ELSE store[j]]
  /\ Answers("update", k, Entries(At(k)))

Remove(k) ==
  /\ store' = Restrict(store, DOMAIN store \ {k})
  /\ Answers("remove", k, {})

Get(k) == Answers("get", k, Entries(At(k))) /\ UNCHANGED store

\* The next boundary in a swap's direction: downward the tick itself counts.
NextInitializedTick(k, zeroForOne) ==
  /\ IF zeroForOne
     THEN Answers("next down", k, Entries(Highest({j \in DOMAIN store : j <= k})))
     ELSE Answers("next up", k, Entries(Lowest({j \in DOMAIN store : j > k})))
  /\ UNCHANGED store

Snapshot == Answers("snapshot", 0, Entries(DOMAIN store)) /\ UNCHANGED store

\* A pool rebuilt from its own snapshot stores the same ticks.
Reload == UNCHANGED <<store, answer>>

Call ==
  \/ \E k \in Keys, info \in Infos : Insert(k, info) \/ Update(k, info)
  \/ \E k \in Keys : Remove(k) \/ Get(k)
  \/ \E k \in Keys, zeroForOne \in BOOLEAN : NextInitializedTick(k, zeroForOne)
  \/ Snapshot
  \/ Reload

Next == Return \/ (answer = NoAnswer /\ Call)

Spec == Init /\ [][Next]_<<store, answer>>
=============================================================================
