------------------------------- MODULE KeySet -------------------------------
(***************************************************************************)
(* What a set of u16 keys in 0 .. Cap - 1 promises its callers: changes    *)
(* that report whether they changed anything and nearest-key queries.  An  *)
(* answer names its call and is taken before the next one; its result is   *)
(* an Option, the set of the values it holds: {} or {v}.                   *)
(***************************************************************************)
EXTENDS Integers

CONSTANTS
  Cap,      \* keys below Cap can be stored
  KeyMax    \* the largest key a caller can pass (u16::MAX)

VARIABLES keys, answer

AllKeys == 0 .. KeyMax

Lowest(S)  == {k \in S : \A j \in S : k <= j}
Highest(S) == {k \in S : \A j \in S : j <= k}

NoAnswer == <<>>
Answers(call, k, result) == answer' = <<call, k, result>>

Init == keys = {} /\ answer = NoAnswer

Return == answer # NoAnswer /\ answer' = NoAnswer /\ UNCHANGED keys

Set(k) ==
  /\ keys' = IF k < Cap THEN keys \cup {k} ELSE keys
  /\ Answers("set", k, keys' \ keys)

Remove(k) ==
  /\ keys' = keys \ {k}
  /\ Answers("remove", k, keys \ keys')

Contains(k) == Answers("contains", k, keys \cap {k}) /\ UNCHANGED keys
NextOf(k)   == Answers("next", k, Lowest({j \in keys : j > k})) /\ UNCHANGED keys
NextOrEq(k) == Answers("next or eq", k, Lowest({j \in keys : j >= k})) /\ UNCHANGED keys
PrevOf(k)   == Answers("prev", k, Highest({j \in keys : j < k})) /\ UNCHANGED keys
PrevOrEq(k) == Answers("prev or eq", k, Highest({j \in keys : j <= k})) /\ UNCHANGED keys

Call ==
  \E k \in AllKeys :
    \/ Set(k) \/ Remove(k) \/ Contains(k)
    \/ NextOf(k) \/ NextOrEq(k) \/ PrevOf(k) \/ PrevOrEq(k)

Next == Return \/ (answer = NoAnswer /\ Call)

Spec == Init /\ [][Next]_<<keys, answer>>
=============================================================================
