----------------------------- MODULE HierBitmap -----------------------------
(***************************************************************************)
(* The three-layer bitmap of ticks/bitmap.rs.  A word is the set of its    *)
(* set bits.  layer0 holds the keys; a bit of layer1 says that a layer0    *)
(* word is not empty, and a bit of layer2 says that of a layer1 word, so a *)
(* search touches one word per layer.  It implements KeySet.               *)
(***************************************************************************)
EXTENDS BitmapWords

VARIABLES
  layer0, layer1, layer2,
  reply   \* the last call and its result, as in KeySet

bitmapVars == <<layer0, layer1, layer2, reply>>

Lowest(word)  == CHOOSE b \in word : \A c \in word : b <= c
Highest(word) == CHOOSE b \in word : \A c \in word : c <= b

\* The masks of the searches.
BitsFrom(word, bit)    == {b \in word : b >= bit}
BitsAfter(word, bit)   == {b \in word : b > bit}
BitsThrough(word, bit) == {b \in word : b <= bit}
BitsBefore(word, bit)  == {b \in word : b < bit}

\* Hides the padding bits of the last word.
MakeKey(w, b) == {k \in {w * WordBits + b} : k < Cap}

-----------------------------------------------------------------------------
(* Updates *)

NoReply == <<>>
Replies(call, k, result) == reply' = <<call, k, result>>

\* The caller takes the reply before it calls again.
TakeReply == reply # NoReply /\ reply' = NoReply /\ UNCHANGED <<layer0, layer1, layer2>>

\* Summaries are touched only when a word becomes non-empty.
Set(k) ==
  LET w0 == WordOf(k)
      w1 == WordOf(w0)
      new   == k < Cap /\ BitOf(k) \notin layer0[w0]
      word  == new /\ layer0[w0] = {}
      word1 == word /\ layer1[w1] = {}
  IN  /\ layer0' = IF new THEN [layer0 EXCEPT ![w0] = @ \cup {BitOf(k)}] ELSE layer0
      /\ layer1' = IF word THEN [layer1 EXCEPT ![w1] = @ \cup {BitOf(w0)}] ELSE layer1
      /\ layer2' = IF word1 THEN layer2 \cup {w1} ELSE layer2
      /\ Replies("set", k, IF new THEN {k} ELSE {})

\* Mutant: the summaries of a word that becomes empty are not cleared.
RemoveKey_StaleSummary(k) ==
  LET old == k < Cap /\ BitOf(k) \in layer0[WordOf(k)]
  IN  /\ layer0' = IF old THEN [layer0 EXCEPT ![WordOf(k)] = @ \ {BitOf(k)}] ELSE layer0
      /\ Replies("remove", k, IF old THEN {k} ELSE {})
      /\ UNCHANGED <<layer1, layer2>>

\* ... and cleared only when one becomes empty.
RemoveKey(k) ==
  LET w0 == WordOf(k)
      w1 == WordOf(w0)
      old   == k < Cap /\ BitOf(k) \in layer0[w0]
      word  == old /\ layer0[w0] = {BitOf(k)}
      word1 == word /\ layer1[w1] = {BitOf(w0)}
  IN  /\ layer0' = IF old THEN [layer0 EXCEPT ![w0] = @ \ {BitOf(k)}] ELSE layer0
      /\ layer1' = IF word THEN [layer1 EXCEPT ![w1] = @ \ {BitOf(w0)}] ELSE layer1
      /\ layer2' = IF word1 THEN layer2 \ {w1} ELSE layer2
      /\ Replies("remove", k, IF old THEN {k} ELSE {})

-----------------------------------------------------------------------------
(* Searches *)

\* Mutant: the search goes on in the middle layer at the word it has left.
NextFrom_SameWord(start) ==
  IF start >= Cap THEN {}
  ELSE LET w0    == WordOf(start)
           leaf  == BitsFrom(layer0[w0], BitOf(start))
           mid   == BitsFrom(layer1[WordOf(w0)], BitOf(w0))
           found == WordOf(w0) * WordBits + Lowest(mid)
       IN  IF leaf # {} THEN MakeKey(w0, Lowest(leaf))
           ELSE IF mid # {} /\ layer0[found] # {} THEN MakeKey(found, Lowest(layer0[found]))
           ELSE {}

\* next_from: the leaf word, then its middle word, then the top word.
NextFrom(start) ==
  LET w0   == WordOf(start)
      w1   == WordOf(w0)
      leaf == BitsFrom(layer0[w0], BitOf(start))
      mid  == BitsAfter(layer1[w1], BitOf(w0))
      top  == BitsAfter(layer2, w1)
      \* The first key of the first leaf of a middle word's candidates.
      firstOf(i, cands) ==
        LET w == i * WordBits + Lowest(cands) IN MakeKey(w, Lowest(layer0[w]))
  IN  CASE start >= Cap -> {}
        [] start < Cap /\ leaf # {} -> MakeKey(w0, Lowest(leaf))
        [] start < Cap /\ leaf = {} /\ mid # {} -> firstOf(w1, mid)
        [] start < Cap /\ leaf = {} /\ mid = {} /\ top # {}
             -> firstOf(Lowest(top), layer1[Lowest(top)])
        [] OTHER -> {}

\* prev_from, the mirror image.
PrevFrom(start) ==
  LET w0   == WordOf(start)
      w1   == WordOf(w0)
      leaf == BitsThrough(layer0[w0], BitOf(start))
      mid  == BitsBefore(layer1[w1], BitOf(w0))
      top  == BitsBefore(layer2, w1)
      lastOf(i, cands) ==
        LET w == i * WordBits + Highest(cands) IN MakeKey(w, Highest(layer0[w]))
  IN  CASE start >= Cap -> {}
        [] start < Cap /\ leaf # {} -> MakeKey(w0, Highest(leaf))
        [] start < Cap /\ leaf = {} /\ mid # {} -> lastOf(w1, mid)
        [] start < Cap /\ leaf = {} /\ mid = {} /\ top # {}
             -> lastOf(Highest(top), layer1[Highest(top)])
        [] OTHER -> {}

AtMost(k) == IF k < Cap THEN k ELSE Cap - 1

Contains(k) ==
  /\ Replies("contains", k, IF k < Cap /\ BitOf(k) \in layer0[WordOf(k)] THEN {k} ELSE {})
  /\ UNCHANGED <<layer0, layer1, layer2>>

NextOf(k)   == Replies("next", k, NextFrom(k + 1)) /\ UNCHANGED <<layer0, layer1, layer2>>
NextOrEq(k) == Replies("next or eq", k, NextFrom(k)) /\ UNCHANGED <<layer0, layer1, layer2>>

PrevOf(k) ==
  /\ Replies("prev", k, IF k = 0 \/ Cap = 0 THEN {} ELSE PrevFrom(AtMost(k - 1)))
  /\ UNCHANGED <<layer0, layer1, layer2>>

PrevOrEq(k) ==
  /\ Replies("prev or eq", k, IF Cap = 0 THEN {} ELSE PrevFrom(AtMost(k)))
  /\ UNCHANGED <<layer0, layer1, layer2>>

-----------------------------------------------------------------------------
BitmapInit ==
  /\ layer0 = [w \in Words0 |-> {}]
  /\ layer1 = [w \in Words1 |-> {}]
  /\ layer2 = {}
  /\ reply = NoReply

BitmapCall ==
  \E k \in AllKeys :
    \/ Set(k) \/ RemoveKey(k) \/ Contains(k)
    \/ NextOf(k) \/ NextOrEq(k) \/ PrevOf(k) \/ PrevOrEq(k)

BitmapNext == TakeReply \/ (reply = NoReply /\ BitmapCall)

BitmapSpec == BitmapInit /\ [][BitmapNext]_bitmapVars

-----------------------------------------------------------------------------
\* Each summary bit is set exactly when the word it stands for is not empty,
\* so no search can be sent to an empty word or past a key.
SummariesExact ==
  /\ layer0 \in [Words0 -> SUBSET Bits]
  /\ \A w \in Words1 : layer1[w] = {b \in Bits : /\ w * WordBits + b \in Words0
                                                 /\ layer0[w * WordBits + b] # {}}
  /\ layer2 = {w \in Words1 : layer1[w] # {}}

\* The keys the leaves hold.
Stored == {k \in 0 .. Cap - 1 : BitOf(k) \in layer0[WordOf(k)]}

\* Every change and every search of the three layers is one of the flat set:
\* no key is skipped at a word boundary of any layer, none appears twice.
Flat == INSTANCE KeySet WITH keys <- Stored, answer <- reply
ImplementsKeySet == Flat!Spec
=============================================================================
