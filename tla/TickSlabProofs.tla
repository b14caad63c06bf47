--------------------------- MODULE TickSlabProofs ---------------------------
(* Proofs about the paged tick storage, for any number of pages, slots, slab *)
(* keys and tick infos: its structure, and that it implements the ordered    *)
(* map the pool is promised.                                                 *)
EXTENDS TickSlab, BasicLemmas

-----------------------------------------------------------------------------
(* Neighbours *)

\* The neighbours of a page in a set of pages, without choosing them.
PrevIn(B, p) == {q \in B : q < p /\ \A r \in B : r < p => r <= q}
NextIn(B, p) == {q \in B : q > p /\ \A r \in B : r > p => r >= q}

\* A bounded, non-empty set of page indexes has a least and a greatest one.
LEMMA MinMax ==
  ASSUME NEW m \in Nat, NEW S \in SUBSET (0 .. m), S # {}
  PROVE  /\ Min(S) \in S /\ \A x \in S : Min(S) <= x
         /\ Max(S) \in S /\ \A x \in S : x <= Max(S)
<1>1. PICK lo \in S : \A x \in S : lo <= x
  BY LeastNatural
<1> DEFINE T == {m - b : b \in S}
<1>2. T \in SUBSET Nat /\ T # {}
  <2>1. PICK b \in S : TRUE
    OBVIOUS
  <2>2. m - b \in T
    BY <2>1
  <2>3. \A c \in S : m - c \in Nat
    OBVIOUS
  <2> QED BY <2>2, <2>3
<1>3. PICK n \in T : \A c \in T : n <= c
  BY <1>2, LeastNatural
<1>4. PICK hi \in S : n = m - hi
  BY <1>3
<1>5. ASSUME NEW b \in S PROVE b <= hi
  <2>1. m - hi <= m - b
    BY <1>3, <1>4
  <2> QED BY <2>1
<1>6. Min(S) \in S /\ \A x \in S : Min(S) <= x
  BY <1>1 DEF Min
<1>7. \A x \in S : hi >= x
  BY <1>5
<1>8. Max(S) \in S /\ \A x \in S : Max(S) >= x
  BY <1>7 DEF Max
<1> QED BY <1>6, <1>8

\* The pages found in the bitmap are the neighbours.
LEMMA Neighbour ==
  ASSUME NEW B \in SUBSET PageIdxs, NEW p \in Nat
  PROVE  /\ Some({q \in B : q < p}, Max) = PrevIn(B, p)
         /\ Some({q \in B : q > p}, Min) = NextIn(B, p)
<1> DEFINE below == {q \in B : q < p}
           above == {q \in B : q > p}
<1>1. /\ Pages - 1 \in Nat /\ p \in Nat /\ B \in SUBSET Nat
      /\ below \in SUBSET (0 .. Pages - 1) /\ above \in SUBSET (0 .. Pages - 1)
  <2>1. Pages \in Nat /\ Pages - 1 \in Nat /\ PageIdxs \subseteq Nat
    BY PageAssumption DEF PageIdxs
  <2>2. below \subseteq PageIdxs /\ above \subseteq PageIdxs
    OBVIOUS
  <2> HIDE DEF below, above
  <2> QED BY <2>1, <2>2 DEF PageIdxs
<1>2. /\ PrevIn(B, p) \in SUBSET below /\ NextIn(B, p) \in SUBSET above
      /\ \A x \in below : x \in PrevIn(B, p) <=> \A r \in below : r <= x
      /\ \A x \in above : x \in NextIn(B, p) <=> \A r \in above : x <= r
  BY <1>1 DEF PrevIn, NextIn
<1>3. Some(below, Max) = PrevIn(B, p)
  <2> HIDE DEF below
  <2>1. CASE below = {}
    BY <1>2, <2>1 DEF Some
  <2>2. CASE below # {}
    <3>1. Max(below) \in below /\ \A x \in below : x <= Max(below)
      BY <1>1, <2>2, MinMax
    <3>2. \A x \in below : x \in Nat
      BY <1>1
    <3>3. \A x \in PrevIn(B, p) : x = Max(below)
      BY <1>2, <3>1, <3>2
    <3>4. Max(below) \in PrevIn(B, p)
      BY <1>2, <3>1
    <3>5. PrevIn(B, p) = {Max(below)}
      BY <3>3, <3>4
    <3> QED BY <2>2, <3>5 DEF Some
  <2> QED BY <2>1, <2>2
<1>4. Some(above, Min) = NextIn(B, p)
  <2> HIDE DEF above
  <2>1. CASE above = {}
    BY <1>2, <2>1 DEF Some
  <2>2. CASE above # {}
    <3>1. Min(above) \in above /\ \A x \in above : Min(above) <= x
      BY <1>1, <2>2, MinMax
    <3>2. \A x \in above : x \in Nat
      BY <1>1
    <3>3. \A x \in NextIn(B, p) : x = Min(above)
      BY <1>2, <3>1, <3>2
    <3>4. Min(above) \in NextIn(B, p)
      BY <1>2, <3>1
    <3>5. NextIn(B, p) = {Min(above)}
      BY <3>3, <3>4
    <3> QED BY <2>2, <3>5 DEF Some
  <2> QED BY <2>1, <2>2
<1> QED BY <1>3, <1>4

\* A new page comes between its neighbours.
LEMMA NeighboursWith ==
  ASSUME NEW B \in SUBSET Nat, NEW p \in Nat, p \notin B
  PROVE  /\ PrevIn(B \cup {p}, p) = PrevIn(B, p) /\ NextIn(B \cup {p}, p) = NextIn(B, p)
         /\ \A q \in B :
              /\ NextIn(B \cup {p}, q) = IF q \in PrevIn(B, p) THEN {p} ELSE NextIn(B, q)
              /\ PrevIn(B \cup {p}, q) = IF q \in NextIn(B, p) THEN {p} ELSE PrevIn(B, q)
<1> DEFINE C == B \cup {p}
<1>1. C \in SUBSET Nat /\ \A x \in Nat : x \in C <=> x \in B \/ x = p
  OBVIOUS
<1> HIDE DEF C
<1>0. \A D \in SUBSET Nat, x \in Nat : PrevIn(D, x) \in SUBSET Nat /\ NextIn(D, x) \in SUBSET Nat
  BY DEF PrevIn, NextIn
<1>2. PrevIn(C, p) = PrevIn(B, p) /\ NextIn(C, p) = NextIn(B, p)
  <2>1. ASSUME NEW x \in Nat
        PROVE  (x \in PrevIn(C, p) <=> x \in PrevIn(B, p)) /\ (x \in NextIn(C, p) <=> x \in NextIn(B, p))
    BY <1>1 DEF PrevIn, NextIn
  <2> QED BY <1>0, <1>1, <2>1
<1>3. ASSUME NEW q \in B
      PROVE  NextIn(C, q) = IF q \in PrevIn(B, p) THEN {p} ELSE NextIn(B, q)
  <2>1. CASE q \in PrevIn(B, p)
    <3>1. q < p /\ \A r \in B : r > q => r > p
      BY <2>1 DEF PrevIn
    <3>2. ASSUME NEW x \in Nat PROVE x \in NextIn(C, q) <=> x = p
      BY <1>1, <3>1 DEF NextIn
    <3> QED BY <1>0, <1>1, <2>1, <3>2
  <2>2. CASE q \notin PrevIn(B, p)
    <3>1. q > p \/ \E r \in B : q < r /\ r < p
      BY <2>2 DEF PrevIn
    <3>2. ASSUME NEW x \in Nat PROVE x \in NextIn(C, q) <=> x \in NextIn(B, q)
      BY <1>1, <3>1 DEF NextIn
    <3> QED BY <1>0, <1>1, <2>2, <3>2
  <2> QED BY <2>1, <2>2
<1>4. ASSUME NEW q \in B
      PROVE  PrevIn(C, q) = IF q \in NextIn(B, p) THEN {p} ELSE PrevIn(B, q)
  <2>1. CASE q \in NextIn(B, p)
    <3>1. q > p /\ \A r \in B : r < q => r < p
      BY <2>1 DEF NextIn
    <3>2. ASSUME NEW x \in Nat PROVE x \in PrevIn(C, q) <=> x = p
      BY <1>1, <3>1 DEF PrevIn
    <3> QED BY <1>0, <1>1, <2>1, <3>2
  <2>2. CASE q \notin NextIn(B, p)
    <3>1. q < p \/ \E r \in B : p < r /\ r < q
      BY <2>2 DEF NextIn
    <3>2. ASSUME NEW x \in Nat PROVE x \in PrevIn(C, q) <=> x \in PrevIn(B, q)
      BY <1>1, <3>1 DEF PrevIn
    <3> QED BY <1>0, <1>1, <2>2, <3>2
  <2> QED BY <2>1, <2>2
<1> QED BY <1>2, <1>3, <1>4 DEF C

\* A freed page leaves its neighbours next to each other.
LEMMA NeighboursWithout ==
  ASSUME NEW B \in SUBSET Nat, NEW p \in B, NEW q \in B \ {p}
  PROVE  /\ NextIn(B \ {p}, q) = IF q \in PrevIn(B, p) THEN NextIn(B, p) ELSE NextIn(B, q)
         /\ PrevIn(B \ {p}, q) = IF q \in NextIn(B, p) THEN PrevIn(B, p) ELSE PrevIn(B, q)
<1> DEFINE C == B \ {p}
<1>1. q \in B /\ q # p /\ C \in SUBSET Nat /\ \A x \in Nat : x \in C <=> x \in B /\ x # p
  OBVIOUS
<1> HIDE DEF C
<1>0. \A D \in SUBSET Nat, x \in Nat : PrevIn(D, x) \in SUBSET Nat /\ NextIn(D, x) \in SUBSET Nat
  BY DEF PrevIn, NextIn
<1>2. NextIn(C, q) = IF q \in PrevIn(B, p) THEN NextIn(B, p) ELSE NextIn(B, q)
  <2>1. CASE q \in PrevIn(B, p)
    <3>1. q < p /\ \A r \in B : r > q /\ r # p => r > p
      BY <2>1 DEF PrevIn
    <3>2. ASSUME NEW x \in Nat PROVE x \in NextIn(C, q) <=> x \in NextIn(B, p)
      BY <1>1, <3>1 DEF NextIn
    <3> QED BY <1>0, <1>1, <2>1, <3>2
  <2>2. CASE q \notin PrevIn(B, p)
    <3>1. q > p \/ \E r \in B : q < r /\ r < p
      BY <1>1, <2>2 DEF PrevIn
    <3>2. ASSUME NEW x \in Nat PROVE x \in NextIn(C, q) <=> x \in NextIn(B, q)
      BY <1>1, <3>1 DEF NextIn
    <3> QED BY <1>0, <1>1, <2>2, <3>2
  <2> QED BY <2>1, <2>2
<1>3. PrevIn(C, q) = IF q \in NextIn(B, p) THEN PrevIn(B, p) ELSE PrevIn(B, q)
  <2>1. CASE q \in NextIn(B, p)
    <3>1. q > p /\ \A r \in B : r < q /\ r # p => r < p
      BY <2>1 DEF NextIn
    <3>2. ASSUME NEW x \in Nat PROVE x \in PrevIn(C, q) <=> x \in PrevIn(B, p)
      BY <1>1, <3>1 DEF PrevIn
    <3> QED BY <1>0, <1>1, <2>1, <3>2
  <2>2. CASE q \notin NextIn(B, p)
    <3>1. q < p \/ \E r \in B : p < r /\ r < q
      BY <1>1, <2>2 DEF NextIn
    <3>2. ASSUME NEW x \in Nat PROVE x \in PrevIn(C, q) <=> x \in PrevIn(B, q)
      BY <1>1, <3>1 DEF PrevIn
    <3> QED BY <1>0, <1>1, <2>2, <3>2
  <2> QED BY <2>1, <2>2
<1> QED BY <1>2, <1>3 DEF C

-----------------------------------------------------------------------------
(* Pages, cache and links stay consistent *)

SlabInv == TypeOK /\ PagesAgree /\ LinksFollowOrder

\* The invariant with the neighbours of each page spelt out, for a store.
Linked(B, ca, va) ==
  \A p \in B : va[ca[p]].prev = PrevIn(B, p) /\ va[ca[p]].next = NextIn(B, p)

\* The links in the form the steps are proved in, in this state,
LEMMA LinkedNow == TypeOK => (LinksFollowOrder <=> Linked(bitmap, cache, values))
<1> SUFFICES ASSUME TypeOK PROVE LinksFollowOrder <=> Linked(bitmap, cache, values)
  OBVIOUS
<1>1. ASSUME NEW p \in bitmap
      PROVE  PrevPage(p) = PrevIn(bitmap, p) /\ NextPage(p) = NextIn(bitmap, p)
  <2>1. p \in Nat /\ bitmap \in SUBSET PageIdxs
    BY PageAssumption DEF TypeOK, PageIdxs
  <2> QED BY <2>1, Neighbour DEF PrevPage, NextPage
<1> QED BY <1>1 DEF LinksFollowOrder, Linked, PageAt

\* and in the next.
LEMMA LinkedThen == TypeOK' => (LinksFollowOrder' <=> Linked(bitmap', cache', values'))
<1> SUFFICES ASSUME TypeOK' PROVE LinksFollowOrder' <=> Linked(bitmap', cache', values')
  OBVIOUS
<1>1. ASSUME NEW p \in bitmap'
      PROVE  PrevPage(p)' = PrevIn(bitmap', p) /\ NextPage(p)' = NextIn(bitmap', p)
  <2>1. p \in Nat /\ bitmap' \in SUBSET PageIdxs
    BY PageAssumption DEF TypeOK, PageIdxs
  <2> QED BY <2>1, Neighbour DEF PrevPage, NextPage
<1> QED BY <1>1 DEF LinksFollowOrder, Linked, PageAt

\* A key has a page number and a slot in its page.
LEMMA KeyPlace ==
  ASSUME NEW k \in TickKeys
  PROVE  PageOf(k) \in Nat /\ SlotOf(k) \in Slots
<1>1. PageSize \in Nat /\ PageSize > 0
  BY PageAssumption
<1>2. k \in Nat
  BY DEF TickKeys
<1>3. k \div PageSize \in Nat /\ k % PageSize \in 0 .. PageSize - 1
  BY <1>1, <1>2, DivLower, Remainder
<1> QED BY <1>3 DEF PageOf, SlotOf, Slots

\* The pages in use, as the invariant has them.
LEMMA PagesInUse ==
  ASSUME SlabInv
  PROVE  /\ bitmap \subseteq PageIdxs /\ PageIdxs \subseteq Nat
         /\ \A p \in PageIdxs : HasPage(p) <=> p \in bitmap
         /\ \A p \in bitmap : /\ cache[p] \in DOMAIN values /\ cache[p] \in SlabKeys
                              /\ values[cache[p]] \in PageValues
         /\ \A key \in DOMAIN values : values[key].map # {} /\ values[key] \in PageValues
         /\ \A p, q \in bitmap : cache[p] = cache[q] => p = q
         /\ \A p : HasPage(p) => p \in bitmap
<1>1. PageIdxs \subseteq Nat
  BY PageAssumption DEF PageIdxs
<1> QED BY <1>1 DEF SlabInv, TypeOK, PagesAgree, HasPage, PageAt

\* Changes of payloads only.
LEMMA PayloadChange ==
  ASSUME SlabInv, UNCHANGED <<bitmap, cache>>, DOMAIN values' = DOMAIN values,
         \A key \in DOMAIN values :
           /\ values'[key] \in PageValues /\ values'[key].map # {}
           /\ values'[key].prev = values[key].prev /\ values'[key].next = values[key].next
  PROVE  SlabInv'
<1>1. TypeOK'
  BY DEF SlabInv, TypeOK
<1>2. PagesAgree'
  BY PagesInUse DEF SlabInv, PagesAgree, PageAt
<1>3. Linked(bitmap', cache', values')
  BY PagesInUse, LinkedNow DEF SlabInv, Linked
<1> QED BY <1>1, <1>2, <1>3, LinkedThen DEF SlabInv

\* Queries and rejected calls.
LEMMA StoreUnchanged ==
  ASSUME SlabInv, UNCHANGED store
  PROVE  SlabInv'
BY DEF store, SlabInv, TypeOK, PagesAgree, LinksFollowOrder, PageAt, PrevPage, NextPage

\* A tick goes into a page that exists.
LEMMA InsertInPageKeeps ==
  ASSUME SlabInv, NEW k \in TickKeys, NEW info \in Infos, InsertInPage(k, info)
  PROVE  SlabInv'
<1> DEFINE c == cache[PageOf(k)]
           s == SlotOf(k)
<1>1. c \in DOMAIN values /\ values' = [values EXCEPT ![c] = WithTick(@, s, info)]
  BY PagesInUse DEF InsertInPage
<1>2. s \in Slots /\ values[c] \in PageValues /\ values[c].map # {}
  BY <1>1, KeyPlace, PagesInUse
<1>3. /\ WithTick(values[c], s, info) \in PageValues /\ WithTick(values[c], s, info).map # {}
      /\ WithTick(values[c], s, info).prev = values[c].prev
      /\ WithTick(values[c], s, info).next = values[c].next
  BY <1>2 DEF WithTick, PageValues
<1> HIDE DEF c, s
<1> QED BY <1>1, <1>2, <1>3, PagesInUse, PayloadChange DEF InsertInPage

\* A tick gets a new payload.
LEMMA UpdateKeeps ==
  ASSUME SlabInv, NEW k \in TickKeys, NEW info \in Infos, Update(k, info)
  PROVE  SlabInv'
<1> DEFINE c == cache[PageOf(k)]
           s == SlotOf(k)
<1>1. CASE ~Present(k)
  BY <1>1, StoreUnchanged DEF Update, store
<1>2. CASE Present(k)
  <2>1. c \in DOMAIN values /\ values' = [values EXCEPT ![c].slots[s] = info]
    BY <1>2, PagesInUse DEF Update, Present
  <2>2. s \in Slots /\ values[c] \in PageValues /\ values[c].map # {}
    BY <2>1, KeyPlace, PagesInUse
  <2> DEFINE page == [values[c] EXCEPT !.slots[s] = info]
  <2>3. /\ page \in PageValues /\ page.map # {}
        /\ page.prev = values[c].prev /\ page.next = values[c].next
    BY <2>2 DEF PageValues
  <2>4. values' = [values EXCEPT ![c] = page]
    BY <2>1
  <2> HIDE DEF c, s, page
  <2> QED BY <2>1, <2>3, <2>4, PagesInUse, PayloadChange DEF Update
<1> QED BY <1>1, <1>2

\* Linking pages in and out changes the links it names and nothing else.
LEMMA Relinked ==
  ASSUME SlabInv, NEW prev \in SUBSET bitmap, NEW next \in SUBSET bitmap,
         NEW newNext \in SUBSET PageIdxs, NEW newPrev \in SUBSET PageIdxs
  PROVE  LET linked == Relink(values, prev, next, newNext, newPrev)
         IN  /\ DOMAIN linked = DOMAIN values
             /\ \A q \in bitmap :
                  /\ linked[cache[q]] \in PageValues
                  /\ linked[cache[q]].map = values[cache[q]].map
                  /\ linked[cache[q]].slots = values[cache[q]].slots
                  /\ linked[cache[q]].next = IF q \in prev THEN newNext ELSE values[cache[q]].next
                  /\ linked[cache[q]].prev = IF q \in next THEN newPrev ELSE values[cache[q]].prev
<1> DEFINE linked == Relink(values, prev, next, newNext, newPrev)
<1>1. DOMAIN linked = DOMAIN values
  BY DEF Relink
<1>2. ASSUME NEW q \in bitmap
      PROVE  /\ linked[cache[q]] \in PageValues
             /\ linked[cache[q]].map = values[cache[q]].map
             /\ linked[cache[q]].slots = values[cache[q]].slots
             /\ linked[cache[q]].next = IF q \in prev THEN newNext ELSE values[cache[q]].next
             /\ linked[cache[q]].prev = IF q \in next THEN newPrev ELSE values[cache[q]].prev
  <2>1. cache[q] \in DOMAIN values /\ values[cache[q]] \in PageValues
    BY PagesInUse
  <2>2. /\ (\E r \in prev : cache[r] = cache[q]) <=> q \in prev
        /\ (\E r \in next : cache[r] = cache[q]) <=> q \in next
    BY PagesInUse
  <2>3. linked[cache[q]] = [values[cache[q]] EXCEPT
                              !.next = IF q \in prev THEN newNext ELSE @,
                              !.prev = IF q \in next THEN newPrev ELSE @]
    BY <2>1, <2>2 DEF Relink
  <2> HIDE DEF linked
  <2> QED BY <2>1, <2>3 DEF PageValues
<1> QED BY <1>1, <1>2

\* A page is linked in between its neighbours.
LEMMA InsertNewPageKeeps ==
  ASSUME SlabInv, NEW k \in TickKeys, NEW info \in Infos, NEW key \in SlabKeys,
         InsertNewPage(k, info, key)
  PROVE  SlabInv'
<1> DEFINE p == PageOf(k)
           prev == PrevIn(bitmap, p)
           next == NextIn(bitmap, p)
           page == WithTick(EmptyPage(prev, next), SlotOf(k), info)
           linked == Relink(values, prev, next, {p}, {p})
<1>1. /\ p \in PageIdxs /\ p \in Nat /\ p \notin bitmap /\ bitmap \in SUBSET Nat
      /\ key \in SlabKeys /\ key \notin DOMAIN values /\ SlotOf(k) \in Slots
  BY PagesInUse, KeyPlace DEF InsertNewPage
<1>2. PrevPage(p) = prev /\ NextPage(p) = next
  BY <1>1, PagesInUse, Neighbour DEF PrevPage, NextPage
<1>3. /\ values' = [j \in DOMAIN values \cup {key} |-> IF j = key THEN page ELSE linked[j]]
      /\ cache' = [cache EXCEPT ![p] = key] /\ bitmap' = bitmap \cup {p}
  BY <1>2 DEF InsertNewPage, Neighbours
<1>4. prev \in SUBSET bitmap /\ next \in SUBSET bitmap /\ {p} \in SUBSET PageIdxs
  BY <1>1 DEF PrevIn, NextIn
<1>5. /\ page \in PageValues /\ page.map # {} /\ page.prev = prev /\ page.next = next
  <2> HIDE DEF prev, next
  <2> QED BY <1>1, <1>4, PagesInUse DEF EmptyPage, WithTick, PageValues
<1>6. /\ DOMAIN linked = DOMAIN values
      /\ \A q \in bitmap :
           /\ linked[cache[q]] \in PageValues
           /\ linked[cache[q]].map = values[cache[q]].map
           /\ linked[cache[q]].next = IF q \in prev THEN {p} ELSE values[cache[q]].next
           /\ linked[cache[q]].prev = IF q \in next THEN {p} ELSE values[cache[q]].prev
  BY <1>4, Relinked
<1>7. /\ PrevIn(bitmap \cup {p}, p) = prev /\ NextIn(bitmap \cup {p}, p) = next
      /\ \A q \in bitmap :
           /\ NextIn(bitmap \cup {p}, q) = IF q \in prev THEN {p} ELSE NextIn(bitmap, q)
           /\ PrevIn(bitmap \cup {p}, q) = IF q \in next THEN {p} ELSE PrevIn(bitmap, q)
  BY <1>1, NeighboursWith
<1>8. \A q \in bitmap : /\ values[cache[q]].prev = PrevIn(bitmap, q)
                         /\ values[cache[q]].next = NextIn(bitmap, q)
  BY LinkedNow DEF SlabInv, Linked
<1>9. /\ cache \in [PageIdxs -> SlabKeys \cup {Absent}]
      /\ bitmap = {q \in PageIdxs : cache[q] # Absent}
      /\ DOMAIN values = {cache[q] : q \in bitmap}
      /\ \A q \in bitmap : values[cache[q]].map # {}
  BY DEF SlabInv, TypeOK, PagesAgree, PageAt
<1> HIDE DEF p, prev, next, page, linked
<1>10. /\ cache'[p] = key /\ key # Absent
       /\ \A q \in PageIdxs : q # p => cache'[q] = cache[q]
       /\ \A q \in bitmap : q # p /\ cache[q] # key /\ cache'[q] = cache[q]
       /\ values'[key] = page
       /\ \A q \in bitmap : values'[cache[q]] = linked[cache[q]]
       /\ DOMAIN values' = DOMAIN values \cup {key}
  BY <1>1, <1>3, <1>9, PagesInUse, PageAssumption
<1>11. TypeOK'
  <2>1. \A j \in DOMAIN values' : values'[j] \in PageValues
    BY <1>5, <1>6, <1>9, <1>10
  <2>2. bitmap' \subseteq PageIdxs /\ cache' \in [PageIdxs -> SlabKeys \cup {Absent}]
    BY <1>1, <1>3, <1>9
  <2>3. DOMAIN values' \subseteq SlabKeys
    BY <1>1, <1>10 DEF SlabInv, TypeOK
  <2> QED BY <2>1, <2>2, <2>3 DEF TypeOK
<1>12. PagesAgree'
  <2>1. bitmap' = {q \in PageIdxs : cache'[q] # Absent}
    BY <1>1, <1>3, <1>9, <1>10
  <2>2. DOMAIN values' = {cache'[q] : q \in bitmap'}
    BY <1>3, <1>9, <1>10
  <2>3. \A q, r \in bitmap' : cache'[q] = cache'[r] => q = r
    BY <1>3, <1>10, PagesInUse
  <2>4. \A q \in bitmap' : values'[cache'[q]].map # {}
    BY <1>3, <1>5, <1>6, <1>9, <1>10
  <2> QED BY <2>1, <2>2, <2>3, <2>4 DEF PagesAgree, PageAt
<1>13. Linked(bitmap', cache', values')
  <2>1. ASSUME NEW q \in bitmap
        PROVE  /\ values'[cache'[q]].prev = PrevIn(bitmap', q)
               /\ values'[cache'[q]].next = NextIn(bitmap', q)
    <3>1. values'[cache'[q]] = linked[cache[q]]
      BY <1>10
    <3>2. /\ linked[cache[q]].next = IF q \in prev THEN {p} ELSE NextIn(bitmap, q)
          /\ linked[cache[q]].prev = IF q \in next THEN {p} ELSE PrevIn(bitmap, q)
      BY <1>6, <1>8
    <3>3. /\ NextIn(bitmap', q) = IF q \in prev THEN {p} ELSE NextIn(bitmap, q)
          /\ PrevIn(bitmap', q) = IF q \in next THEN {p} ELSE PrevIn(bitmap, q)
      BY <1>3, <1>7
    <3> QED BY <3>1, <3>2, <3>3
  <2>2. /\ values'[cache'[p]].prev = PrevIn(bitmap', p)
        /\ values'[cache'[p]].next = NextIn(bitmap', p)
    BY <1>3, <1>5, <1>7, <1>10
  <2>3. \A q \in bitmap' : q \in bitmap \/ q = p
    BY <1>3
  <2> QED BY <2>1, <2>2, <2>3 DEF Linked
<1> QED BY <1>11, <1>12, <1>13, LinkedThen DEF SlabInv


\* The last tick of a page takes the page with it and its neighbours meet.
LEMMA FreePageKeeps ==
  ASSUME SlabInv, NEW k \in TickKeys, Remove(k), HasPage(PageOf(k)),
         Frees(WithoutTick(PageAt(PageOf(k)), SlotOf(k)))
  PROVE  SlabInv'
<1> DEFINE p == PageOf(k)
           prev == PrevIn(bitmap, p)
           next == NextIn(bitmap, p)
           linked == Relink(values, prev, next, next, prev)
<1>1. /\ p \in bitmap /\ p \in PageIdxs /\ bitmap \in SUBSET Nat
      /\ SlotOf(k) \in Slots /\ PageAt(p) \in PageValues
  BY PagesInUse, KeyPlace DEF HasPage, PageAt
<1>2. \A q \in bitmap : /\ values[cache[q]].prev = PrevIn(bitmap, q)
                         /\ values[cache[q]].next = NextIn(bitmap, q)
  BY LinkedNow DEF SlabInv, Linked
<1>3. /\ WithoutTick(PageAt(p), SlotOf(k)).prev = prev
      /\ WithoutTick(PageAt(p), SlotOf(k)).next = next
  BY <1>1, <1>2 DEF WithoutTick, PageAt, PageValues
<1>4. /\ values' = [j \in DOMAIN values \ {cache[p]} |-> linked[j]]
      /\ cache' = [cache EXCEPT ![p] = Absent] /\ bitmap' = bitmap \ {p}
  BY <1>3 DEF Remove, Restrict
<1>5. /\ prev \in SUBSET bitmap /\ next \in SUBSET bitmap
      /\ prev \in SUBSET PageIdxs /\ next \in SUBSET PageIdxs
  BY <1>1, PagesInUse DEF PrevIn, NextIn
<1>6. /\ DOMAIN linked = DOMAIN values
      /\ \A q \in bitmap :
           /\ linked[cache[q]] \in PageValues
           /\ linked[cache[q]].map = values[cache[q]].map
           /\ linked[cache[q]].next = IF q \in prev THEN next ELSE values[cache[q]].next
           /\ linked[cache[q]].prev = IF q \in next THEN prev ELSE values[cache[q]].prev
  BY <1>5, Relinked
<1>7. \A q \in bitmap \ {p} :
           /\ NextIn(bitmap \ {p}, q) = IF q \in prev THEN next ELSE NextIn(bitmap, q)
           /\ PrevIn(bitmap \ {p}, q) = IF q \in next THEN prev ELSE PrevIn(bitmap, q)
  BY <1>1, NeighboursWithout
<1>8. /\ cache \in [PageIdxs -> SlabKeys \cup {Absent}]
      /\ bitmap = {q \in PageIdxs : cache[q] # Absent}
      /\ DOMAIN values = {cache[q] : q \in bitmap}
      /\ \A q \in bitmap : values[cache[q]].map # {}
  BY DEF SlabInv, TypeOK, PagesAgree, PageAt
<1> HIDE DEF p, prev, next, linked
<1>9. /\ cache'[p] = Absent
      /\ \A q \in PageIdxs : q # p => cache'[q] = cache[q]
      /\ \A q \in bitmap' : q \in bitmap /\ q # p /\ cache[q] # cache[p]
      /\ \A q \in bitmap' : cache'[q] = cache[q]
      /\ DOMAIN values' = DOMAIN values \ {cache[p]}
  BY <1>1, <1>4, <1>8, PagesInUse
<1>10. \A q \in bitmap' : cache[q] \in DOMAIN values' /\ values'[cache[q]] = linked[cache[q]]
  BY <1>4, <1>8, <1>9
<1>11. DOMAIN values' = {cache'[q] : q \in bitmap'}
  BY <1>4, <1>8, <1>9, <1>10
<1>12. TypeOK'
  <2>1. \A j \in DOMAIN values' : values'[j] \in PageValues
    BY <1>6, <1>9, <1>10, <1>11
  <2>2. bitmap' \subseteq PageIdxs /\ cache' \in [PageIdxs -> SlabKeys \cup {Absent}]
    BY <1>1, <1>4, <1>8
  <2>3. DOMAIN values' \subseteq SlabKeys
    BY <1>9 DEF SlabInv, TypeOK
  <2> QED BY <2>1, <2>2, <2>3 DEF TypeOK
<1>13. PagesAgree'
  <2>1. bitmap' = {q \in PageIdxs : cache'[q] # Absent}
    BY <1>1, <1>4, <1>8, <1>9
  <2>2. \A q, r \in bitmap' : cache'[q] = cache'[r] => q = r
    BY <1>9, PagesInUse
  <2>3. \A q \in bitmap' : values'[cache'[q]].map # {}
    BY <1>6, <1>8, <1>9, <1>10
  <2> QED BY <1>11, <2>1, <2>2, <2>3 DEF PagesAgree, PageAt
<1>14. Linked(bitmap', cache', values')
  <2>1. ASSUME NEW q \in bitmap'
        PROVE  /\ values'[cache'[q]].prev = PrevIn(bitmap', q)
               /\ values'[cache'[q]].next = NextIn(bitmap', q)
    <3>1. values'[cache'[q]] = linked[cache[q]]
      BY <1>9, <1>10
    <3>2. /\ linked[cache[q]].next = IF q \in prev THEN next ELSE NextIn(bitmap, q)
          /\ linked[cache[q]].prev = IF q \in next THEN prev ELSE PrevIn(bitmap, q)
      BY <1>2, <1>6, <1>9
    <3>3. /\ NextIn(bitmap', q) = IF q \in prev THEN next ELSE NextIn(bitmap, q)
          /\ PrevIn(bitmap', q) = IF q \in next THEN prev ELSE PrevIn(bitmap, q)
      BY <1>4, <1>7, <1>9
    <3> QED BY <3>1, <3>2, <3>3
  <2> QED BY <2>1 DEF Linked
<1> QED BY <1>12, <1>13, <1>14, LinkedThen DEF SlabInv

\* A tick goes, with its page when it was the last one.
LEMMA RemoveKeeps ==
  ASSUME SlabInv, NEW k \in TickKeys, Remove(k)
  PROVE  SlabInv'
<1> DEFINE p == PageOf(k)
           page == WithoutTick(PageAt(p), SlotOf(k))
<1>1. CASE ~HasPage(p)
  BY <1>1, StoreUnchanged DEF Remove, store
<1>2. CASE HasPage(p) /\ Frees(page)
  BY <1>2, FreePageKeeps
<1>3. CASE HasPage(p) /\ ~Frees(page)
  <2>1. /\ cache[p] \in DOMAIN values /\ PageAt(p) \in PageValues
        /\ values' = [values EXCEPT ![cache[p]] = page]
        /\ UNCHANGED <<bitmap, cache>>
    BY <1>3, PagesInUse DEF Remove, PageAt
  <2>2. page \in PageValues /\ page.prev = PageAt(p).prev /\ page.next = PageAt(p).next
    BY <2>1 DEF WithoutTick, PageValues
  <2>3. page.map # {}
    BY <1>3 DEF Frees
  <2>4. PageAt(p) = values[cache[p]]
    BY DEF PageAt
  <2> HIDE DEF p, page
  <2> QED BY <2>1, <2>2, <2>3, <2>4, PagesInUse, PayloadChange
<1> QED BY <1>1, <1>2, <1>3

\* A reload numbers the pages anew and recomputes every link.
LEMMA ReloadKeeps ==
  ASSUME SlabInv, Reload
  PROVE  SlabInv'
<1> DEFINE fresh(p) == [slots |-> [s \in Slots |-> IF s \in PageAt(p).map
                                                  THEN PageAt(p).slots[s] ELSE NoInfo],
                        map   |-> PageAt(p).map,
                        prev  |-> PrevPage(p),
                        next  |-> NextPage(p)]
<1>1. PICK keyOf \in [bitmap -> SlabKeys] :
        /\ IsInjective(keyOf)
        /\ values' = [key \in {keyOf[p] : p \in bitmap} |->
                        fresh(CHOOSE p \in bitmap : keyOf[p] = key)]
        /\ cache' = [p \in PageIdxs |-> IF p \in bitmap THEN keyOf[p] ELSE Absent]
        /\ bitmap' = bitmap
  BY DEF Reload
<1>2. \A p, q \in bitmap : keyOf[p] = keyOf[q] => p = q
  BY <1>1 DEF IsInjective
<1>3. ASSUME NEW p \in bitmap
      PROVE  /\ fresh(p) \in PageValues /\ fresh(p).map # {}
             /\ fresh(p).prev = PrevIn(bitmap, p) /\ fresh(p).next = NextIn(bitmap, p)
  <2>1. /\ PageAt(p) \in PageValues /\ PageAt(p).map # {} /\ p \in Nat
        /\ bitmap \in SUBSET PageIdxs
    BY PagesInUse DEF PageAt
  <2>2. PrevPage(p) = PrevIn(bitmap, p) /\ NextPage(p) = NextIn(bitmap, p)
    BY <2>1, Neighbour DEF PrevPage, NextPage
  <2>3. PrevIn(bitmap, p) \in SUBSET PageIdxs /\ NextIn(bitmap, p) \in SUBSET PageIdxs
    BY <2>1 DEF PrevIn, NextIn
  <2> QED BY <2>1, <2>2, <2>3 DEF PageValues
<1> HIDE DEF fresh
<1>4. \A p \in bitmap : (CHOOSE q \in bitmap : keyOf[q] = keyOf[p]) = p
  BY <1>2
<1>5. /\ bitmap \subseteq PageIdxs
      /\ \A p \in bitmap : cache'[p] = keyOf[p] /\ values'[keyOf[p]] = fresh(p)
      /\ DOMAIN values' = {keyOf[p] : p \in bitmap}
      /\ \A p \in PageIdxs : p \notin bitmap => cache'[p] = Absent
      /\ \A p \in bitmap : keyOf[p] # Absent
  <2>1. bitmap \subseteq PageIdxs
    BY PagesInUse
  <2>2. \A p \in bitmap : keyOf[p] \in {keyOf[q] : q \in bitmap}
    OBVIOUS
  <2>3. ASSUME NEW p \in bitmap PROVE values'[keyOf[p]] = fresh(p)
    <3>1. values'[keyOf[p]] = fresh(CHOOSE q \in bitmap : keyOf[q] = keyOf[p])
      BY <1>1, <2>2
    <3> QED BY <1>4, <3>1
  <2>4. DOMAIN values' = {keyOf[p] : p \in bitmap}
    BY <1>1
  <2>5. \A p \in PageIdxs : cache'[p] = IF p \in bitmap THEN keyOf[p] ELSE Absent
    BY <1>1
  <2>6. \A p \in bitmap : keyOf[p] # Absent
    BY PageAssumption
  <2> QED BY <2>1, <2>3, <2>4, <2>5, <2>6
<1>6. TypeOK'
  <2>1. \A key \in DOMAIN values' : values'[key] \in PageValues
    BY <1>3, <1>5
  <2>2. cache' \in [PageIdxs -> SlabKeys \cup {Absent}] /\ DOMAIN values' \subseteq SlabKeys
    BY <1>1, <1>5
  <2> QED BY <1>1, <1>5, <2>1, <2>2 DEF TypeOK
<1>7. PagesAgree'
  <2>1. bitmap' = {p \in PageIdxs : cache'[p] # Absent}
    BY <1>1, <1>5
  <2>2. DOMAIN values' = {cache'[p] : p \in bitmap'}
    BY <1>1, <1>5
  <2>3. \A p, q \in bitmap' : cache'[p] = cache'[q] => p = q
    BY <1>1, <1>2, <1>5
  <2>4. \A p \in bitmap' : values'[cache'[p]].map # {}
    BY <1>1, <1>3, <1>5
  <2> QED BY <2>1, <2>2, <2>3, <2>4 DEF PagesAgree, PageAt
<1>8. Linked(bitmap', cache', values')
  <2>1. ASSUME NEW p \in bitmap'
        PROVE  /\ values'[cache'[p]].prev = PrevIn(bitmap', p)
               /\ values'[cache'[p]].next = NextIn(bitmap', p)
    <3>1. p \in bitmap /\ values'[cache'[p]] = fresh(p)
      BY <1>1, <1>5
    <3> QED BY <1>1, <1>3, <3>1
  <2> QED BY <2>1 DEF Linked
<1> QED BY <1>6, <1>7, <1>8, LinkedThen DEF SlabInv

\* The empty store.
LEMMA InitSlab == Init => SlabInv
<1> SUFFICES ASSUME Init PROVE SlabInv
  OBVIOUS
<1>1. TypeOK
  BY DEF Init, TypeOK
<1>2. PagesAgree
  BY DEF Init, PagesAgree
<1>3. LinksFollowOrder
  BY DEF Init, LinksFollowOrder
<1> QED BY <1>1, <1>2, <1>3 DEF SlabInv

\* Every step keeps pages, cache and links in step.
LEMMA NextKeepsSlab == SlabInv /\ [Next]_vars => SlabInv'
<1> SUFFICES ASSUME SlabInv, [Next]_vars PROVE SlabInv'
  OBVIOUS
<1>1. CASE UNCHANGED vars
  BY <1>1, StoreUnchanged DEF vars, store
<1>2. CASE Return
  BY <1>2, StoreUnchanged DEF Return
<1>3. ASSUME NEW k \in TickKeys, NEW info \in Infos,
             \/ InsertInPage(k, info)
             \/ \E key \in SlabKeys : InsertNewPage(k, info, key)
             \/ Update(k, info)
      PROVE  SlabInv'
  BY <1>3, InsertInPageKeeps, InsertNewPageKeeps, UpdateKeeps
<1>4. ASSUME NEW k \in TickKeys, InsertOutside(k) \/ Remove(k) \/ Get(k)
      PROVE  SlabInv'
  BY <1>4, RemoveKeeps, StoreUnchanged DEF InsertOutside, Get
<1>5. ASSUME NEW k \in TickKeys, NEW zeroForOne \in BOOLEAN, NextInitializedTick(k, zeroForOne)
      PROVE  SlabInv'
  BY <1>5, StoreUnchanged DEF NextInitializedTick
<1>6. CASE Snapshot
  BY <1>6, StoreUnchanged DEF Snapshot
<1>7. CASE Reload
  BY <1>7, ReloadKeeps
<1> QED BY <1>1, <1>2, <1>3, <1>4, <1>5, <1>6, <1>7 DEF Next, Call

\* They are in step in every reachable state.
LEMMA SlabInvariant == Spec => []SlabInv
<1> QED BY InitSlab, NextKeepsSlab, PTL DEF Spec

\* The slab, the cache and the bitmap hold pages of the right shape.
THEOREM SlabTypeOK == Spec => []TypeOK
<1>1. SlabInv => TypeOK
  BY DEF SlabInv
<1> QED BY <1>1, SlabInvariant, PTL

\* No slab key is leaked, shared or dangling, and no empty page is kept, in a
\* store of any size after any calls of slab.rs.
THEOREM PagesStayInStep == Spec => []PagesAgree
<1>1. SlabInv => PagesAgree
  BY DEF SlabInv
<1> QED BY <1>1, SlabInvariant, PTL

\* The links slab.rs keeps in its pages are the neighbours in the bitmap,
\* whatever pages were inserted, freed and reloaded in whatever order.
THEOREM LinksStayInOrder == Spec => []LinksFollowOrder
<1>1. SlabInv => LinksFollowOrder
  BY DEF SlabInv
<1> QED BY <1>1, SlabInvariant, PTL

-----------------------------------------------------------------------------
(* Keys, pages and slots *)

\* A key is its page and its slot.
LEMMA KeyParts ==
  ASSUME NEW k \in TickKeys
  PROVE  /\ k \in Nat /\ PageOf(k) \in Nat /\ SlotOf(k) \in Slots /\ SlotOf(k) \in Nat
         /\ k = KeyOf(PageOf(k), SlotOf(k))
<1>1. PageSize \in Nat \ {0} /\ k \in Nat
  BY PageAssumption DEF TickKeys
<1>2. k = PageSize * (k \div PageSize) + (k % PageSize) /\ k % PageSize \in 0 .. PageSize - 1
  BY <1>1, Remainder
<1>3. k \div PageSize \in Nat
  BY <1>1, DivLower
<1> DEFINE q == k \div PageSize
           r == k % PageSize
<1>4. q \in Nat /\ k = PageSize * q + r /\ r \in 0 .. PageSize - 1
  BY <1>2, <1>3
<1>5. PageOf(k) = q /\ SlotOf(k) = r
  BY DEF PageOf, SlotOf
<1> HIDE DEF q, r
<1>6. PageSize * q = q * PageSize
  BY <1>1, <1>4
<1> QED BY <1>1, <1>4, <1>5, <1>6 DEF Slots, KeyOf

\* A later page's keys come later.
LEMMA PageOrder ==
  ASSUME NEW p \in Nat, NEW q \in Nat, p < q
  PROVE  /\ p * PageSize \in Nat /\ q * PageSize \in Nat
         /\ p * PageSize + PageSize <= q * PageSize
<1>1. PageSize \in Nat /\ p + 1 \in Nat /\ p + 1 <= q
  BY PageAssumption
<1>2. (p + 1) * PageSize <= q * PageSize
  BY <1>1, Monotone
<1>3. (p + 1) * PageSize = p * PageSize + PageSize
  BY <1>1
<1> QED BY <1>1, <1>2, <1>3, Product

\* Keys are ordered by page, then by slot.
LEMMA KeyOrder ==
  ASSUME NEW p \in Nat, NEW q \in Nat, NEW s \in Slots, NEW t \in Slots
  PROVE  /\ KeyOf(p, s) \in Nat
         /\ p < q => KeyOf(p, s) < KeyOf(q, t)
         /\ p = q => (KeyOf(p, s) < KeyOf(q, t) <=> s < t)
<1>1. /\ PageSize \in Nat /\ s \in 0 .. PageSize - 1 /\ t \in 0 .. PageSize - 1
      /\ p * PageSize \in Nat /\ q * PageSize \in Nat
  BY PageAssumption, Product DEF Slots
<1>2. p < q => p * PageSize + PageSize <= q * PageSize
  BY PageOrder
<1> QED BY <1>1, <1>2 DEF KeyOf

\* ... so that page and slot determine the key.
LEMMA PartsKey ==
  ASSUME NEW p \in PageIdxs, NEW s \in Slots
  PROVE  /\ KeyOf(p, s) \in TickKeys
         /\ PageOf(KeyOf(p, s)) = p /\ SlotOf(KeyOf(p, s)) = s
<1> DEFINE k == KeyOf(p, s)
<1>1. /\ PageSize \in Nat /\ s \in 0 .. PageSize - 1 /\ Pages \in Nat /\ p \in Nat
      /\ p * PageSize \in Nat /\ Pages + 1 \in Nat /\ p < Pages + 1
  BY PageAssumption, Product DEF Slots, PageIdxs
<1>2. p * PageSize + PageSize <= (Pages + 1) * PageSize /\ (Pages + 1) * PageSize \in Nat
  BY <1>1, PageOrder
<1>3. k \in TickKeys
  BY <1>1, <1>2 DEF TickKeys, KeyOf
<1> DEFINE q == PageOf(k)
           t == SlotOf(k)
<1>4. q \in Nat /\ t \in Slots /\ k = KeyOf(q, t)
  BY <1>3, KeyParts
<1>5. ~(q < p) /\ ~(p < q)
  <2> HIDE DEF q, t
  <2>1. \A a, b \in Nat : a = b => ~(a < b)
    OBVIOUS
  <2>2. q < p => KeyOf(q, t) < KeyOf(p, s)
    BY <1>1, <1>4, KeyOrder
  <2>3. p < q => KeyOf(p, s) < KeyOf(q, t)
    BY <1>1, <1>4, KeyOrder
  <2>4. KeyOf(p, s) \in Nat /\ KeyOf(q, t) \in Nat /\ KeyOf(p, s) = KeyOf(q, t)
    BY <1>1, <1>4, KeyOrder
  <2> QED BY <2>1, <2>2, <2>3, <2>4
<1>6. q = p
  BY <1>1, <1>4, <1>5
<1>7. s = t
  <2>1. p * PageSize + s = p * PageSize + t
    BY <1>4, <1>6 DEF KeyOf
  <2>2. s \in Int /\ t \in Int
    BY <1>1, <1>4 DEF Slots
  <2> HIDE DEF q, t
  <2> QED BY <1>1, <2>1, <2>2
<1> QED BY <1>3, <1>6, <1>7

\* The keys the cache has room for are those of its pages.
LEMMA KeyCapacity ==
  ASSUME NEW k \in TickKeys
  PROVE  k < Pages * PageSize <=> PageOf(k) \in PageIdxs
<1> DEFINE q == PageOf(k)
           t == SlotOf(k)
<1>1. k \in Nat /\ q \in Nat /\ t \in Slots /\ k = q * PageSize + t
  BY KeyParts DEF KeyOf
<1>2. /\ PageSize \in Nat /\ Pages \in Nat /\ t \in 0 .. PageSize - 1
      /\ q * PageSize \in Nat /\ Pages * PageSize \in Nat
  BY <1>1, PageAssumption, Product DEF Slots
<1>3. q < Pages => q * PageSize + PageSize <= Pages * PageSize
  BY <1>1, <1>2, PageOrder
<1>4. Pages <= q => Pages * PageSize <= q * PageSize
  BY <1>1, <1>2, Monotone
<1> HIDE DEF q, t
<1>5. k < Pages * PageSize <=> q < Pages
  BY <1>1, <1>2, <1>3, <1>4
<1> QED BY <1>1, <1>2, <1>5 DEF PageIdxs, q

-----------------------------------------------------------------------------
(* The initialized keys *)

\* An initialized key is an occupied slot of a page in use.
LEMMA Occupied ==
  ASSUME SlabInv
  PROVE  /\ \A k \in TickKeys : Present(k) <=> /\ PageOf(k) \in bitmap
                                               /\ SlotOf(k) \in PageAt(PageOf(k)).map
         /\ InitializedKeys = {k \in TickKeys : /\ PageOf(k) \in bitmap
                                                /\ SlotOf(k) \in PageAt(PageOf(k)).map}
         /\ InitializedKeys \in SUBSET TickKeys
<1>1. \A k \in TickKeys : Present(k) <=> /\ PageOf(k) \in bitmap
                                         /\ SlotOf(k) \in PageAt(PageOf(k)).map
  BY PagesInUse DEF Present
<1> QED BY <1>1 DEF InitializedKeys

\* The same, after a step.
LEMMA OccupiedThen ==
  ASSUME SlabInv'
  PROVE  /\ InitializedKeys' = {k \in TickKeys : /\ PageOf(k) \in bitmap'
                                                 /\ SlotOf(k) \in PageAt(PageOf(k))'.map}
         /\ InitializedKeys' \in SUBSET TickKeys
<1>1. \A k \in TickKeys : Present(k)' <=> /\ PageOf(k) \in bitmap'
                                          /\ SlotOf(k) \in PageAt(PageOf(k))'.map
  <2>1. bitmap' = {p \in PageIdxs : cache'[p] # Absent}
    BY DEF SlabInv, PagesAgree
  <2> QED BY <2>1 DEF Present, HasPage
<1> QED BY <1>1 DEF InitializedKeys

\* The keys of a page in use.
LEMMA KeysOfPage ==
  ASSUME SlabInv, NEW p \in bitmap, NEW s \in PageAt(p).map
  PROVE  /\ KeyOf(p, s) \in InitializedKeys /\ s \in Slots
         /\ PageOf(KeyOf(p, s)) = p /\ SlotOf(KeyOf(p, s)) = s
<1>1. p \in PageIdxs /\ s \in Slots
  BY PagesInUse DEF PageAt, PageValues
<1> QED BY <1>1, PartsKey, Occupied

\* The slots of a page have a first and a last one.
LEMMA SlotBounds ==
  ASSUME NEW S \in SUBSET Slots, S # {}
  PROVE  /\ Min(S) \in S /\ \A x \in S : Min(S) <= x
         /\ Max(S) \in S /\ \A x \in S : x <= Max(S)
<1>1. PageSize - 1 \in Nat
  BY PageAssumption
<1> QED BY <1>1, MinMax DEF Slots

-----------------------------------------------------------------------------
(* Neighbour queries *)

\* A key that a search has found to be the nearest is the map's answer.
LEMMA PlainNearest ==
  ASSUME NEW S \in SUBSET Nat
  PROVE  /\ S = {} => Plain!Lowest(S) = {} /\ Plain!Highest(S) = {}
         /\ \A n \in S : (\A j \in S : n <= j) => Plain!Lowest(S) = {n}
         /\ \A n \in S : (\A j \in S : j <= n) => Plain!Highest(S) = {n}
<1>1. S = {} => Plain!Lowest(S) = {} /\ Plain!Highest(S) = {}
  BY DEF Plain!Lowest, Plain!Highest
<1>2. ASSUME NEW n \in S, \A j \in S : n <= j PROVE Plain!Lowest(S) = {n}
  <2>1. ASSUME NEW m \in S, \A j \in S : m <= j PROVE m = n
    <3>1. m <= n /\ n <= m /\ m \in Nat /\ n \in Nat
      BY <1>2, <2>1
    <3> QED BY <3>1
  <2> QED BY <1>2, <2>1 DEF Plain!Lowest
<1>3. ASSUME NEW n \in S, \A j \in S : j <= n PROVE Plain!Highest(S) = {n}
  <2>1. ASSUME NEW m \in S, \A j \in S : j <= m PROVE m = n
    <3>1. m <= n /\ n <= m /\ m \in Nat /\ n \in Nat
      BY <1>3, <2>1
    <3> QED BY <3>1
  <2> QED BY <1>3, <2>1 DEF Plain!Highest
<1> QED BY <1>1, <1>2, <1>3

\* Initialized keys, by page and slot.
LEMMA KeysByPlace ==
  ASSUME SlabInv, NEW j \in InitializedKeys
  PROVE  /\ j \in TickKeys /\ j \in Nat /\ PageOf(j) \in Nat /\ SlotOf(j) \in Slots
         /\ PageOf(j) \in bitmap /\ SlotOf(j) \in PageAt(PageOf(j)).map
         /\ j = KeyOf(PageOf(j), SlotOf(j))
<1>1. /\ j \in TickKeys
      /\ PageOf(j) \in bitmap /\ SlotOf(j) \in PageAt(PageOf(j)).map
  BY Occupied
<1> QED BY <1>1, KeyParts

\* Two keys in order: what decides is the page, then the slot.
LEMMA PlacesInOrder ==
  ASSUME NEW j \in TickKeys, NEW k \in TickKeys
  PROVE  j < k <=> \/ PageOf(j) < PageOf(k)
                   \/ PageOf(j) = PageOf(k) /\ SlotOf(j) < SlotOf(k)
<1>1. /\ PageOf(j) \in Nat /\ SlotOf(j) \in Slots /\ PageOf(k) \in Nat /\ SlotOf(k) \in Slots
      /\ j = KeyOf(PageOf(j), SlotOf(j)) /\ k = KeyOf(PageOf(k), SlotOf(k))
      /\ j \in Nat /\ k \in Nat
  BY KeyParts
<1>2. /\ PageOf(j) < PageOf(k) => j < k
      /\ PageOf(k) < PageOf(j) => k < j
      /\ PageOf(j) = PageOf(k) => (j < k <=> SlotOf(j) < SlotOf(k))
  BY <1>1, KeyOrder
<1> QED BY <1>1, <1>2

\* A page in use, reached by a link or in the bitmap, begins and ends with
\* its first and its last tick.
LEMMA PageEnds ==
  ASSUME SlabInv, NEW q \in bitmap
  PROVE  LET first == KeyOf(q, Min(PageAt(q).map))
             last  == KeyOf(q, Max(PageAt(q).map))
         IN  /\ FirstOf({q}) = {first} /\ LastOf({q}) = {last}
             /\ first \in InitializedKeys /\ PageOf(first) = q
             /\ last \in InitializedKeys /\ PageOf(last) = q
             /\ \A j \in InitializedKeys : PageOf(j) = q => first <= j /\ j <= last
<1> DEFINE lo == Min(PageAt(q).map)
           hi == Max(PageAt(q).map)
<1>1. PageAt(q).map \in SUBSET Slots /\ PageAt(q).map # {} /\ q \in Nat
  BY PagesInUse DEF PageAt, PageValues
<1>2. /\ lo \in PageAt(q).map /\ \A x \in PageAt(q).map : lo <= x
      /\ hi \in PageAt(q).map /\ \A x \in PageAt(q).map : x <= hi
  BY <1>1, SlotBounds
<1>3. Some(PageAt(q).map, Min) = {lo} /\ Some(PageAt(q).map, Max) = {hi}
  BY <1>1 DEF Some
<1> HIDE DEF lo, hi
<1>4. FirstOf({q}) = {KeyOf(q, lo)} /\ LastOf({q}) = {KeyOf(q, hi)}
  BY <1>3 DEF FirstOf, LastOf, KeysIn
<1>5. /\ KeyOf(q, lo) \in InitializedKeys /\ PageOf(KeyOf(q, lo)) = q
      /\ KeyOf(q, hi) \in InitializedKeys /\ PageOf(KeyOf(q, hi)) = q
      /\ SlotOf(KeyOf(q, lo)) = lo /\ SlotOf(KeyOf(q, hi)) = hi
  BY <1>2, KeysOfPage
<1>6. ASSUME NEW j \in InitializedKeys, PageOf(j) = q
      PROVE  KeyOf(q, lo) <= j /\ j <= KeyOf(q, hi)
  <2>1. /\ j \in TickKeys /\ SlotOf(j) \in PageAt(q).map
        /\ KeyOf(q, lo) \in TickKeys /\ KeyOf(q, hi) \in TickKeys
    BY <1>5, <1>6, KeysByPlace
  <2>2. lo <= SlotOf(j) /\ SlotOf(j) <= hi
    BY <1>2, <2>1
  <2>3. /\ lo \in Nat /\ hi \in Nat /\ SlotOf(j) \in Nat
        /\ j \in Nat /\ KeyOf(q, lo) \in Nat /\ KeyOf(q, hi) \in Nat
    BY <2>1, <1>5, KeyParts
  <2>4. ~(j < KeyOf(q, lo)) /\ ~(KeyOf(q, hi) < j)
    <3>1. ~(q < q) /\ ~(SlotOf(j) < lo) /\ ~(hi < SlotOf(j))
      BY <1>1, <2>2, <2>3
    <3>2. /\ j < KeyOf(q, lo) <=> q < q \/ (q = q /\ SlotOf(j) < lo)
          /\ KeyOf(q, hi) < j <=> q < q \/ (q = q /\ hi < SlotOf(j))
      BY <1>5, <1>6, <2>1, PlacesInOrder
    <3> QED BY <3>1, <3>2
  <2> QED BY <2>3, <2>4
<1> QED BY <1>4, <1>5, <1>6 DEF lo, hi

\* The bitmap and the links lead to the first tick of any later page ...
LEMMA FirstBeyond ==
  ASSUME SlabInv, NEW p \in Nat
  PROVE  FirstOf(NextIn(bitmap, p)) = Plain!Lowest({j \in InitializedKeys : PageOf(j) > p})
<1> DEFINE S == {j \in InitializedKeys : PageOf(j) > p}
           above == {q \in bitmap : q > p}
<1>1. /\ bitmap \in SUBSET PageIdxs /\ bitmap \in SUBSET Nat /\ Pages - 1 \in Nat
      /\ above \in SUBSET (0 .. Pages - 1)
  BY PagesInUse, PageAssumption DEF PageIdxs
<1>2. S \in SUBSET Nat /\ \A j \in S : PageOf(j) \in above
  BY KeysByPlace
<1>3. Some(above, Min) = NextIn(bitmap, p)
  BY <1>1, Neighbour
<1>4. CASE above = {}
  <2>1. NextIn(bitmap, p) = {} /\ S = {}
    BY <1>2, <1>3, <1>4 DEF Some
  <2>2. FirstOf({}) = {}
    BY DEF FirstOf
  <2> QED BY <1>2, <2>1, <2>2, PlainNearest
<1>5. CASE above # {}
  <2> DEFINE q == Min(above)
             n == KeyOf(q, Min(PageAt(q).map))
  <2>1. q \in above /\ \A x \in above : q <= x
    BY <1>1, <1>5, MinMax
  <2>2. q \in bitmap /\ q > p /\ NextIn(bitmap, p) = {q}
    BY <1>3, <1>5, <2>1 DEF Some
  <2> HIDE DEF q
  <2>3. /\ FirstOf({q}) = {n} /\ n \in InitializedKeys /\ PageOf(n) = q
        /\ \A j \in InitializedKeys : PageOf(j) = q => n <= j
    BY <2>2, PageEnds
  <2> HIDE DEF n
  <2>4. ASSUME NEW j \in S PROVE n <= j
    <3>1. /\ q <= PageOf(j) /\ q \in Nat /\ PageOf(j) \in Nat
          /\ n \in TickKeys /\ n \in Nat /\ j \in TickKeys /\ j \in Nat
      BY <1>1, <1>2, <2>1, <2>2, <2>3, KeysByPlace
    <3>2. q < PageOf(j) => n < j
      BY <2>3, <3>1, PlacesInOrder
    <3> QED BY <2>3, <3>1, <3>2
  <2>5. n \in S
    BY <2>2, <2>3
  <2>6. Plain!Lowest(S) = {n}
    <3> HIDE DEF S
    <3> QED BY <1>2, <2>4, <2>5, PlainNearest
  <2> QED BY <2>2, <2>3, <2>6
<1> QED BY <1>4, <1>5

\* ... and to the last of any earlier page.
LEMMA LastBelow ==
  ASSUME SlabInv, NEW p \in Nat
  PROVE  LastOf(PrevIn(bitmap, p)) = Plain!Highest({j \in InitializedKeys : PageOf(j) < p})
<1> DEFINE S == {j \in InitializedKeys : PageOf(j) < p}
           below == {q \in bitmap : q < p}
<1>1. /\ bitmap \in SUBSET PageIdxs /\ bitmap \in SUBSET Nat /\ Pages - 1 \in Nat
      /\ below \in SUBSET (0 .. Pages - 1)
  BY PagesInUse, PageAssumption DEF PageIdxs
<1>2. S \in SUBSET Nat /\ \A j \in S : PageOf(j) \in below
  BY KeysByPlace
<1>3. Some(below, Max) = PrevIn(bitmap, p)
  BY <1>1, Neighbour
<1>4. CASE below = {}
  <2>1. PrevIn(bitmap, p) = {} /\ S = {}
    BY <1>2, <1>3, <1>4 DEF Some
  <2>2. LastOf({}) = {}
    BY DEF LastOf
  <2> QED BY <1>2, <2>1, <2>2, PlainNearest
<1>5. CASE below # {}
  <2> DEFINE q == Max(below)
             n == KeyOf(q, Max(PageAt(q).map))
  <2>1. q \in below /\ \A x \in below : x <= q
    BY <1>1, <1>5, MinMax
  <2>2. q \in bitmap /\ q < p /\ PrevIn(bitmap, p) = {q}
    BY <1>3, <1>5, <2>1 DEF Some
  <2> HIDE DEF q
  <2>3. /\ LastOf({q}) = {n} /\ n \in InitializedKeys /\ PageOf(n) = q
        /\ \A j \in InitializedKeys : PageOf(j) = q => j <= n
    BY <2>2, PageEnds
  <2> HIDE DEF n
  <2>4. ASSUME NEW j \in S PROVE j <= n
    <3>1. /\ PageOf(j) <= q /\ q \in Nat /\ PageOf(j) \in Nat
          /\ n \in TickKeys /\ n \in Nat /\ j \in TickKeys /\ j \in Nat
      BY <1>1, <1>2, <2>1, <2>2, <2>3, KeysByPlace
    <3>2. PageOf(j) < q => j < n
      BY <2>3, <3>1, PlacesInOrder
    <3> QED BY <2>3, <3>1, <3>2
  <2>5. n \in S
    BY <2>2, <2>3
  <2>6. Plain!Highest(S) = {n}
    <3> HIDE DEF S
    <3> QED BY <1>2, <2>4, <2>5, PlainNearest
  <2> QED BY <2>2, <2>3, <2>6
<1> QED BY <1>4, <1>5

\* next_slot, the link of the page and the bitmap find the next tick.
LEMMA NextKeyIsLowest ==
  ASSUME SlabInv, NEW k \in TickKeys
  PROVE  NextKey(k) = Plain!Lowest({j \in InitializedKeys : j > k})
<1> DEFINE p == PageOf(k)
           S == {j \in InitializedKeys : j > k}
           slots == SlotsAfter(p, SlotOf(k))
<1>1. /\ p \in Nat /\ SlotOf(k) \in Slots /\ SlotOf(k) \in Nat /\ k \in Nat
      /\ bitmap \in SUBSET PageIdxs /\ bitmap \in SUBSET Nat
  BY KeyParts, PagesInUse
<1>2. S \in SUBSET Nat
  BY KeysByPlace
<1>3. ASSUME NEW j \in InitializedKeys
      PROVE  j > k <=> PageOf(j) > p \/ (PageOf(j) = p /\ SlotOf(j) > SlotOf(k))
  <2>1. j \in TickKeys /\ PageOf(j) \in Nat /\ SlotOf(j) \in Slots
    BY KeysByPlace
  <2>2. SlotOf(j) \in Nat /\ j \in Nat
    BY <2>1, KeyParts
  <2>3. j > k <=> k < j
    BY <1>1, <2>2
  <2>4. k < j <=> p < PageOf(j) \/ (p = PageOf(j) /\ SlotOf(k) < SlotOf(j))
    BY <2>1, PlacesInOrder
  <2> HIDE DEF p
  <2> QED BY <1>1, <2>1, <2>2, <2>3, <2>4 DEF p
<1>4. CASE HasPage(p) /\ slots # {}
  <2> DEFINE s == Min(slots)
             n == KeyOf(p, s)
  <2>1. p \in bitmap /\ PageAt(p).map \in SUBSET Slots
    BY <1>4, PagesInUse DEF PageAt, PageValues
  <2>2. slots \in SUBSET Slots /\ slots = {t \in PageAt(p).map : t > SlotOf(k)}
    BY <2>1 DEF SlotsAfter
  <2>3. s \in slots /\ \A x \in slots : s <= x
    BY <1>4, <2>2, SlotBounds
  <2>4. Some(slots, Min) = {s}
    BY <1>4 DEF Some
  <2>5. NextKey(k) = {n}
    <3>1. NextKey(k) = KeysIn(p, {s})
      BY <1>4, <2>4 DEF NextKey
    <3> HIDE DEF s
    <3> QED BY <3>1 DEF KeysIn
  <2>6. n \in InitializedKeys /\ PageOf(n) = p /\ SlotOf(n) = s /\ s > SlotOf(k)
    <3> HIDE DEF s, p, slots
    <3> QED BY <2>1, <2>2, <2>3, KeysOfPage
  <2> HIDE DEF s, n
  <2>7. n \in S
    BY <1>3, <2>6
  <2>8. ASSUME NEW j \in S PROVE n <= j
    <3>1. /\ j \in InitializedKeys /\ j \in TickKeys /\ j \in Nat
          /\ PageOf(j) \in Nat /\ SlotOf(j) \in Nat /\ SlotOf(j) \in PageAt(PageOf(j)).map
      BY KeysByPlace, KeyParts
    <3>2. n \in TickKeys /\ n \in Nat /\ s \in Nat
      BY <2>6, KeysByPlace, KeyParts
    <3>3. PageOf(j) > p \/ (PageOf(j) = p /\ SlotOf(j) > SlotOf(k))
      BY <1>3, <3>1
    <3>4. PageOf(j) > p => n < j
      <4> HIDE DEF p
      <4> QED BY <1>1, <2>6, <3>1, <3>2, PlacesInOrder
    <3>5. PageOf(j) = p /\ SlotOf(j) > SlotOf(k) => ~(j < n)
      <4> SUFFICES ASSUME PageOf(j) = p, SlotOf(j) > SlotOf(k) PROVE ~(j < n)
        OBVIOUS
      <4>1. SlotOf(j) \in slots
        BY <2>2, <3>1
      <4>2. s <= SlotOf(j)
        BY <2>3, <4>1
      <4>3. ~(p < p) /\ ~(SlotOf(j) < s)
        BY <1>1, <3>1, <3>2, <4>2
      <4>4. j < n <=> p < p \/ (p = p /\ SlotOf(j) < s)
        BY <2>6, <3>1, <3>2, PlacesInOrder
      <4> QED BY <4>3, <4>4
    <3> HIDE DEF p
    <3> QED BY <3>1, <3>2, <3>3, <3>4, <3>5
  <2> HIDE DEF S
  <2>9. Plain!Lowest(S) = {n}
    BY <1>2, <2>7, <2>8, PlainNearest
  <2> QED BY <2>5, <2>9 DEF S
<1>5. ASSUME ~(HasPage(p) /\ slots # {})
      PROVE  /\ S = {j \in InitializedKeys : PageOf(j) > p}
             /\ NextKey(k) = FirstOf(NextIn(bitmap, p))
  <2>1. ASSUME NEW j \in InitializedKeys, PageOf(j) = p PROVE ~(SlotOf(j) > SlotOf(k))
    <3>1. p \in bitmap /\ SlotOf(j) \in PageAt(p).map
      BY <2>1, KeysByPlace
    <3>2. HasPage(p)
      BY <1>1, <3>1, PagesInUse
    <3> QED BY <1>5, <3>1, <3>2 DEF SlotsAfter
  <2>2. S = {j \in InitializedKeys : PageOf(j) > p}
    BY <1>3, <2>1
  <2>3. CASE HasPage(p)
    <3>1. p \in bitmap
      BY <2>3, PagesInUse
    <3>2. PageAt(p).next = NextIn(bitmap, p)
      BY <3>1, LinkedNow DEF SlabInv, Linked, PageAt
    <3>3. Some(slots, Min) = {}
      BY <1>5, <2>3 DEF Some
    <3> QED BY <2>2, <2>3, <3>2, <3>3 DEF NextKey
  <2>4. CASE ~HasPage(p)
    <3>1. p \notin bitmap
      BY <2>4, PagesInUse
    <3>2. {q \in bitmap : q >= p} = {q \in bitmap : q > p}
      <4>1. \A q \in bitmap : q >= p <=> q > p
        BY <1>1, <3>1
      <4> HIDE DEF p
      <4> QED BY <4>1
    <3>3. Some({q \in bitmap : q >= p}, Min) = NextIn(bitmap, p)
      BY <1>1, <3>2, Neighbour
    <3> QED BY <2>2, <2>4, <3>3 DEF NextKey
  <2> QED BY <2>3, <2>4
<1>6. CASE ~(HasPage(p) /\ slots # {})
  BY <1>1, <1>5, <1>6, FirstBeyond
<1> QED BY <1>4, <1>6

\* prev_slot, the link of the page and the bitmap find the previous tick.
LEMMA PrevKeyIsHighest ==
  ASSUME SlabInv, NEW k \in TickKeys
  PROVE  PrevKey(k) = Plain!Highest({j \in InitializedKeys : j < k})
<1> DEFINE p == PageOf(k)
           S == {j \in InitializedKeys : j < k}
           slots == SlotsBefore(p, SlotOf(k))
<1>1. /\ p \in Nat /\ SlotOf(k) \in Slots /\ SlotOf(k) \in Nat /\ k \in Nat
      /\ bitmap \in SUBSET PageIdxs /\ bitmap \in SUBSET Nat
  BY KeyParts, PagesInUse
<1>2. S \in SUBSET Nat
  BY KeysByPlace
<1>3. ASSUME NEW j \in InitializedKeys
      PROVE  j < k <=> PageOf(j) < p \/ (PageOf(j) = p /\ SlotOf(j) < SlotOf(k))
  <2>1. j \in TickKeys /\ PageOf(j) \in Nat /\ SlotOf(j) \in Slots
    BY KeysByPlace
  <2>2. SlotOf(j) \in Nat /\ j \in Nat
    BY <2>1, KeyParts
  <2>3. j < k <=> j < k
    BY <1>1, <2>2
  <2>4. j < k <=> PageOf(j) < p \/ (PageOf(j) = p /\ SlotOf(j) < SlotOf(k))
    BY <2>1, PlacesInOrder
  <2> HIDE DEF p
  <2> QED BY <1>1, <2>1, <2>2, <2>3, <2>4 DEF p
<1>4. CASE HasPage(p) /\ slots # {}
  <2> DEFINE s == Max(slots)
             n == KeyOf(p, s)
  <2>1. p \in bitmap /\ PageAt(p).map \in SUBSET Slots
    BY <1>4, PagesInUse DEF PageAt, PageValues
  <2>2. slots \in SUBSET Slots /\ slots = {t \in PageAt(p).map : t < SlotOf(k)}
    BY <2>1 DEF SlotsBefore
  <2>3. s \in slots /\ \A x \in slots : x <= s
    BY <1>4, <2>2, SlotBounds
  <2>4. Some(slots, Max) = {s}
    BY <1>4 DEF Some
  <2>5. PrevKey(k) = {n}
    <3>1. PrevKey(k) = KeysIn(p, {s})
      BY <1>4, <2>4 DEF PrevKey
    <3> HIDE DEF s
    <3> QED BY <3>1 DEF KeysIn
  <2>6. n \in InitializedKeys /\ PageOf(n) = p /\ SlotOf(n) = s /\ s < SlotOf(k)
    <3> HIDE DEF s, p, slots
    <3> QED BY <2>1, <2>2, <2>3, KeysOfPage
  <2> HIDE DEF s, n
  <2>7. n \in S
    BY <1>3, <2>6
  <2>8. ASSUME NEW j \in S PROVE j <= n
    <3>1. /\ j \in InitializedKeys /\ j \in TickKeys /\ j \in Nat
          /\ PageOf(j) \in Nat /\ SlotOf(j) \in Nat /\ SlotOf(j) \in PageAt(PageOf(j)).map
      BY KeysByPlace, KeyParts
    <3>2. n \in TickKeys /\ n \in Nat /\ s \in Nat
      BY <2>6, KeysByPlace, KeyParts
    <3>3. PageOf(j) < p \/ (PageOf(j) = p /\ SlotOf(j) < SlotOf(k))
      BY <1>3, <3>1
    <3>4. PageOf(j) < p => n > j
      <4> HIDE DEF p
      <4> QED BY <1>1, <2>6, <3>1, <3>2, PlacesInOrder
    <3>5. PageOf(j) = p /\ SlotOf(j) < SlotOf(k) => ~(j > n)
      <4> SUFFICES ASSUME PageOf(j) = p, SlotOf(j) < SlotOf(k) PROVE ~(j > n)
        OBVIOUS
      <4>1. SlotOf(j) \in slots
        BY <2>2, <3>1
      <4>2. SlotOf(j) <= s
        BY <2>3, <4>1
      <4>3. ~(p > p) /\ ~(SlotOf(j) > s)
        BY <1>1, <3>1, <3>2, <4>2
      <4>4. n < j <=> p < p \/ (p = p /\ s < SlotOf(j))
        BY <2>6, <3>1, <3>2, PlacesInOrder
      <4> QED BY <4>3, <4>4
    <3> HIDE DEF p
    <3> QED BY <3>1, <3>2, <3>3, <3>4, <3>5
  <2> HIDE DEF S
  <2>9. Plain!Highest(S) = {n}
    BY <1>2, <2>7, <2>8, PlainNearest
  <2> QED BY <2>5, <2>9 DEF S
<1>5. ASSUME ~(HasPage(p) /\ slots # {})
      PROVE  /\ S = {j \in InitializedKeys : PageOf(j) < p}
             /\ PrevKey(k) = LastOf(PrevIn(bitmap, p))
  <2>1. ASSUME NEW j \in InitializedKeys, PageOf(j) = p PROVE ~(SlotOf(j) < SlotOf(k))
    <3>1. p \in bitmap /\ SlotOf(j) \in PageAt(p).map
      BY <2>1, KeysByPlace
    <3>2. HasPage(p)
      BY <1>1, <3>1, PagesInUse
    <3> QED BY <1>5, <3>1, <3>2 DEF SlotsBefore
  <2>2. S = {j \in InitializedKeys : PageOf(j) < p}
    BY <1>3, <2>1
  <2>3. CASE HasPage(p)
    <3>1. p \in bitmap
      BY <2>3, PagesInUse
    <3>2. PageAt(p).prev = PrevIn(bitmap, p)
      BY <3>1, LinkedNow DEF SlabInv, Linked, PageAt
    <3>3. Some(slots, Max) = {}
      BY <1>5, <2>3 DEF Some
    <3> QED BY <2>2, <2>3, <3>2, <3>3 DEF PrevKey
  <2>4. CASE ~HasPage(p)
    <3>1. p \notin bitmap
      BY <2>4, PagesInUse
    <3>2. {q \in bitmap : q <= p} = {q \in bitmap : q < p}
      <4>1. \A q \in bitmap : q <= p <=> q < p
        BY <1>1, <3>1
      <4> HIDE DEF p
      <4> QED BY <4>1
    <3>3. Some({q \in bitmap : q <= p}, Max) = PrevIn(bitmap, p)
      BY <1>1, <3>2, Neighbour
    <3> QED BY <2>2, <2>4, <3>3 DEF PrevKey
  <2> QED BY <2>3, <2>4
<1>6. CASE ~(HasPage(p) /\ slots # {})
  BY <1>1, <1>5, <1>6, LastBelow
<1> QED BY <1>4, <1>6

-----------------------------------------------------------------------------
(* Updates *)

\* The map the pages stand for.
Ticks == [k \in InitializedKeys |-> InfoAt(k)]

\* Page and slot tell keys apart.
LEMMA SamePlace ==
  ASSUME NEW j \in TickKeys, NEW k \in TickKeys, PageOf(j) = PageOf(k), SlotOf(j) = SlotOf(k)
  PROVE  j = k
BY KeyParts

\* A tick written to a slot, of a page in use or of a new one, is written to
\* its key and to no other.
LEMMA TickPut ==
  ASSUME SlabInv, SlabInv', NEW k \in TickKeys, NEW info \in Infos,
         PageOf(k) \in PageIdxs, bitmap' = bitmap \cup {PageOf(k)},
         \A q \in bitmap : q # PageOf(k) => /\ PageAt(q)'.map = PageAt(q).map
                                           /\ PageAt(q)'.slots = PageAt(q).slots,
         PageAt(PageOf(k))'.map = {SlotOf(k)} \cup (IF PageOf(k) \in bitmap
                                                    THEN PageAt(PageOf(k)).map ELSE {}),
         PageAt(PageOf(k))'.slots[SlotOf(k)] = info,
         PageOf(k) \in bitmap =>
           \A t \in Slots \ {SlotOf(k)} :
             PageAt(PageOf(k))'.slots[t] = PageAt(PageOf(k)).slots[t]
  PROVE  Ticks' = [j \in InitializedKeys \cup {k} |-> IF j = k THEN info ELSE Ticks[j]]
<1> DEFINE p == PageOf(k)
           s == SlotOf(k)
<1>1. ASSUME NEW j \in TickKeys
      PROVE  j \in InitializedKeys' <=> j \in InitializedKeys \/ j = k
  <2>1. j = k <=> PageOf(j) = p /\ SlotOf(j) = s
    BY SamePlace
  <2>2. j \in InitializedKeys <=> PageOf(j) \in bitmap /\ SlotOf(j) \in PageAt(PageOf(j)).map
    BY Occupied
  <2>3. j \in InitializedKeys' <=> PageOf(j) \in bitmap' /\ SlotOf(j) \in PageAt(PageOf(j))'.map
    BY OccupiedThen
  <2>4. CASE PageOf(j) = p
    BY <2>1, <2>2, <2>3, <2>4
  <2>5. CASE PageOf(j) # p
    BY <2>1, <2>2, <2>3, <2>5
  <2> QED BY <2>4, <2>5
<1>2. InitializedKeys' = InitializedKeys \cup {k}
  BY <1>1, Occupied, OccupiedThen
<1>3. ASSUME NEW j \in InitializedKeys, j # k PROVE InfoAt(j)' = InfoAt(j)
  <2>1. j \in TickKeys /\ PageOf(j) \in bitmap /\ SlotOf(j) \in Slots
    BY KeysByPlace
  <2>2. CASE PageOf(j) # p
    BY <2>1, <2>2 DEF InfoAt
  <2>3. CASE PageOf(j) = p
    <3>1. SlotOf(j) # s
      BY <1>3, <2>1, <2>3, SamePlace
    <3> QED BY <2>1, <2>3, <3>1 DEF InfoAt
  <2> QED BY <2>2, <2>3
<1>4. InfoAt(k)' = info
  BY DEF InfoAt
<1> HIDE DEF p, s
<1>5. Ticks' = [j \in InitializedKeys' |-> InfoAt(j)']
  BY DEF Ticks
<1>6. \A j \in InitializedKeys : Ticks[j] = InfoAt(j)
  BY DEF Ticks
<1> QED BY <1>2, <1>3, <1>4, <1>5, <1>6

\* A tick taken out of its slot, and of its page when that goes, is taken out
\* of the map alone.
LEMMA TickTaken ==
  ASSUME SlabInv, SlabInv', NEW k \in TickKeys, bitmap' \subseteq bitmap,
         \A q \in bitmap : q # PageOf(k) => /\ q \in bitmap'
                                           /\ PageAt(q)'.map = PageAt(q).map
                                           /\ PageAt(q)'.slots = PageAt(q).slots,
         PageOf(k) \in bitmap' =>
           /\ PageAt(PageOf(k))'.map = PageAt(PageOf(k)).map \ {SlotOf(k)}
           /\ PageAt(PageOf(k))'.slots = PageAt(PageOf(k)).slots,
         PageOf(k) \in bitmap \ bitmap' => PageAt(PageOf(k)).map \subseteq {SlotOf(k)}
  PROVE  Ticks' = [j \in InitializedKeys \ {k} |-> Ticks[j]]
<1>1. ASSUME NEW j \in TickKeys
      PROVE  j \in InitializedKeys' <=> j \in InitializedKeys /\ j # k
  <2>1. j = k <=> PageOf(j) = PageOf(k) /\ SlotOf(j) = SlotOf(k)
    BY SamePlace
  <2>2. j \in InitializedKeys <=> PageOf(j) \in bitmap /\ SlotOf(j) \in PageAt(PageOf(j)).map
    BY Occupied
  <2>3. j \in InitializedKeys' <=> PageOf(j) \in bitmap' /\ SlotOf(j) \in PageAt(PageOf(j))'.map
    BY OccupiedThen
  <2>4. CASE PageOf(j) = PageOf(k)
    BY <2>1, <2>2, <2>3, <2>4
  <2>5. CASE PageOf(j) # PageOf(k)
    BY <2>1, <2>2, <2>3, <2>5
  <2> QED BY <2>4, <2>5
<1>2. InitializedKeys' = InitializedKeys \ {k}
  BY <1>1, Occupied, OccupiedThen
<1>3. ASSUME NEW j \in InitializedKeys' PROVE InfoAt(j)' = InfoAt(j)
  <2>1. PageOf(j) \in bitmap' /\ PageOf(j) \in bitmap
    BY <1>3, OccupiedThen
  <2> QED BY <2>1 DEF InfoAt
<1>4. Ticks' = [j \in InitializedKeys' |-> InfoAt(j)']
  BY DEF Ticks
<1>5. \A j \in InitializedKeys : Ticks[j] = InfoAt(j)
  BY DEF Ticks
<1> QED BY <1>2, <1>3, <1>4, <1>5

\* Pages moved or relinked, with the same ticks in the same slots.
LEMMA TicksKept ==
  ASSUME SlabInv, SlabInv', bitmap' = bitmap,
         \A q \in bitmap : /\ PageAt(q)'.map = PageAt(q).map
                           /\ \A t \in PageAt(q).map : PageAt(q)'.slots[t] = PageAt(q).slots[t]
  PROVE  Ticks' = Ticks
<1>1. InitializedKeys' = InitializedKeys
  BY Occupied, OccupiedThen
<1>2. ASSUME NEW j \in InitializedKeys PROVE InfoAt(j)' = InfoAt(j)
  BY KeysByPlace DEF InfoAt
<1>3. Ticks' = [j \in InitializedKeys' |-> InfoAt(j)']
  BY DEF Ticks
<1> QED BY <1>1, <1>2, <1>3 DEF Ticks

\* A step that leaves the store alone leaves the map alone.
LEMMA StoreTicks ==
  ASSUME UNCHANGED store
  PROVE  Ticks' = Ticks
BY DEF store, Ticks, InitializedKeys, InfoAt, Present, HasPage, PageAt

\* insert into a page that exists.
LEMMA InsertInPageIsInsert ==
  ASSUME SlabInv, NEW k \in TickKeys, NEW info \in Infos, InsertInPage(k, info)
  PROVE  Ticks' = [j \in InitializedKeys \cup {k} |-> IF j = k THEN info ELSE Ticks[j]]
<1> DEFINE p == PageOf(k)
           s == SlotOf(k)
<1>1. /\ p \in bitmap /\ p \in PageIdxs /\ s \in Slots /\ cache[p] \in DOMAIN values
      /\ values[cache[p]] \in PageValues
  BY PagesInUse, KeyParts DEF InsertInPage, HasPage
<1>2. /\ values' = [values EXCEPT ![cache[p]] = WithTick(values[cache[p]], s, info)]
      /\ bitmap' = bitmap /\ cache' = cache
  BY DEF InsertInPage
<1> HIDE DEF p, s
<1>3. PageAt(p)' = WithTick(PageAt(p), s, info)
  BY <1>1, <1>2 DEF PageAt
<1>4. \A q \in bitmap : q # p => PageAt(q)' = PageAt(q)
  BY <1>1, <1>2, PagesInUse DEF PageAt
<1>5. /\ PageAt(p)'.map = {s} \cup PageAt(p).map
      /\ PageAt(p)'.slots = [PageAt(p).slots EXCEPT ![s] = info]
      /\ PageAt(p).slots \in [Slots -> Infos \cup {NoInfo}]
  BY <1>1, <1>3 DEF WithTick, PageAt, PageValues
<1>6. PageAt(p)'.slots[s] = info /\ \A t \in Slots \ {s} : PageAt(p)'.slots[t] = PageAt(p).slots[t]
  BY <1>1, <1>5
<1>7. SlabInv'
  BY InsertInPageKeeps
<1>8. bitmap' = bitmap \cup {p}
  BY <1>1, <1>2
<1> QED BY <1>1, <1>4, <1>5, <1>6, <1>7, <1>8, TickPut DEF p, s

\* insert into a new page.
LEMMA InsertNewPageIsInsert ==
  ASSUME SlabInv, NEW k \in TickKeys, NEW info \in Infos, NEW key \in SlabKeys,
         InsertNewPage(k, info, key)
  PROVE  Ticks' = [j \in InitializedKeys \cup {k} |-> IF j = k THEN info ELSE Ticks[j]]
<1> DEFINE p == PageOf(k)
           s == SlotOf(k)
           prev == PrevIn(bitmap, p)
           next == NextIn(bitmap, p)
           page == WithTick(EmptyPage(prev, next), s, info)
           linked == Relink(values, prev, next, {p}, {p})
<1>1. /\ p \in PageIdxs /\ p \in Nat /\ p \notin bitmap /\ bitmap \in SUBSET Nat
      /\ key \in SlabKeys /\ key \notin DOMAIN values /\ s \in Slots
  BY PagesInUse, KeyParts DEF InsertNewPage
<1>2. PrevPage(p) = prev /\ NextPage(p) = next
  BY <1>1, PagesInUse, Neighbour DEF PrevPage, NextPage
<1>3. /\ values' = [j \in DOMAIN values \cup {key} |-> IF j = key THEN page ELSE linked[j]]
      /\ cache' = [cache EXCEPT ![p] = key] /\ bitmap' = bitmap \cup {p}
  BY <1>2 DEF InsertNewPage, Neighbours
<1>4. prev \in SUBSET bitmap /\ next \in SUBSET bitmap /\ {p} \in SUBSET PageIdxs
  BY <1>1 DEF PrevIn, NextIn
<1>5. page.map = {s} /\ page.slots[s] = info
  BY <1>1 DEF EmptyPage, WithTick
<1>6. \A q \in bitmap : /\ linked[cache[q]].map = values[cache[q]].map
                         /\ linked[cache[q]].slots = values[cache[q]].slots
  BY <1>4, Relinked
<1> HIDE DEF p, s, prev, next, page, linked
<1>7. cache \in [PageIdxs -> SlabKeys \cup {Absent}]
  BY DEF SlabInv, TypeOK
<1>8. PageAt(p)' = page
  BY <1>1, <1>3, <1>7 DEF PageAt
<1>9. \A q \in bitmap : PageAt(q)' = linked[cache[q]]
  BY <1>1, <1>3, <1>7, PagesInUse DEF PageAt
<1>10. \A q \in bitmap : PageAt(q)'.map = PageAt(q).map /\ PageAt(q)'.slots = PageAt(q).slots
  BY <1>6, <1>9 DEF PageAt
<1>11. PageAt(p)'.map = {s} \cup (IF p \in bitmap THEN PageAt(p).map ELSE {})
  BY <1>1, <1>5, <1>8
<1>12. PageAt(p)'.slots[s] = info
  BY <1>5, <1>8
<1>13. SlabInv'
  BY InsertNewPageKeeps
<1> QED BY <1>1, <1>3, <1>10, <1>11, <1>12, <1>13, TickPut DEF p, s

\* update_initialized_tick.
LEMMA UpdateIsUpdate ==
  ASSUME SlabInv, NEW k \in TickKeys, NEW info \in Infos, Update(k, info)
  PROVE  Ticks' = [j \in InitializedKeys |-> IF j = k THEN info ELSE Ticks[j]]
<1> DEFINE p == PageOf(k)
           s == SlotOf(k)
<1>1. CASE ~Present(k)
  <2>1. Ticks' = Ticks /\ k \notin InitializedKeys
    BY <1>1, StoreTicks DEF Update, store, InitializedKeys
  <2>2. \A j \in InitializedKeys : j # k
    BY <2>1
  <2>3. Ticks = [j \in InitializedKeys |-> Ticks[j]]
    BY DEF Ticks
  <2> QED BY <2>1, <2>2, <2>3
<1>2. CASE Present(k)
  <2>1. /\ k \in InitializedKeys /\ p \in bitmap /\ p \in PageIdxs /\ s \in Slots
        /\ s \in PageAt(p).map
        /\ cache[p] \in DOMAIN values /\ values[cache[p]] \in PageValues
    BY <1>2, Occupied, PagesInUse, KeyParts DEF InitializedKeys
  <2>2. /\ values' = [values EXCEPT ![cache[p]] = [values[cache[p]] EXCEPT !.slots[s] = info]]
        /\ bitmap' = bitmap /\ cache' = cache
    BY <1>2 DEF Update
  <2> HIDE DEF p, s
  <2>3. PageAt(p)' = [PageAt(p) EXCEPT !.slots[s] = info]
    BY <2>1, <2>2 DEF PageAt
  <2>4. \A q \in bitmap : q # p => PageAt(q)' = PageAt(q)
    BY <2>1, <2>2, PagesInUse DEF PageAt
  <2>5. /\ PageAt(p)'.map = PageAt(p).map
        /\ PageAt(p)'.slots = [PageAt(p).slots EXCEPT ![s] = info]
        /\ PageAt(p).slots \in [Slots -> Infos \cup {NoInfo}]
    BY <2>1, <2>3 DEF PageAt, PageValues
  <2>6. PageAt(p)'.slots[s] = info /\ \A t \in Slots \ {s} : PageAt(p)'.slots[t] = PageAt(p).slots[t]
    BY <2>1, <2>5
  <2>7. PageAt(p)'.map = {s} \cup (IF p \in bitmap THEN PageAt(p).map ELSE {})
    BY <2>1, <2>5
  <2>8. SlabInv'
    BY UpdateKeeps
  <2>9. bitmap' = bitmap \cup {p}
    BY <2>1, <2>2
  <2>10. Ticks' = [j \in InitializedKeys \cup {k} |-> IF j = k THEN info ELSE Ticks[j]]
    BY <2>1, <2>4, <2>6, <2>7, <2>8, <2>9, TickPut DEF p, s
  <2>11. InitializedKeys \cup {k} = InitializedKeys
    BY <2>1
  <2> QED BY <2>10, <2>11
<1> QED BY <1>1, <1>2

\* remove, whether or not it frees the page.
LEMMA RemoveIsRemove ==
  ASSUME SlabInv, NEW k \in TickKeys, Remove(k)
  PROVE  Ticks' = [j \in InitializedKeys \ {k} |-> Ticks[j]]
<1> DEFINE p == PageOf(k)
           s == SlotOf(k)
           page == WithoutTick(PageAt(p), s)
<1>1. SlabInv'
  BY RemoveKeeps
<1>2. CASE ~HasPage(p)
  <2>1. UNCHANGED store /\ p \notin bitmap
    BY <1>2, KeyParts, PagesInUse DEF Remove, store
  <2>2. Ticks' = Ticks /\ k \notin InitializedKeys
    BY <2>1, StoreTicks, Occupied
  <2>3. Ticks = [j \in InitializedKeys |-> Ticks[j]] /\ InitializedKeys \ {k} = InitializedKeys
    BY <2>2 DEF Ticks
  <2> QED BY <2>2, <2>3
<1>3. CASE HasPage(p) /\ ~Frees(page)
  <2>1. /\ p \in bitmap /\ cache[p] \in DOMAIN values /\ PageAt(p) \in PageValues
        /\ values' = [values EXCEPT ![cache[p]] = page] /\ bitmap' = bitmap /\ cache' = cache
    BY <1>3, PagesInUse DEF Remove, PageAt
  <2>2. page.map = PageAt(p).map \ {s} /\ page.slots = PageAt(p).slots
    BY <2>1 DEF WithoutTick, PageValues
  <2> HIDE DEF p, s, page
  <2>3. PageAt(p)' = page /\ \A q \in bitmap : q # p => PageAt(q)' = PageAt(q)
    BY <2>1, PagesInUse DEF PageAt
  <2> QED BY <1>1, <2>1, <2>2, <2>3, TickTaken DEF p, s
<1>4. CASE HasPage(p) /\ Frees(page)
  <2> DEFINE prev == PrevIn(bitmap, p)
             next == NextIn(bitmap, p)
             linked == Relink(values, prev, next, next, prev)
  <2>1. /\ p \in bitmap /\ PageAt(p) \in PageValues
        /\ PageAt(p).prev = prev /\ PageAt(p).next = next
    BY <1>4, PagesInUse, LinkedNow DEF SlabInv, Linked, PageAt
  <2>2. /\ page.map = PageAt(p).map \ {s} /\ page.slots = PageAt(p).slots
        /\ page.prev = prev /\ page.next = next
    <3> HIDE DEF prev, next
    <3> QED BY <2>1 DEF WithoutTick, PageValues
  <2>3. /\ values' = [j \in DOMAIN values \ {cache[p]} |-> linked[j]]
        /\ cache' = [cache EXCEPT ![p] = Absent] /\ bitmap' = bitmap \ {p}
    BY <1>4, <2>2 DEF Remove, Restrict
  <2>4. /\ prev \in SUBSET bitmap /\ next \in SUBSET bitmap
        /\ prev \in SUBSET PageIdxs /\ next \in SUBSET PageIdxs
    BY PagesInUse DEF PrevIn, NextIn
  <2>5. \A q \in bitmap : /\ linked[cache[q]].map = values[cache[q]].map
                           /\ linked[cache[q]].slots = values[cache[q]].slots
    BY <2>4, Relinked
  <2> HIDE DEF prev, next, linked
  <2>6. cache \in [PageIdxs -> SlabKeys \cup {Absent}] /\ bitmap \subseteq PageIdxs
    BY DEF SlabInv, TypeOK
  <2>7. ASSUME NEW q \in bitmap, q # p
        PROVE  q \in bitmap' /\ PageAt(q)'.map = PageAt(q).map /\ PageAt(q)'.slots = PageAt(q).slots
    <3>1. cache[q] \in DOMAIN values \ {cache[p]} /\ cache'[q] = cache[q]
      BY <2>1, <2>3, <2>6, <2>7, PagesInUse
    <3>2. PageAt(q)' = linked[cache[q]]
      BY <2>3, <3>1 DEF PageAt
    <3> QED BY <2>3, <2>5, <2>7, <3>2 DEF PageAt
  <2>8. PageAt(p).map \subseteq {s}
    BY <1>4, <2>2 DEF Frees
  <2>9. p \notin bitmap' /\ bitmap' \subseteq bitmap
    BY <2>3
  <2> HIDE DEF p, s, page
  <2> QED BY <1>1, <2>7, <2>8, <2>9, TickTaken DEF p, s
<1> QED BY <1>2, <1>3, <1>4

\* from_snapshot of the store's own snapshot.
LEMMA ReloadIsReload ==
  ASSUME SlabInv, Reload
  PROVE  Ticks' = Ticks
<1> DEFINE fresh(p) == [slots |-> [s \in Slots |-> IF s \in PageAt(p).map
                                                  THEN PageAt(p).slots[s] ELSE NoInfo],
                        map   |-> PageAt(p).map,
                        prev  |-> PrevPage(p),
                        next  |-> NextPage(p)]
<1>1. PICK keyOf \in [bitmap -> SlabKeys] :
        /\ IsInjective(keyOf)
        /\ values' = [key \in {keyOf[p] : p \in bitmap} |->
                        fresh(CHOOSE p \in bitmap : keyOf[p] = key)]
        /\ cache' = [p \in PageIdxs |-> IF p \in bitmap THEN keyOf[p] ELSE Absent]
        /\ bitmap' = bitmap
  BY DEF Reload
<1>2. \A p, q \in bitmap : keyOf[p] = keyOf[q] => p = q
  BY <1>1 DEF IsInjective
<1>3. ASSUME NEW p \in bitmap
      PROVE  /\ fresh(p).map = PageAt(p).map
             /\ \A t \in PageAt(p).map : fresh(p).slots[t] = PageAt(p).slots[t]
  BY PagesInUse DEF PageAt, PageValues
<1> HIDE DEF fresh
<1>4. \A p \in bitmap : (CHOOSE q \in bitmap : keyOf[q] = keyOf[p]) = p
  BY <1>2
<1>5. ASSUME NEW p \in bitmap PROVE PageAt(p)' = fresh(p)
  <2>1. cache'[p] = keyOf[p]
    BY <1>1, PagesInUse
  <2>2. values'[keyOf[p]] = fresh(CHOOSE q \in bitmap : keyOf[q] = keyOf[p])
    BY <1>1
  <2> QED BY <1>4, <2>1, <2>2 DEF PageAt
<1>6. SlabInv'
  BY ReloadKeeps
<1> QED BY <1>1, <1>3, <1>5, <1>6, TicksKept

-----------------------------------------------------------------------------
(* Every step is a step of the map *)

\* The entries of initialized keys are the same in both.
LEMMA SameEntries ==
  ASSUME NEW S \in SUBSET InitializedKeys
  PROVE  Entries(S) = Plain!Entries(S)
<1>1. \A k \in S : InfoAt(k) = Ticks[k]
  BY DEF Ticks
<1> QED BY <1>1 DEF Entries, Plain!Entries, Ticks

\* A lookup finds the key itself if it is initialized.
LEMMA FoundKey ==
  ASSUME NEW k \in TickKeys
  PROVE  /\ {j \in {k} : Present(j)} = Plain!At(k)
         /\ Plain!At(k) \in SUBSET InitializedKeys
BY DEF Plain!At, InitializedKeys, Ticks

\* The answers nearest to a key are initialized keys.
LEMMA NearestStored ==
  ASSUME NEW S \in SUBSET InitializedKeys
  PROVE  /\ Plain!Lowest(S) \in SUBSET InitializedKeys
         /\ Plain!Highest(S) \in SUBSET InitializedKeys
BY DEF Plain!Lowest, Plain!Highest

\* insert writes one entry and returns it.
LEMMA InsertPlain ==
  ASSUME SlabInv, NEW k \in TickKeys, NEW info \in Infos,
         \/ InsertInPage(k, info)
         \/ \E key \in SlabKeys : InsertNewPage(k, info, key)
  PROVE  Plain!Insert(k, info)
<1>1. Ticks' = [j \in InitializedKeys \cup {k} |-> IF j = k THEN info ELSE Ticks[j]]
  BY InsertInPageIsInsert, InsertNewPageIsInsert
<1>2. answer' = <<"insert", k, {<<k, info>>}>>
  BY DEF InsertInPage, InsertNewPage, Answers
<1>3. k < Pages * PageSize
  BY KeyCapacity DEF InsertInPage, InsertNewPage, HasPage
<1> QED BY <1>1, <1>2, <1>3 DEF Plain!Insert, Plain!Answers, Ticks

\* A key outside the cache is rejected.
LEMMA InsertOutsidePlain ==
  ASSUME NEW k \in TickKeys, NEW info \in Infos, InsertOutside(k)
  PROVE  Plain!Insert(k, info)
<1>1. Ticks' = Ticks
  BY StoreTicks DEF InsertOutside
<1>2. answer' = <<"insert", k, {}>>
  BY DEF InsertOutside, Answers
<1>3. ~(k < Pages * PageSize)
  BY KeyCapacity DEF InsertOutside
<1> QED BY <1>1, <1>2, <1>3 DEF Plain!Insert, Plain!Answers, Ticks

\* An update returns the entry it replaces, if there is one.
LEMMA UpdatePlain ==
  ASSUME SlabInv, NEW k \in TickKeys, NEW info \in Infos, Update(k, info)
  PROVE  Plain!Update(k, info)
<1>1. Ticks' = [j \in InitializedKeys |-> IF j = k THEN info ELSE Ticks[j]]
  BY UpdateIsUpdate
<1>2. answer' = <<"update", k, Plain!Entries(Plain!At(k))>>
  BY FoundKey, SameEntries DEF Update, Answers
<1> QED BY <1>1, <1>2 DEF Plain!Update, Plain!Answers, Ticks

\* remove takes out one entry.
LEMMA RemovePlain ==
  ASSUME SlabInv, NEW k \in TickKeys, Remove(k)
  PROVE  Plain!Remove(k)
<1>1. Ticks' = [j \in InitializedKeys \ {k} |-> Ticks[j]]
  BY RemoveIsRemove
<1>2. answer' = <<"remove", k, {}>>
  BY DEF Remove, Answers
<1> QED BY <1>1, <1>2 DEF Plain!Remove, Plain!Answers, Plain!Restrict, Ticks

\* get returns the entry of its key.
LEMMA GetPlain ==
  ASSUME NEW k \in TickKeys, Get(k)
  PROVE  Plain!Get(k)
<1>1. Ticks' = Ticks
  BY StoreTicks DEF Get
<1>2. answer' = <<"get", k, Plain!Entries(Plain!At(k))>>
  BY FoundKey, SameEntries DEF Get, Answers
<1> QED BY <1>1, <1>2 DEF Plain!Get, Plain!Answers, Ticks

\* Downward the tick itself counts, when it is initialized.
LEMMA AtOrBelow ==
  ASSUME SlabInv, NEW k \in TickKeys
  PROVE  (IF Present(k) THEN {k} ELSE PrevKey(k))
           = Plain!Highest({j \in InitializedKeys : j <= k})
<1> DEFINE S == {j \in InitializedKeys : j <= k}
<1>1. S \in SUBSET Nat /\ k \in Nat /\ \A j \in InitializedKeys : j \in Nat
  BY KeysByPlace, KeyParts
<1>2. CASE Present(k)
  <2>1. k \in S /\ \A j \in S : j <= k
    BY <1>1, <1>2 DEF InitializedKeys
  <2> HIDE DEF S
  <2>2. Plain!Highest(S) = {k}
    BY <1>1, <2>1, PlainNearest
  <2> QED BY <1>2, <2>2 DEF S
<1>3. CASE ~Present(k)
  <2>1. \A j \in InitializedKeys : j <= k <=> j < k
    <3>1. k \notin InitializedKeys
      BY <1>3 DEF InitializedKeys
    <3> QED BY <1>1, <3>1
  <2>2. S = {j \in InitializedKeys : j < k}
    BY <2>1
  <2> QED BY <1>3, <2>2, PrevKeyIsHighest
<1> QED BY <1>2, <1>3

\* The search of the swap loop, in both directions.
LEMMA NextInitializedPlain ==
  ASSUME SlabInv, NEW k \in TickKeys, NEW zeroForOne \in BOOLEAN,
         NextInitializedTick(k, zeroForOne)
  PROVE  Plain!NextInitializedTick(k, zeroForOne)
<1>1. Ticks' = Ticks /\ DOMAIN Ticks = InitializedKeys
  BY StoreTicks DEF NextInitializedTick, Ticks
<1>2. CASE zeroForOne
  <2> DEFINE S == {j \in InitializedKeys : j <= k}
  <2>1. answer' = <<"next down", k, Entries(Plain!Highest(S))>>
    BY <1>2, AtOrBelow DEF NextInitializedTick, Answers
  <2>2. Entries(Plain!Highest(S)) = Plain!Entries(Plain!Highest(S))
    <3>1. S \in SUBSET InitializedKeys
      OBVIOUS
    <3> HIDE DEF S
    <3> QED BY <3>1, NearestStored, SameEntries
  <2>3. answer' = <<"next down", k, Plain!Entries(Plain!Highest(S))>>
    BY <2>1, <2>2
  <2> QED BY <1>1, <1>2, <2>3 DEF Plain!NextInitializedTick, Plain!Answers, Ticks
<1>3. CASE ~zeroForOne
  <2> DEFINE S == {j \in InitializedKeys : j > k}
  <2>1. answer' = <<"next up", k, Entries(Plain!Lowest(S))>>
    BY <1>3, NextKeyIsLowest DEF NextInitializedTick, Answers
  <2>2. Entries(Plain!Lowest(S)) = Plain!Entries(Plain!Lowest(S))
    <3>1. S \in SUBSET InitializedKeys
      OBVIOUS
    <3> HIDE DEF S
    <3> QED BY <3>1, NearestStored, SameEntries
  <2>3. answer' = <<"next up", k, Plain!Entries(Plain!Lowest(S))>>
    BY <2>1, <2>2
  <2> QED BY <1>1, <1>3, <2>3 DEF Plain!NextInitializedTick, Plain!Answers, Ticks
<1> QED BY <1>2, <1>3

\* The snapshot holds every initialized tick once.
LEMMA SnapshotPlain ==
  ASSUME SlabInv, Snapshot
  PROVE  Plain!Snapshot
<1>1. Ticks' = Ticks /\ DOMAIN Ticks = InitializedKeys
  BY StoreTicks DEF Snapshot, Ticks
<1> DEFINE seen == UNION {Entries(KeysIn(p, PageAt(p).map)) : p \in bitmap}
<1>2. ASSUME NEW p \in bitmap, NEW e \in Entries(KeysIn(p, PageAt(p).map))
      PROVE  e \in Entries(InitializedKeys)
  <2>1. PICK s \in PageAt(p).map : e = <<KeyOf(p, s), InfoAt(KeyOf(p, s))>>
    BY <1>2 DEF Entries, KeysIn
  <2>2. KeyOf(p, s) \in InitializedKeys
    BY KeysOfPage
  <2> QED BY <2>1, <2>2 DEF Entries
<1>3. ASSUME NEW e \in Entries(InitializedKeys) PROVE e \in seen
  <2>1. PICK k \in InitializedKeys : e = <<k, InfoAt(k)>>
    BY <1>3 DEF Entries
  <2>2. /\ PageOf(k) \in bitmap /\ SlotOf(k) \in PageAt(PageOf(k)).map
        /\ k = KeyOf(PageOf(k), SlotOf(k))
    BY KeysByPlace
  <2>3. k \in KeysIn(PageOf(k), PageAt(PageOf(k)).map)
    BY <2>2 DEF KeysIn
  <2>4. e \in Entries(KeysIn(PageOf(k), PageAt(PageOf(k)).map))
    BY <2>1, <2>3 DEF Entries
  <2> QED BY <2>2, <2>4
<1>4. seen = Entries(InitializedKeys)
  BY <1>2, <1>3
<1>5. answer' = <<"snapshot", 0, Plain!Entries(InitializedKeys)>>
  BY <1>4, SameEntries DEF Snapshot, Answers
<1> QED BY <1>1, <1>5 DEF Plain!Snapshot, Plain!Answers, Ticks

\* A call on the pages is the call on the map.
LEMMA CallIsPlain == SlabInv /\ Call => Plain!Call
<1> SUFFICES ASSUME SlabInv, Call PROVE Plain!Call
  OBVIOUS
<1>1. ASSUME NEW k \in TickKeys, NEW info \in Infos,
             \/ InsertInPage(k, info)
             \/ \E key \in SlabKeys : InsertNewPage(k, info, key)
             \/ Update(k, info)
      PROVE  Plain!Call
  BY <1>1, InsertPlain, UpdatePlain DEF Plain!Call
<1>2. ASSUME NEW k \in TickKeys, InsertOutside(k) \/ Remove(k) \/ Get(k)
      PROVE  Plain!Call
  <2>1. PICK info \in Infos : TRUE
    BY PageAssumption
  <2> QED BY <1>2, <2>1, InsertOutsidePlain, RemovePlain, GetPlain DEF Plain!Call
<1>3. ASSUME NEW k \in TickKeys, NEW zeroForOne \in BOOLEAN, NextInitializedTick(k, zeroForOne)
      PROVE  Plain!Call
  BY <1>3, NextInitializedPlain DEF Plain!Call
<1>4. CASE Snapshot
  BY <1>4, SnapshotPlain DEF Plain!Call
<1>5. CASE Reload
  <2>1. Plain!Reload
    BY <1>5, ReloadIsReload DEF Reload, Plain!Reload, Ticks
  <2> QED BY <2>1 DEF Plain!Call
<1> QED BY <1>1, <1>2, <1>3, <1>4, <1>5 DEF Call

\* Every step of the store is a step of the map.
LEMMA StepIsPlain == SlabInv /\ [Next]_vars => [Plain!Next]_<<Ticks, answer>>
<1> SUFFICES ASSUME SlabInv, [Next]_vars PROVE [Plain!Next]_<<Ticks, answer>>
  OBVIOUS
<1>1. CASE UNCHANGED vars
  BY <1>1, StoreTicks DEF vars, store
<1>2. CASE Return
  <2>1. Plain!Return
    BY <1>2, StoreTicks DEF Return, NoAnswer, Plain!Return, Plain!NoAnswer, Ticks
  <2> QED BY <2>1 DEF Plain!Next
<1>3. CASE answer = NoAnswer /\ Call
  <2>1. answer = Plain!NoAnswer /\ Plain!Call
    BY <1>3, CallIsPlain DEF NoAnswer, Plain!NoAnswer
  <2> QED BY <2>1 DEF Plain!Next
<1> QED BY <1>1, <1>2, <1>3 DEF Next

\* A store without pages is an empty map.
LEMMA InitIsPlain == Init => Plain!Init
<1> SUFFICES ASSUME Init PROVE Plain!Init
  OBVIOUS
<1>1. InitializedKeys = {}
  <2>1. \A k \in TickKeys : ~Present(k)
    BY DEF Init, Present, HasPage
  <2> QED BY <2>1 DEF InitializedKeys
<1> QED BY <1>1 DEF Init, NoAnswer, Plain!Init, Plain!NoAnswer

\* Whatever calls are made in whatever order, the paged store of slab.rs
\* answers each as an ordered map of its initialized ticks would.
THEOREM SlabIsTickStore == Spec => ImplementsTickStore
<1>1. SlabInv /\ [Next]_vars => [Plain!Next]_<<[k \in InitializedKeys |-> InfoAt(k)], answer>>
  BY StepIsPlain DEF Ticks
<1> QED BY <1>1, InitIsPlain, SlabInvariant, PTL DEF Spec, ImplementsTickStore, Plain!Spec
=============================================================================
