------------------------------ MODULE TickSlab ------------------------------
(***************************************************************************)
(* The paged tick storage of ticks/slab.rs and ticks/slab_value.rs: pages  *)
(* of PageSize slots in a slab allocator, a cache from page index to slab  *)
(* key, a bitmap of the pages in use (HierBitmap, here as the set of keys  *)
(* it implements) and links from each page to its neighbours.  It          *)
(* implements TickStore.                                                   *)
(***************************************************************************)
EXTENDS Integers, Functions, FiniteSetsExt

CONSTANTS
  Pages,      \* page indexes in the cache (calculate_cache_cap)
  PageSize,   \* slots in a page (32)
  Infos,      \* tick infos
  NoInfo,     \* TickInfo::DEFAULT, in the slots of a new page
  SlabKeys,   \* the keys of the slab allocator (external: any vacant one)
  Absent      \* INITIAL_CACHE_VALUE

ASSUME PageAssumption ==
  /\ Pages \in Nat \ {0} /\ PageSize \in Nat \ {0}
  /\ Infos # {} /\ NoInfo \notin Infos
  /\ Absent \notin SlabKeys

VARIABLES
  bitmap,     \* pages in use
  cache,      \* page index to slab key
  values,     \* the slab: key to page
  answer      \* the call just made and its result, as in TickStore

vars == <<bitmap, cache, values, answer>>
store == <<bitmap, cache, values>>

Slots     == 0 .. PageSize - 1
PageIdxs  == 0 .. Pages - 1
\* One page beyond the cache stands for every key that lies outside it.
TickKeys  == 0 .. (Pages + 1) * PageSize - 1

\* Mutant: the slot index keeps the bits of the page index.
SlotOf_Unmasked(k) == k

PageOf(k)  == k \div PageSize     \* cache_index
SlotOf(k)  == k % PageSize        \* slot_index
KeyOf(p, s) == p * PageSize + s   \* from_parts

Some(S, Best(_)) == IF S = {} THEN {} ELSE {Best(S)}

-----------------------------------------------------------------------------
(* Pages.  A link is an Option, the set of the page index it holds. *)

EmptyPage(prev, next) ==
  [slots |-> [s \in Slots |-> NoInfo], map |-> {}, prev |-> prev, next |-> next]

WithTick(page, s, info) == [page EXCEPT !.slots[s] = info, !.map = @ \cup {s}]

\* Only the occupancy bit is cleared: the payload stays behind.
WithoutTick(page, s) == [page EXCEPT !.map = @ \ {s}]

HasPage(p) == p \in PageIdxs /\ cache[p] # Absent
PageAt(p)  == values[cache[p]]

\* The pages next to p in the bitmap.
PrevPage(p) == Some({q \in bitmap : q < p}, Max)
NextPage(p) == Some({q \in bitmap : q > p}, Min)

\* Store vals[key] with the links of its neighbours set as given.
Relink(vals, prev, next, newNext, newPrev) ==
  [key \in DOMAIN vals |->
     [vals[key] EXCEPT
        !.next = IF \E q \in prev : cache[q] = key THEN newNext ELSE @,
        !.prev = IF \E q \in next : cache[q] = key THEN newPrev ELSE @]]

-----------------------------------------------------------------------------
(* Updates *)

NoAnswer == <<>>
Answers(call, k, result) == answer' = <<call, k, result>>

\* The caller takes the answer before it calls again.
Return == answer # NoAnswer /\ answer' = NoAnswer /\ UNCHANGED store

\* insert, on a page that exists.
InsertInPage(k, info) ==
  /\ HasPage(PageOf(k))
  /\ values' = [values EXCEPT ![cache[PageOf(k)]] = WithTick(@, SlotOf(k), info)]
  /\ Answers("insert", k, {<<k, info>>})
  /\ UNCHANGED <<bitmap, cache>>

\* Mutant: insert_slab does not link the new page to the previous one.
Neighbours_PrevNotLinked(p) == [prev |-> {}, next |-> NextPage(p)]

\* The neighbours insert_slab links the new page to.
Neighbours(p) == [prev |-> PrevPage(p), next |-> NextPage(p)]

\* insert, with insert_slab putting a new page under any vacant slab key.
InsertNewPage(k, info, key) ==
  LET p    == PageOf(k)
      link == Neighbours(p)
      page == EmptyPage(link.prev, link.next)
      linked == Relink(values, link.prev, link.next, {p}, {p})
  IN  /\ p \in PageIdxs /\ ~HasPage(p)
      /\ key \in SlabKeys \ DOMAIN values
      /\ values' = [j \in DOMAIN values \cup {key} |->
                      IF j = key THEN WithTick(page, SlotOf(k), info) ELSE linked[j]]
      /\ cache'  = [cache EXCEPT ![p] = key]
      /\ bitmap' = bitmap \cup {p}
      /\ Answers("insert", k, {<<k, info>>})

\* insert, for a key outside the cache: InvalidTick.
InsertOutside(k) ==
  /\ PageOf(k) \notin PageIdxs
  /\ Answers("insert", k, {})
  /\ UNCHANGED store

Present(k) == HasPage(PageOf(k)) /\ SlotOf(k) \in PageAt(PageOf(k)).map
InfoAt(k)  == PageAt(PageOf(k)).slots[SlotOf(k)]
Entries(S) == {<<k, InfoAt(k)>> : k \in S}

\* update_initialized_tick: a missing tick is an error and nothing changes.
Update(k, info) ==
  /\ values' = IF Present(k)
               THEN [values EXCEPT ![cache[PageOf(k)]].slots[SlotOf(k)] = info]
               ELSE values
  /\ Answers("update", k, Entries({j \in {k} : Present(j)}))
  /\ UNCHANGED <<bitmap, cache>>

\* Mutant: a page is kept when its last tick goes.
Frees_Never(page) == FALSE

\* initialized() == 0.
Frees(page) == page.map = {}

\* remove: when the page is empty its neighbours are linked to each other and
\* it is freed.
Remove(k) ==
  LET p      == PageOf(k)
      page   == WithoutTick(PageAt(p), SlotOf(k))
      linked == Relink(values, page.prev, page.next, page.next, page.prev)
      frees  == HasPage(p) /\ Frees(page)
  IN  /\ values' = IF frees THEN Restrict(linked, DOMAIN values \ {cache[p]})
                   ELSE IF HasPage(p) THEN [values EXCEPT ![cache[p]] = page]
                   ELSE values
      /\ cache'  = IF frees THEN [cache EXCEPT ![p] = Absent] ELSE cache
      /\ bitmap' = IF frees THEN bitmap \ {p} ELSE bitmap
      /\ Answers("remove", k, {})

-----------------------------------------------------------------------------
(* Queries *)

Get(k) ==
  /\ Answers("get", k, Entries({j \in {k} : Present(j)}))
  /\ UNCHANGED store

KeysIn(p, slots) == {KeyOf(p, s) : s \in slots}
FirstOf(ps) == UNION {KeysIn(p, Some(PageAt(p).map, Min)) : p \in ps}
LastOf(ps)  == UNION {KeysIn(p, Some(PageAt(p).map, Max)) : p \in ps}

\* Mutant: the mask of next_slot keeps the current slot.
SlotsAfter_Inclusive(p, s) == {t \in PageAt(p).map : t >= s}

\* The masks of next_slot and prev_slot.
SlotsAfter(p, s)  == {t \in PageAt(p).map : t > s}
SlotsBefore(p, s) == {t \in PageAt(p).map : t < s}

\* next: in the page, else in the page it links to; from an absent page, in
\* the page the bitmap finds.
NextKey(k) ==
  LET p     == PageOf(k)
      later == Some(SlotsAfter(p, SlotOf(k)), Min)
  IN  IF HasPage(p)
      THEN IF later # {} THEN KeysIn(p, later) ELSE FirstOf(PageAt(p).next)
      ELSE FirstOf(Some({q \in bitmap : q >= p}, Min))

PrevKey(k) ==
  LET p       == PageOf(k)
      earlier == Some(SlotsBefore(p, SlotOf(k)), Max)
  IN  IF HasPage(p)
      THEN IF earlier # {} THEN KeysIn(p, earlier) ELSE LastOf(PageAt(p).prev)
      ELSE LastOf(Some({q \in bitmap : q <= p}, Max))

\* next_initialized_tick.
NextInitializedTick(k, zeroForOne) ==
  /\ IF zeroForOne
     THEN Answers("next down", k, Entries(IF Present(k) THEN {k} ELSE PrevKey(k)))
     ELSE Answers("next up", k, Entries(NextKey(k)))
  /\ UNCHANGED store

\* snapshot: the pages of the bitmap in order, the occupied slots of each.
Snapshot ==
  /\ Answers("snapshot", 0, UNION {Entries(KeysIn(p, PageAt(p).map)) : p \in bitmap})
  /\ UNCHANGED store

\* from_snapshot on a snapshot of this store: the pages get fresh slab keys
\* and payloads that were not visible are gone.
Reload ==
  \E keyOf \in [bitmap -> SlabKeys] :
    LET pageOf(key) == CHOOSE p \in bitmap : keyOf[p] = key
        fresh(p) == [slots |-> [s \in Slots |-> IF s \in PageAt(p).map
                                                THEN PageAt(p).slots[s] ELSE NoInfo],
                     map   |-> PageAt(p).map,
                     prev  |-> PrevPage(p),
                     next  |-> NextPage(p)]
    IN  /\ IsInjective(keyOf)
        /\ values' = [key \in {keyOf[p] : p \in bitmap} |-> fresh(pageOf(key))]
        /\ cache' = [p \in PageIdxs |-> IF p \in bitmap THEN keyOf[p] ELSE Absent]
        /\ UNCHANGED <<bitmap, answer>>

-----------------------------------------------------------------------------
Init ==
  /\ bitmap = {}
  /\ cache = [p \in PageIdxs |-> Absent]
  /\ values = [key \in {} |-> EmptyPage({}, {})]
  /\ answer = NoAnswer

Call ==
  \/ \E k \in TickKeys, info \in Infos :
       \/ InsertInPage(k, info)
       \/ \E key \in SlabKeys : InsertNewPage(k, info, key)
       \/ Update(k, info)
  \/ \E k \in TickKeys : InsertOutside(k) \/ Remove(k) \/ Get(k)
  \/ \E k \in TickKeys, zeroForOne \in BOOLEAN : NextInitializedTick(k, zeroForOne)
  \/ Snapshot
  \/ Reload

Next == Return \/ (answer = NoAnswer /\ Call)

Spec == Init /\ [][Next]_vars

-----------------------------------------------------------------------------
PageValues ==
  [slots : [Slots -> Infos \cup {NoInfo}], map : SUBSET Slots,
   prev : SUBSET PageIdxs, next : SUBSET PageIdxs]

TypeOK ==
  /\ bitmap \subseteq PageIdxs
  /\ cache \in [PageIdxs -> SlabKeys \cup {Absent}]
  /\ DOMAIN values \subseteq SlabKeys
  /\ \A key \in DOMAIN values : values[key] \in PageValues

\* The bitmap, the cache and the allocator agree on which pages exist: no slab
\* key is leaked, shared or dangling, and no empty page is kept.
PagesAgree ==
  /\ bitmap = {p \in PageIdxs : cache[p] # Absent}
  /\ DOMAIN values = {cache[p] : p \in bitmap}
  /\ \A p, q \in bitmap : cache[p] = cache[q] => p = q
  /\ \A p \in bitmap : PageAt(p).map # {}

\* The links of every page are its neighbours in the bitmap, whatever order
\* pages were added and freed in.
LinksFollowOrder ==
  \A p \in bitmap : PageAt(p).prev = PrevPage(p) /\ PageAt(p).next = NextPage(p)

\* The keys whose ticks are initialized.
InitializedKeys == {k \in TickKeys : Present(k)}

\* Every answer of the paged store is that of a plain ordered map: no query
\* misses a tick behind a freed page, finds a removed one or reads a payload
\* left behind by an earlier tick.
Plain == INSTANCE TickStore WITH
  Keys <- TickKeys, Capacity <- Pages * PageSize,
  store <- [k \in InitializedKeys |-> InfoAt(k)]
ImplementsTickStore == Plain!Spec
=============================================================================
