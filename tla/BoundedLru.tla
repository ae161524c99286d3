----------------------------- MODULE BoundedLru -----------------------------
(***************************************************************************)
(* refigure/mcp/_lru.py: BoundedLru, the store bounded by entry count and  *)
(* by total size on which the result store (ServerState) and the cache of  *)
(* model responses (BoundedLruVlmCache) are built.                         *)
(*                                                                         *)
(* Each method runs under the object's own lock, so it is one operator     *)
(* from a store to a store.  A store is a record:                          *)
(*   order  the keys, least recently used first (the OrderedDict's order)  *)
(*   entry  key -> [value, size]                                           *)
(*   total  the running byte counter _total_bytes                          *)
(***************************************************************************)
EXTENDS Integers, Sequences, FiniteSetsExt, SeqFilters

EmptyLru == [order |-> <<>>, entry |-> <<>>, total |-> 0]

LruKeys(l) == DOMAIN l.entry

\* The bytes of some of the entries.
LruSize(l, keys) == SumFunction([k \in keys |-> l.entry[k].size])

\* The stores over given keys, values and sizes.  The order lists the keys of
\* the entries, and nothing else.
IsLru(l, Keys, Values, Sizes) ==
  /\ l = [order |-> l.order, entry |-> l.entry, total |-> l.total]
  /\ l.order \in Seq(Keys)
  /\ LruKeys(l) = Elements(l.order)
  /\ l.entry \in [LruKeys(l) -> [value : Values, size : Sizes]]

\* remove(key): a point eviction that the caller already knows about.
LruRemove(l, key) ==
  IF key \notin LruKeys(l)
  THEN l
  ELSE LET rest == LruKeys(l) \ {key}
       IN  [order |-> Kept(l.order, rest),
            entry |-> Restrict(l.entry, rest),
            total |-> l.total - l.entry[key].size]

\* Mutant: a read that does not count as a use.
LruTouchNot(l, key) == l

\* The state change of get(key): a hit becomes the most recently used entry,
\* whatever the caller then makes of the value.
LruTouch(l, key) ==
  IF key \notin LruKeys(l)
  THEN l
  ELSE [l EXCEPT !.order = Append(Kept(@, LruKeys(l) \ {key}), key)]

\* The first half of insert(): an entry of the same key is popped, the new
\* one goes to the end.
LruPut(l, key, value, size) ==
  LET r == LruRemove(l, key)
  IN  [order |-> Append(r.order, key),
       entry |-> [k \in LruKeys(r) \cup {key} |->
                    IF k = key THEN [value |-> value, size |-> size]
                               ELSE r.entry[k]],
       total |-> r.total + size]

\* The byte counter once the n oldest entries have been popped.
LruTotalWithout(l, n) ==
  l.total - Running([i \in 1..Len(l.order) |-> l.entry[l.order[i]].size])[n]

\* Mutant: a store that is exactly full counts as over its limit.
LruFitsBelow(l, n, maxEntries, maxBytes) ==
  \/ Len(l.order) - n <= 1
  \/ Len(l.order) - n <= maxEntries /\ LruTotalWithout(l, n) < maxBytes

\* The eviction loop stops after n pops: one entry is left, or both limits hold.
LruFits(l, n, maxEntries, maxBytes) ==
  \/ Len(l.order) - n <= 1
  \/ /\ Len(l.order) - n <= maxEntries
     /\ LruTotalWithout(l, n) <= maxBytes

\* Mutant: an IF where the code has a WHILE, one pop at most.
LruExcessOnce(l, maxEntries, maxBytes) == IF LruFits(l, 0, maxEntries, maxBytes) THEN 0 ELSE 1

\* How many of the oldest entries the loop pops.
LruExcess(l, maxEntries, maxBytes) ==
  Min({n \in 0..Len(l.order) : LruFits(l, n, maxEntries, maxBytes)})

\* Mutant: the evicted keys leave the order but not the entries.
LruDropOldestFromOrder(l, n) ==
  [l EXCEPT !.order = SubSeq(@, n + 1, Len(@)), !.total = LruTotalWithout(l, n)]

LruDropOldest(l, n) ==
  LET order == SubSeq(l.order, n + 1, Len(l.order))
  IN  [order |-> order,
       entry |-> Restrict(l.entry, Elements(order)),
       total |-> LruTotalWithout(l, n)]

\* insert(key, value, size).
LruInsert(l, key, value, size, maxEntries, maxBytes) ==
  LET put == LruPut(l, key, value, size)
  IN  LruDropOldest(put, LruExcess(put, maxEntries, maxBytes))

\* The keys for which insert() calls on_evict: evicted by its own loop, the
\* replaced entry of the same key not among them.
LruEvicted(l, key, value, size, maxEntries, maxBytes) ==
  (LruKeys(l) \cup {key}) \ LruKeys(LruInsert(l, key, value, size, maxEntries, maxBytes))
=============================================================================
