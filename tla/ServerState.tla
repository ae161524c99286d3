---------------------------- MODULE ServerState -----------------------------
(***************************************************************************)
(* refigure/mcp/state.py: ServerState, the store of converted documents    *)
(* behind refigure://conversion/{id}.                                      *)
(*                                                                         *)
(* A result lives in the shared LRU store, tagged with the caller that     *)
(* produced it and the time of its insertion.  When the soft cap is on, a  *)
(* second index (by_caller, caller_bytes) follows the store per caller, so *)
(* that a caller over a quarter of the store trims its own oldest results. *)
(* insert() and get() run on the event loop, insert() under ServerState's  *)
(* lock: each is one action.  The rate counters of the same class share    *)
(* no state with the store and are modelled in RateLimit.                  *)
(*                                                                         *)
(* Abstractions: the n-th id handed out is n (the code draws 128 random    *)
(* bits), a document is its id and its size, time.monotonic() is a clock   *)
(* that ticks in whole units.                                              *)
(***************************************************************************)
EXTENDS BoundedLru

CONSTANTS
  Callers,      \* caller ids, the clients of the tokens
  Sizes,        \* sizes of the documents that are stored
  MaxEntries, MaxBytes, Ttl,  \* the store's limits
  SoftCap,      \* soft_cap_enabled
  MaxInserts,   \* bound on the number of inserts
  MaxClock      \* bound on the clock

ASSUME StoreAssumption ==
  /\ IsFiniteSet(Callers) /\ Sizes \subseteq Nat
  /\ MaxEntries \in Nat \ {0} /\ MaxBytes \in Nat \ {0} /\ Ttl \in Nat
  /\ SoftCap \in BOOLEAN
  /\ MaxInserts \in Nat /\ MaxClock \in Nat

VARIABLES
  lru,          \* _lru: id -> [caller, at], by BoundedLru
  byCaller,     \* _by_caller: caller -> its ids, oldest insertion first
  callerBytes,  \* _caller_bytes: caller -> bytes
  now,          \* time.monotonic()
  reply,        \* what the last get() answered
  issued        \* history: for each id handed out, what was stored under it

vars == <<lru, byCaller, callerBytes, now, reply, issued>>

Ids == 1..MaxInserts
Result == [caller : Callers, size : Sizes, at : 0..MaxClock]
None == [found |-> FALSE]

Ceiling(n) == IF n < 1 THEN 1 ELSE n   \* max(1, n)
QuotaEntries == Ceiling(MaxEntries \div 4)
QuotaBytes == Ceiling(MaxBytes \div 4)

Init ==
  /\ lru = EmptyLru
  /\ byCaller = <<>>
  /\ callerBytes = <<>>
  /\ now = 0
  /\ reply = None
  /\ issued = <<>>

-----------------------------------------------------------------------------
(* insert() *)

\* _by_caller.setdefault(c, ...) and _caller_bytes.get(c, 0).
OwnIds(c) == IF c \in DOMAIN byCaller THEN byCaller[c] ELSE <<>>
OwnBytes(c) == IF c \in DOMAIN callerBytes THEN callerBytes[c] ELSE 0

\* The size an own id still has in the store, 0 if remove() does not find it.
HeldSize(id) == IF id \in LruKeys(lru) THEN lru.entry[id].size ELSE 0

OwnBytesWithout(c, n) ==
  OwnBytes(c) - Running([i \in 1..Len(OwnIds(c)) |-> HeldSize(OwnIds(c)[i])])[n]

\* Mutants: the trim leaves room for no further entry, or counts entries only.
OwnExcessLate(c, size) ==
  Min({n \in 0..Len(OwnIds(c)) :
         \/ n = Len(OwnIds(c))
         \/ Len(OwnIds(c)) - n <= QuotaEntries /\ OwnBytesWithout(c, n) + size <= QuotaBytes})
OwnExcessEntries(c, size) ==
  Min({n \in 0..Len(OwnIds(c)) : n = Len(OwnIds(c)) \/ Len(OwnIds(c)) - n < QuotaEntries})

\* How many of its own oldest results c gives up before a result of this size.
OwnExcess(c, size) ==
  Min({n \in 0..Len(OwnIds(c)) :
         \/ n = Len(OwnIds(c))
         \/ /\ Len(OwnIds(c)) - n < QuotaEntries
            /\ OwnBytesWithout(c, n) + size <= QuotaBytes})

\* _lru.remove() for each of the first n own ids, in that order.
LruWithoutOwn(c, n) ==
  LET l[k \in 0..n] == IF k = 0 THEN lru ELSE LruRemove(l[k-1], OwnIds(c)[k])
  IN  l[n]

\* The index after the trim and the new entry, before the shared store's turn.
TrimmedIds(c, n, id) ==
  [d \in DOMAIN byCaller \cup {c} |->
     IF d = c THEN Append(SubSeq(OwnIds(c), n + 1, Len(OwnIds(c))), id)
              ELSE byCaller[d]]
TrimmedBytes(c, n, size) ==
  [d \in DOMAIN callerBytes \cup {c} |->
     IF d = c THEN OwnBytesWithout(c, n) + size ELSE callerBytes[d]]

\* Mutants: _on_evict is not called, or adjusts only one of the two indexes.
IndexAfterEvictionForgotten(ids, l, evicted) == ids
BytesAfterEvictionForgotten(bytes, l, evicted) == bytes

\* _on_evict for every evicted result of a store l: its id leaves its
\* caller's ids, its size its caller's bytes.
IndexAfterEviction(ids, l, evicted) ==
  [d \in DOMAIN ids |-> Kept(ids[d], Ids \ {e \in evicted : l.entry[e].value.caller = d})]
BytesAfterEviction(bytes, l, evicted) ==
  [d \in DOMAIN bytes |->
     bytes[d] - LruSize(l, {e \in evicted : l.entry[e].value.caller = d})]

Insert(c, size) ==
  LET id == Len(issued) + 1
      n == IF SoftCap THEN OwnExcess(c, size) ELSE 0
      trimmed == IF SoftCap THEN LruWithoutOwn(c, n) ELSE lru
      value == [caller |-> c, at |-> now]
      put == LruPut(trimmed, id, value, size)
      evicted == LruEvicted(trimmed, id, value, size, MaxEntries, MaxBytes)
      ids == IF SoftCap THEN TrimmedIds(c, n, id) ELSE byCaller
      bytes == IF SoftCap THEN TrimmedBytes(c, n, size) ELSE callerBytes
  IN  /\ Len(issued) < MaxInserts
      /\ lru' = LruInsert(trimmed, id, value, size, MaxEntries, MaxBytes)
      /\ byCaller' = IndexAfterEviction(ids, put, evicted)
      /\ callerBytes' = BytesAfterEviction(bytes, put, evicted)
      /\ issued' = Append(issued, [caller |-> c, size |-> size, at |-> now])
      /\ reply' = None
      /\ UNCHANGED now

-----------------------------------------------------------------------------
(* get() and the clock *)

\* Mutant: a read asks for no caller.
GetAnybodys(c, id) ==
  /\ lru' = LruTouch(lru, id)
  /\ reply' = IF id \in LruKeys(lru) /\ now - lru.entry[id].value.at <= Ttl
              THEN [found |-> TRUE, caller |-> c, id |-> id]
              ELSE None
  /\ UNCHANGED <<byCaller, callerBytes, now, issued>>

\* get(id, c): a hit is touched even when it is expired or someone else's.
Get(c, id) ==
  LET value == lru.entry[id].value
  IN  /\ lru' = LruTouch(lru, id)
      /\ reply' = IF /\ id \in LruKeys(lru)
                     /\ now - value.at <= Ttl
                     /\ value.caller = c
                  THEN [found |-> TRUE, caller |-> c, id |-> id]
                  ELSE None
      /\ UNCHANGED <<byCaller, callerBytes, now, issued>>

Tick ==
  /\ now < MaxClock
  /\ now' = now + 1
  /\ reply' = None
  /\ UNCHANGED <<lru, byCaller, callerBytes, issued>>

Next ==
  \/ \E c \in Callers, size \in Sizes : Insert(c, size)
  \/ \E c \in Callers, id \in Ids : Get(c, id)
  \/ Tick

Spec == Init /\ [][Next]_vars

-----------------------------------------------------------------------------
(* Properties *)

Owned(c) == {id \in LruKeys(lru) : lru.entry[id].value.caller = c}
SizeOf(ids) == LruSize(lru, ids)

\* The types of the state.
TypeOK ==
  /\ IsLru(lru, Ids, [caller : Callers, at : 0..MaxClock], Sizes)
  /\ DOMAIN byCaller \subseteq Callers
  /\ byCaller \in [DOMAIN byCaller -> Seq(Ids)]
  /\ DOMAIN callerBytes = DOMAIN byCaller
  /\ now \in 0..MaxClock
  /\ reply \in {None} \cup [found : {TRUE}, caller : Callers, id : Ids]
  /\ issued \in Seq(Result) /\ Len(issued) <= MaxInserts

\* A caller's index lists its results that are still in the store ...
IndexComplete ==
  IF SoftCap
  THEN \A c \in Callers : Elements(OwnIds(c)) = Owned(c)
  ELSE byCaller = <<>> /\ callerBytes = <<>>

\* ... in the order they were handed out.
IndexOldestFirst == \A c \in DOMAIN byCaller : Increasing(byCaller[c])

\* state.py keeps by_caller in step with a store that evicts behind its back
\* (_on_evict): with the soft cap on, a caller's index lists exactly its
\* results that are still in the store, in the order they were handed out,
\* however they were read: the trim takes the oldest insertion first.  With the
\* soft cap off, it stays empty.
IndexExact == IndexComplete /\ IndexOldestFirst

\* The three byte counters that are only ever adjusted by differences
\* (_total_bytes, _caller_bytes) never drift from the sizes they stand for.
BytesExact ==
  /\ lru.total = SizeOf(LruKeys(lru))
  /\ \A c \in DOMAIN callerBytes : callerBytes[c] = SizeOf(Owned(c))

\* BoundedLru's limits hold between calls, but for one entry that is too
\* large by itself, which is kept alone.
StoreBounded ==
  \/ Len(lru.order) <= 1
  \/ Len(lru.order) <= MaxEntries /\ lru.total <= MaxBytes

\* No caller holds more than its quarter of the store, but for one result
\* that exceeds the quarter by itself.
QuotaKept ==
  SoftCap => \A c \in Callers :
    \/ Cardinality(Owned(c)) <= 1
    \/ Cardinality(Owned(c)) <= QuotaEntries /\ SizeOf(Owned(c)) <= QuotaBytes

\* The tag under which a result is guarded is the one it was put with: the
\* caller of the put and the time of the put, which no read moves.
TagsFaithful ==
  \A id \in LruKeys(lru) :
    /\ id \in 1..Len(issued)
    /\ lru.entry[id].value = [caller |-> issued[id].caller, at |-> issued[id].at]
    /\ lru.entry[id].size = issued[id].size

\* ServerState implements what it promises its callers: isolation, expiry
\* counted from the put, and a result that is there right after it was put.
Promise == INSTANCE ResultStore WITH live <- LruKeys(lru)
KeepsPromise == Promise!Spec

\* An insert never forgets more than it must: a result of another caller is
\* dropped only if it, the results used since and the new one together were
\* over a limit, after the inserting caller had trimmed its own.
Position(id) == CHOOSE i \in 1..Len(lru.order) : lru.order[i] = id
OwnTrim(c, size) ==
  IF SoftCap THEN {OwnIds(c)[i] : i \in 1..OwnExcess(c, size)} ELSE {}
NeedlessFor(c, size, id) ==
  LET since == {e \in LruKeys(lru) : Position(e) >= Position(id)} \ OwnTrim(c, size)
  IN  Cardinality(since) + 1 <= MaxEntries /\ SizeOf(since) + size <= MaxBytes
NoNeedlessEviction ==
  [][\A id \in LruKeys(lru) \ LruKeys(lru') :
       LET new == issued'[Len(issued')]
       IN  lru.entry[id].value.caller # new.caller => ~NeedlessFor(new.caller, new.size, id)]_vars

\* BoundedLru is a genuine LRU: without the soft cap, the result that was
\* just read outlives the next insert whenever the two fit together.
ReadSurvivesInsert ==
  [][(/\ ~SoftCap /\ MaxEntries >= 2
      /\ reply.found
      /\ Len(issued') > Len(issued)
      /\ lru.entry[reply.id].size + issued'[Len(issued')].size <= MaxBytes)
     => reply.id \in LruKeys(lru')]_vars

\* While the quotas of all callers fit into the store (at most four callers, of
\* a store of at least four) and no result is larger than its caller's quota,
\* an insert drops nobody else's results.
QuotasFit ==
  /\ Cardinality(Callers) * QuotaEntries <= MaxEntries
  /\ Cardinality(Callers) * QuotaBytes <= MaxBytes
NeighboursSafe ==
  [][(/\ SoftCap /\ QuotasFit
      /\ \A i \in DOMAIN issued' : issued'[i].size <= QuotaBytes)
     => \A id \in LruKeys(lru) \ LruKeys(lru') :
          lru.entry[id].value.caller = issued'[Len(issued')].caller]_vars

=============================================================================
