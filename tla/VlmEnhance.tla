----------------------------- MODULE VlmEnhance -----------------------------
(***************************************************************************)
(* refigure/vlm/__init__.py: enhance_docx_markdown(), the part of a DOCX   *)
(* conversion that pays.  Each marker of the converted document (images,   *)
(* then groups) is resolved from the cache, or by a call to a model that   *)
(* describes its picture, and when verification is on by a second call     *)
(* that judges the description.                                            *)
(*                                                                         *)
(* Conversions run in worker threads and share one cache, the MCP server's *)
(* BoundedLruVlmCache, which copies its entries in and out and may evict   *)
(* an entry whenever another is set.  A cache access or a paid call is one *)
(* action; everything else interleaves.                                    *)
(*                                                                         *)
(* Abstractions: a marker is its id; the same picture pasted twice is the  *)
(* same id twice.  An entry is described by whether it carries a verdict.  *)
(* The judges of a panel are one call.                                     *)
(***************************************************************************)
EXTENDS Integers, FiniteSetsExt, Functions, SequencesExt

CONSTANTS
  Convs,     \* conversions
  Ids,       \* marker ids
  MaxLen,    \* the most markers in a document
  Limits,    \* values of vlm_max_markers, without None
  MaxLosses  \* bound on the entries, reads and writes that the cache loses

ASSUME EnhanceAssumption ==
  /\ MaxLen \in Nat /\ Limits \subseteq Nat /\ MaxLosses \in Nat

NoLimit == -1                  \* vlm_max_markers = None
Miss == [hit |-> FALSE]
Entry == [hit : {TRUE}, judged : BOOLEAN]
Described == [hit |-> TRUE, judged |-> FALSE]

Positions == 1..MaxLen
Documents == UNION {[1..n -> Ids] : n \in 0..MaxLen}

VARIABLES
  cache,     \* id -> entry, for the ids it holds
  pc,        \* per conversion: where it is
  doc,       \* its markers
  verify,    \* vlm_verify
  limit,     \* vlm_max_markers
  at,        \* the marker of the loop it is in
  probed,    \* prefetched_entries: id -> entry or Miss
  cost,      \* paid_count
  entry,     \* the entry of the current marker
  filled,    \* the markers it has replaced by a description
  described, \* history: the markers it paid a description for
  judged,    \* history: the markers it paid a verdict for
  known,     \* history: the ids the cache held when it started
  losses     \* history: how often the cache lost something

local == <<doc, verify, limit>>
history == <<described, judged, known>>
vars == <<cache, pc, doc, verify, limit, at, probed, cost, entry, filled, history, losses>>

Init ==
  /\ cache \in UNION {[held -> Entry] : held \in SUBSET Ids}
  /\ pc = [c \in Convs |-> "idle"]
  /\ doc = [c \in Convs |-> <<>>]
  /\ verify = [c \in Convs |-> FALSE]
  /\ limit = [c \in Convs |-> NoLimit]
  /\ at = [c \in Convs |-> 1]
  /\ probed = [c \in Convs |-> <<>>]
  /\ cost = [c \in Convs |-> 0]
  /\ entry = [c \in Convs |-> Miss]
  /\ filled = [c \in Convs |-> {}]
  /\ described = [c \in Convs |-> {}]
  /\ judged = [c \in Convs |-> {}]
  /\ known = [c \in Convs |-> {}]
  /\ losses = 0

-----------------------------------------------------------------------------
Lose == losses < MaxLosses /\ losses' = losses + 1

Held(id) == IF id \in DOMAIN cache THEN cache[id] ELSE Miss
CacheSet(id, e) == [k \in DOMAIN cache \cup {id} |-> IF k = id THEN e ELSE cache[k]]

\* _cache_get_safely() reads e: what the cache holds, or a miss when get()
\* raises or what it returns is malformed.
CacheGet(id, e) ==
  \/ e = Held(id) /\ UNCHANGED losses
  \/ e = Miss /\ Lose

Marker(c) == doc[c][at[c]]
NeedsVerdict(c, e) == e.hit /\ verify[c] /\ ~e.judged
NeedsPaidCall(c, e) == ~e.hit \/ NeedsVerdict(c, e)

Goto(c, place) == pc' = [pc EXCEPT ![c] = place]
\* The loop goes on with the next marker, leaving this one as it is ...
Skip(c) == /\ Goto(c, "resolve")
           /\ at' = [at EXCEPT ![c] = @ + 1]
           /\ UNCHANGED filled
\* ... or with its description in its place.
Fill(c) == /\ Goto(c, "resolve")
           /\ at' = [at EXCEPT ![c] = @ + 1]
           /\ filled' = [filled EXCEPT ![c] = @ \cup {at[c]}]

\* A conversion starts.  Without markers, or when the archive does not pass
\* its second check, there is nothing to enhance.
Start(c, d, v, lim) ==
  /\ pc[c] = "idle"
  /\ doc' = [doc EXCEPT ![c] = d]
  /\ verify' = [verify EXCEPT ![c] = v]
  /\ limit' = [limit EXCEPT ![c] = lim]
  /\ known' = [known EXCEPT ![c] = DOMAIN cache]
  /\ \/ d # <<>> /\ Goto(c, IF lim = NoLimit THEN "resolve" ELSE "probe")
     \/ Goto(c, "done")
  /\ UNCHANGED <<cache, at, probed, cost, entry, filled, described, judged, losses>>

\* Pre-flight: one look at the cache per marker, remembered under its id.
Probe(c) ==
  /\ pc[c] = "probe" /\ at[c] <= Len(doc[c])
  /\ \E e \in Entry \cup {Miss} :
       /\ CacheGet(Marker(c), e)
       /\ probed' = [probed EXCEPT ![c] =
                       [k \in DOMAIN @ \cup {Marker(c)} |-> IF k = Marker(c) THEN e ELSE @[k]]]
       /\ cost' = [cost EXCEPT ![c] = @ + (IF NeedsPaidCall(c, e) THEN 1 ELSE 0)]
  /\ at' = [at EXCEPT ![c] = @ + 1]
  /\ UNCHANGED <<cache, pc, local, entry, filled, history>>

\* VlmMarkerLimitExceededError, or the first loop.
Decide(c) ==
  /\ pc[c] = "probe" /\ at[c] > Len(doc[c])
  /\ Goto(c, IF cost[c] > limit[c] THEN "refused" ELSE "resolve")
  /\ at' = [at EXCEPT ![c] = 1]
  /\ UNCHANGED <<cache, local, probed, cost, entry, filled, history, losses>>

\* The loop has the entry e for its marker: a paid call is due, or none.
Resolve(c, e) ==
  /\ entry' = [entry EXCEPT ![c] = e]
  /\ \/ ~e.hit /\ Goto(c, "describe") /\ UNCHANGED <<at, filled>>
     \/ NeedsVerdict(c, e) /\ Goto(c, "judge") /\ UNCHANGED <<at, filled>>
     \/ ~NeedsPaidCall(c, e) /\ Fill(c)
  /\ UNCHANGED <<cache, local, probed, cost, history>>

\* Mutant: the loop asks the cache again.
LookAgain(c) ==
  /\ pc[c] = "resolve" /\ at[c] <= Len(doc[c])
  /\ \E e \in Entry \cup {Miss} : CacheGet(Marker(c), e) /\ Resolve(c, e)

\* _get_entry(): what pre-flight saw, or the cache.
Look(c) ==
  /\ pc[c] = "resolve" /\ at[c] <= Len(doc[c])
  /\ IF Marker(c) \in DOMAIN probed[c]
     THEN Resolve(c, probed[c][Marker(c)]) /\ UNCHANGED losses
     ELSE \E e \in Entry \cup {Miss} : CacheGet(Marker(c), e) /\ Resolve(c, e)

\* The picture is not found again or does not render, so nothing is paid.
NoPicture(c) ==
  /\ \/ pc[c] = "describe" /\ Skip(c)
     \/ pc[c] = "judge" /\ at[c] \notin described[c] /\ Fill(c)
  /\ UNCHANGED <<cache, local, probed, cost, entry, history, losses>>

\* Mutant: a failed call is cached too.
DescribeAndStore(c) ==
  /\ pc[c] = "describe"
  /\ described' = [described EXCEPT ![c] = @ \cup {at[c]}]
  /\ \E e \in {Miss, Described} : entry' = [entry EXCEPT ![c] = e]
  /\ Goto(c, "store")
  /\ UNCHANGED <<cache, local, at, filled, probed, cost, judged, known, losses>>

\* The call that describes: it may fail, and the marker stays bare.
Describe(c) ==
  /\ pc[c] = "describe"
  /\ described' = [described EXCEPT ![c] = @ \cup {at[c]}]
  /\ \/ Skip(c) /\ UNCHANGED entry
     \/ /\ entry' = [entry EXCEPT ![c] = Described]
        /\ Goto(c, IF verify[c] THEN "judge" ELSE "store")
        /\ UNCHANGED <<at, filled>>
  /\ UNCHANGED <<cache, local, probed, cost, judged, known, losses>>

\* Mutant: a judge that fails leaves the entry without a verdict.
JudgeOrNot(c) ==
  /\ pc[c] = "judge"
  /\ judged' = [judged EXCEPT ![c] = @ \cup {at[c]}]
  /\ \E v \in BOOLEAN : entry' = [entry EXCEPT ![c].judged = v]
  /\ Goto(c, "store")
  /\ UNCHANGED <<cache, local, at, probed, cost, filled, described, known, losses>>

\* The call that judges: a failure is no defect found.  The verdict is written
\* into the entry in hand, which is also the one pre-flight remembered, unless
\* pre-flight had a miss.
Judge(c) ==
  /\ pc[c] = "judge"
  /\ judged' = [judged EXCEPT ![c] = @ \cup {at[c]}]
  /\ entry' = [entry EXCEPT ![c].judged = TRUE]
  /\ probed' = [probed EXCEPT ![c] =
                  [k \in DOMAIN @ |-> IF k = Marker(c) /\ @[k].hit THEN entry'[c] ELSE @[k]]]
  /\ Goto(c, "store")
  /\ UNCHANGED <<cache, local, at, cost, filled, described, known, losses>>

\* Mutant: the entry is not written.
StoreNothing(c) ==
  /\ pc[c] = "store"
  /\ Fill(c)
  /\ UNCHANGED <<cache, local, probed, cost, entry, history, losses>>

\* _cache_set_safely(): the description is used even if the write fails.
Store(c) ==
  /\ pc[c] = "store"
  /\ \/ cache' = CacheSet(Marker(c), entry[c]) /\ UNCHANGED losses
     \/ Lose /\ UNCHANGED cache
  /\ Fill(c)
  /\ UNCHANGED <<local, probed, cost, entry, history>>

\* No API key, or no soffice for a group of a strict conversion.
Fail(c) ==
  /\ pc[c] = "describe" \/ (pc[c] = "judge" /\ at[c] \notin described[c])
  /\ Goto(c, "failed")
  /\ UNCHANGED <<cache, local, at, probed, cost, entry, filled, history, losses>>

Finish(c) ==
  /\ pc[c] = "resolve" /\ at[c] > Len(doc[c])
  /\ Goto(c, "done")
  /\ UNCHANGED <<cache, local, at, probed, cost, entry, filled, history, losses>>

\* BoundedLru drops an entry for the sake of some other.
Evict(id) ==
  /\ Lose /\ id \in DOMAIN cache
  /\ cache' = Restrict(cache, DOMAIN cache \ {id})
  /\ UNCHANGED <<pc, local, at, probed, cost, entry, filled, history>>

Step(c) == Probe(c) \/ Decide(c) \/ Look(c) \/ NoPicture(c) \/ Describe(c) \/ Judge(c)
             \/ Store(c) \/ Fail(c) \/ Finish(c)

Next ==
  \/ \E c \in Convs, d \in Documents, v \in BOOLEAN, lim \in Limits \cup {NoLimit} :
       Start(c, d, v, lim)
  \/ \E c \in Convs : Step(c)
  \/ \E id \in Ids : Evict(id)

Spec == Init /\ [][Next]_vars

-----------------------------------------------------------------------------
(* Properties *)

Paid(c) == described[c] \cup judged[c]

\* The types of the state.
TypeOK ==
  /\ DOMAIN cache \subseteq Ids /\ cache \in [DOMAIN cache -> Entry]
  /\ pc \in [Convs -> {"idle", "probe", "resolve", "describe", "judge", "store",
                       "done", "refused", "failed"}]
  /\ doc \in [Convs -> Documents]
  /\ verify \in [Convs -> BOOLEAN]
  /\ limit \in [Convs -> Limits \cup {NoLimit}]
  /\ at \in [Convs -> 1..(MaxLen + 1)]
  /\ DOMAIN probed = Convs
  /\ \A c \in Convs : /\ DOMAIN probed[c] \subseteq Ids
                      /\ probed[c] \in [DOMAIN probed[c] -> Entry \cup {Miss}]
  /\ cost \in [Convs -> 0..MaxLen]
  /\ entry \in [Convs -> Entry \cup {Miss}]
  /\ {filled, described, judged} \subseteq [Convs -> SUBSET Positions]
  /\ known \in [Convs -> SUBSET Ids]
  /\ losses \in 0..MaxLosses

\* What vlm_max_markers' docstring promises: the conversion pays for at most
\* that many markers, and for none at all when it would need more, whatever
\* happens to the cache between the count and the calls.
SpendWithinLimit ==
  \A c \in Convs : limit[c] # NoLimit =>
    /\ Cardinality(Paid(c)) <= limit[c]
    /\ pc[c] = "refused" => Paid(c) = {}

\* The same of a document that shows no picture twice, over a cache that may
\* lose an entry, or fail a read, between the count and the call.
SpendWithinLimitIfDistinct ==
  \A c \in Convs :
    (limit[c] # NoLimit /\ IsInjective(doc[c])) => Cardinality(Paid(c)) <= limit[c]

\* While the cache loses nothing and every read and write of it succeeds,
\* nothing that has been paid for is paid for again: no conversion pays for a
\* description that was cached when it started, and without pre-flight, none
\* pays twice for a picture it has described.
CachedStaysFree ==
  losses = 0 => \A c \in Convs : \A j \in described[c] :
    /\ doc[c][j] \notin known[c]
    /\ \A i \in described[c] :
         (limit[c] = NoLimit /\ i \in filled[c] /\ i < j) => doc[c][i] # doc[c][j]

\* When every conversion verifies, a verdict leaves the cache only by eviction:
\* no conversion overwrites it with an entry it read or made without one.
VerdictsStep ==
  \A id \in DOMAIN cache \cap DOMAIN cache' :
    (cache[id].judged /\ \A c \in Convs : pc[c] # "idle" => verify[c]) => cache'[id].judged
VerdictsKept == [][VerdictsStep]_vars
=============================================================================
