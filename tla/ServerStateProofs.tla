------------------------- MODULE ServerStateProofs --------------------------
(***************************************************************************)
(* ServerState for every number of callers, every limit and every clock:   *)
(* its types, the exactness of the per-caller index and of the counters,   *)
(* the truth of the tags that guard a result, its limits and quotas, which *)
(* results it may drop, and that it implements ResultStore.  The first     *)
(* sections are about the operations of BoundedLru, for every store.       *)
(***************************************************************************)
EXTENDS ServerState, SeqFiltersProofs, FiniteSetTheorems

-----------------------------------------------------------------------------
(* The store: sums over finite sets *)

\* The recursion behind SumFunctionOnSet.
Picked(s) == CHOOSE x \in s : TRUE
SumStep(w, g, s) == IF s = {} THEN 0 ELSE w[Picked(s)] + g[s \ {Picked(s)}]
IsSum(w, f, S) == \A T \in SUBSET S : f[T] = SumStep(w, f, T)

\* SumFunctionOnSet is well defined on a finite set.
LEMMA SumExists ==
  ASSUME NEW S, IsFiniteSet(S), NEW w
  PROVE  \E f : IsSum(w, f, S) /\ SumFunctionOnSet(w, S) = f[S]
<1> DEFINE Good(g, n) == \A T \in SUBSET S : Cardinality(T) <= n => g[T] = SumStep(w, g, T)
           P == {n \in Nat : \E g : Good(g, n)}
<1>1. 0 \in P
  <2> DEFINE g0 == [T \in SUBSET S |-> 0]
  <2>1. ASSUME NEW T \in SUBSET S, Cardinality(T) <= 0 PROVE g0[T] = SumStep(w, g0, T)
    <3>1. T = {}
      BY <2>1, FS_Subset, FS_EmptySet, FS_CardinalityType
    <3> QED BY <3>1 DEF SumStep
  <2> QED BY <2>1
<1>2. ASSUME NEW n \in Nat, n \in P PROVE n + 1 \in P
  <2>1. PICK g : Good(g, n)
    BY <1>2
  <2> DEFINE h == [T \in SUBSET S |-> SumStep(w, g, T)]
  <2>2. ASSUME NEW T \in SUBSET S, Cardinality(T) <= n PROVE h[T] = g[T]
    BY <2>1, <2>2
  <2>3. ASSUME NEW T \in SUBSET S, Cardinality(T) <= n + 1 PROVE h[T] = SumStep(w, h, T)
    <3>1. h[T] = SumStep(w, g, T)
      OBVIOUS
    <3>2. CASE T = {}
      BY <3>1, <3>2 DEF SumStep
    <3>3. CASE T # {}
      <4> DEFINE U == T \ {Picked(T)}
      <4>1. Picked(T) \in T
        BY <3>3 DEF Picked
      <4>2. U \in SUBSET S /\ Cardinality(U) <= n
        <5>1. IsFiniteSet(T)
          BY FS_Subset
        <5>2. Cardinality(U) = Cardinality(T) - 1 /\ Cardinality(T) \in Nat
          BY <4>1, <5>1, FS_RemoveElement, FS_CardinalityType
        <5> QED BY <2>3, <5>2
      <4>3. h[U] = g[U]
        BY <2>2, <4>2
      <4> HIDE DEF h
      <4> QED BY <3>1, <3>3, <4>3 DEF SumStep
    <3> QED BY <3>2, <3>3
  <2> HIDE DEF h
  <2>4. Good(h, n + 1)
    BY <2>3
  <2> QED BY <2>4
<1>3. Cardinality(S) \in Nat
  BY FS_CardinalityType
<1>4. Cardinality(S) \in P
  <2> HIDE DEF P
  <2> QED BY <1>1, <1>2, <1>3, NatSetInduction
<1>5. PICK g : Good(g, Cardinality(S))
  BY <1>4
<1>6. ASSUME NEW T \in SUBSET S PROVE g[T] = SumStep(w, g, T)
  BY <1>5, FS_Subset
<1> DEFINE k == [T \in SUBSET S |-> SumStep(w, g, T)]
<1>7. \A T \in SUBSET S : k[T] = g[T]
  BY <1>6
<1>8. k = [T \in SUBSET S |-> SumStep(w, k, T)]
  <2>1. ASSUME NEW T \in SUBSET S PROVE SumStep(w, g, T) = SumStep(w, k, T)
    <3>1. T \ {Picked(T)} \in SUBSET S
      OBVIOUS
    <3>2. k[T \ {Picked(T)}] = g[T \ {Picked(T)}]
      BY <1>7, <3>1
    <3> HIDE DEF k
    <3> QED BY <3>2 DEF SumStep
  <2> QED BY <2>1
<1> DEFINE f == CHOOSE ff : ff = [T \in SUBSET S |-> SumStep(w, ff, T)]
<1> HIDE DEF k
<1>9. f = [T \in SUBSET S |-> SumStep(w, f, T)]
  BY <1>8
<1>10. SumFunctionOnSet(w, S) = f[S]
  BY DEF SumFunctionOnSet, FoldFunctionOnSet, MapThenFoldSet, SumStep, Picked
<1> HIDE DEF f
<1>11. IsSum(w, f, S)
  BY <1>9 DEF IsSum
<1> QED BY <1>10, <1>11

\* A set of n + 1 elements less any one of them has n.
LEMMA PickOne ==
  ASSUME NEW S, IsFiniteSet(S), NEW T \in SUBSET S, NEW n \in Nat, Cardinality(T) = n + 1
  PROVE  /\ Picked(T) \in T
         /\ \A x \in T : T \ {x} \in SUBSET S /\ Cardinality(T \ {x}) = n
<1>1. IsFiniteSet(T)
  BY FS_Subset
<1>2. T # {}
  <2>1. Cardinality({}) = 0
    BY FS_EmptySet
  <2> QED BY <2>1
<1>3. ASSUME NEW x \in T PROVE Cardinality(T \ {x}) = n
  <2>1. Cardinality(T \ {x}) = Cardinality(T) - 1
    BY <1>1, FS_RemoveElement
  <2> QED BY <2>1
<1> QED BY <1>2, <1>3 DEF Picked

\* Two sums of the same numbers over the same finite set take the same way.
LEMMA SumAgrees ==
  ASSUME NEW S, IsFiniteSet(S), NEW w, NEW v, NEW f, NEW g, NEW A,
         S \subseteq A, IsSum(w, f, A), IsSum(v, g, S),
         \A x \in S : w[x] = v[x]
  PROVE  f[S] = g[S]
<1> DEFINE P == {n \in Nat : \A T \in SUBSET S : Cardinality(T) = n => f[T] = g[T]}
<1>1. 0 \in P
  <2> SUFFICES ASSUME NEW T \in SUBSET S, Cardinality(T) = 0 PROVE f[T] = g[T]
    OBVIOUS
  <2>1. T = {}
    BY FS_Subset, FS_EmptySet
  <2>2. T \in SUBSET A
    OBVIOUS
  <2>3. f[T] = SumStep(w, f, T) /\ g[T] = SumStep(v, g, T)
    BY <2>2 DEF IsSum
  <2> QED BY <2>1, <2>3 DEF SumStep
<1>2. ASSUME NEW n \in Nat, n \in P PROVE n + 1 \in P
  <2>1. ASSUME NEW T \in SUBSET S, Cardinality(T) = n + 1 PROVE f[T] = g[T]
    <3> DEFINE U == T \ {Picked(T)}
    <3>1. Picked(T) \in T /\ U \in SUBSET S /\ Cardinality(U) = n
      BY <2>1, PickOne
    <3>2. f[U] = g[U]
      BY <1>2, <3>1
    <3>3. T \in SUBSET A
      OBVIOUS
    <3>4. f[T] = SumStep(w, f, T) /\ g[T] = SumStep(v, g, T)
      BY <3>3 DEF IsSum
    <3>5. w[Picked(T)] = v[Picked(T)]
      BY <3>1
    <3> QED BY <3>1, <3>2, <3>4, <3>5 DEF SumStep
  <2>2. n + 1 \in Nat
    OBVIOUS
  <2> QED BY <2>1, <2>2, Zenon
<1>3. Cardinality(S) \in Nat /\ Cardinality(S) \in P
  <2> HIDE DEF P
  <2> QED BY <1>1, <1>2, NatSetInduction, FS_CardinalityType
<1> QED BY <1>3

\* A sum of integers is an integer, and in what order the elements are picked
\* does not matter: any of them can be the first.
LEMMA SumAnyOrder ==
  ASSUME NEW S, IsFiniteSet(S), NEW w, \A x \in S : w[x] \in Int,
         NEW f, IsSum(w, f, S)
  PROVE  \A T \in SUBSET S : /\ f[T] \in Int
                             /\ \A x \in T : f[T] = w[x] + f[T \ {x}]
<1>1. ASSUME NEW T \in SUBSET S
      PROVE  /\ T = {} => f[T] = 0
             /\ T # {} => f[T] = w[Picked(T)] + f[T \ {Picked(T)}]
  <2>1. f[T] = SumStep(w, f, T)
    BY DEF IsSum
  <2> QED BY <2>1 DEF SumStep
<1>2. ASSUME NEW T \in SUBSET S, Cardinality(T) = 0 PROVE T = {}
  BY <1>2, FS_Subset, FS_EmptySet
<1>3. \A T \in SUBSET S : f[T] \in Int
  <2> DEFINE P == {n \in Nat : \A T \in SUBSET S : Cardinality(T) = n => f[T] \in Int}
  <2>1. 0 \in P
    <3>1. ASSUME NEW T \in SUBSET S, Cardinality(T) = 0 PROVE f[T] = 0
      BY <1>1, <1>2, <3>1
    <3> QED BY <3>1
  <2>2. ASSUME NEW n \in Nat, n \in P PROVE n + 1 \in P
    <3>1. ASSUME NEW T \in SUBSET S, Cardinality(T) = n + 1 PROVE f[T] \in Int
      <4>1. Picked(T) \in T /\ T \ {Picked(T)} \in SUBSET S /\ Cardinality(T \ {Picked(T)}) = n
        BY <3>1, PickOne
      <4>2. f[T \ {Picked(T)}] \in Int /\ w[Picked(T)] \in Int
        BY <2>2, <4>1
      <4>3. f[T] = w[Picked(T)] + f[T \ {Picked(T)}]
        BY <1>1, <4>1
      <4> QED BY <4>2, <4>3
    <3>2. n + 1 \in Nat
      OBVIOUS
    <3> QED BY <3>1, <3>2, Zenon
  <2>3. Nat \subseteq P
    <3> HIDE DEF P
    <3> QED BY <2>1, <2>2, NatSetInduction
  <2> QED BY <2>3, FS_Subset, FS_CardinalityType
<1>4. \A T \in SUBSET S : \A x \in T : f[T] = w[x] + f[T \ {x}]
  <2> DEFINE P == {n \in Nat : \A T \in SUBSET S : Cardinality(T) = n =>
                                \A x \in T : f[T] = w[x] + f[T \ {x}]}
  <2>1. 0 \in P
    BY <1>2
  <2>2. ASSUME NEW n \in Nat, n \in P PROVE n + 1 \in P
    <3>1. ASSUME NEW T \in SUBSET S, Cardinality(T) = n + 1, NEW x \in T
          PROVE  f[T] = w[x] + f[T \ {x}]
      <4> DEFINE c == Picked(T)
      <4>1. c \in T /\ \A y \in T : T \ {y} \in SUBSET S /\ Cardinality(T \ {y}) = n
        BY <3>1, PickOne
      <4>2. f[T] = w[c] + f[T \ {c}]
        BY <1>1, <4>1
      <4> HIDE DEF c
      <4>3. ASSUME x # c PROVE f[T] = w[x] + f[T \ {x}]
        <5> DEFINE U == (T \ {c}) \ {x}
        <5>1. U = (T \ {x}) \ {c} /\ U \in SUBSET S
          OBVIOUS
        <5>2. x \in T \ {c} /\ c \in T \ {x}
          BY <4>1, <4>3
        <5> HIDE DEF U
        <5>3. f[T \ {c}] = w[x] + f[U]
          BY <2>2, <4>1, <5>2 DEF U
        <5>4. f[T \ {x}] = w[c] + f[U]
          BY <2>2, <4>1, <5>1, <5>2
        <5>5. w[x] \in Int /\ w[c] \in Int /\ f[U] \in Int
          BY <1>3, <4>1, <5>1
        <5> QED BY <4>2, <5>3, <5>4, <5>5
      <4> QED BY <4>2, <4>3
    <3>2. n + 1 \in Nat
      OBVIOUS
    <3> QED BY <3>1, <3>2, Zenon
  <2>3. Nat \subseteq P
    <3> HIDE DEF P
    <3> QED BY <2>1, <2>2, NatSetInduction
  <2> QED BY <2>3, FS_Subset, FS_CardinalityType
<1> QED BY <1>3, <1>4

\* The sum over a finite set of the values of a function of integers, one
\* element at a time.
LEMMA SumOnePiece ==
  ASSUME NEW S, IsFiniteSet(S), NEW w, \A x \in S : w[x] \in Int
  PROVE  /\ SumFunctionOnSet(w, S) \in Int
         /\ S = {} => SumFunctionOnSet(w, S) = 0
         /\ \A x \in S : \A v : (\A y \in S \ {x} : v[y] = w[y])
              => SumFunctionOnSet(w, S) = w[x] + SumFunctionOnSet(v, S \ {x})
<1>1. PICK f : IsSum(w, f, S) /\ SumFunctionOnSet(w, S) = f[S]
  BY SumExists
<1>2. S \in SUBSET S
  OBVIOUS
<1>3. f[S] \in Int /\ \A x \in S : f[S] = w[x] + f[S \ {x}]
  <2>1. \A T \in SUBSET S : f[T] \in Int /\ \A x \in T : f[T] = w[x] + f[T \ {x}]
    BY <1>1, SumAnyOrder
  <2> QED BY <1>2, <2>1
<1>4. S = {} => f[S] = 0
  <2>1. f[S] = SumStep(w, f, S)
    BY <1>1, <1>2 DEF IsSum
  <2> QED BY <2>1 DEF SumStep
<1>5. ASSUME NEW x \in S, NEW v, \A y \in S \ {x} : v[y] = w[y]
      PROVE  SumFunctionOnSet(v, S \ {x}) = f[S \ {x}]
  <2> DEFINE U == S \ {x}
  <2>1. IsFiniteSet(U) /\ U \subseteq S /\ \A y \in U : w[y] = v[y]
    BY <1>5, FS_RemoveElement
  <2> HIDE DEF U
  <2>2. PICK g : IsSum(v, g, U) /\ SumFunctionOnSet(v, U) = g[U]
    BY <2>1, SumExists
  <2>3. f[U] = g[U]
    BY <1>1, <2>1, <2>2, SumAgrees
  <2> QED BY <2>2, <2>3 DEF U
<1> QED BY <1>1, <1>3, <1>4, <1>5

-----------------------------------------------------------------------------
(* The store: its methods *)

\* remove(): the key is gone, the other entries stay as they were.
LEMMA RemoveEffect ==
  ASSUME NEW K, NEW V, NEW Z, NEW l, IsLru(l, K, V, Z), NEW key
  PROVE  LET m == LruRemove(l, key)
         IN  /\ IsLru(m, K, V, Z)
             /\ LruKeys(m) = LruKeys(l) \ {key}
             /\ \A k \in LruKeys(m) : m.entry[k] = l.entry[k]
<1>1. CASE key \notin LruKeys(l)
  BY <1>1 DEF LruRemove
<1>2. CASE key \in LruKeys(l)
  <2> DEFINE rest == LruKeys(l) \ {key}
             m == [order |-> Kept(l.order, rest), entry |-> Restrict(l.entry, rest),
                   total |-> l.total - l.entry[key].size]
  <2>1. LruRemove(l, key) = m
    BY <1>2 DEF LruRemove
  <2>2. /\ Kept(l.order, rest) \in Seq(K)
        /\ Elements(Kept(l.order, rest)) = Elements(l.order) \cap rest
    BY KeptElements DEF IsLru
  <2>3. Elements(l.order) = LruKeys(l)
    BY DEF IsLru
  <2>4. LruKeys(m) = rest /\ \A k \in rest : m.entry[k] = l.entry[k]
    BY DEF LruKeys, Restrict
  <2>5. LruKeys(m) = Elements(m.order)
    BY <2>2, <2>3, <2>4
  <2>6. m.entry \in [rest -> [value : V, size : Z]]
    BY DEF IsLru, Restrict
  <2>7. IsLru(m, K, V, Z)
    BY <2>2, <2>4, <2>5, <2>6 DEF IsLru
  <2> QED BY <2>1, <2>4, <2>7
<1> QED BY <1>1, <1>2

\* get()'s effect on the store: the order changes, the entries do not.
LEMMA TouchEffect ==
  ASSUME NEW K, NEW V, NEW Z, NEW l, IsLru(l, K, V, Z), NEW key
  PROVE  /\ IsLru(LruTouch(l, key), K, V, Z)
         /\ LruTouch(l, key).entry = l.entry
<1>1. CASE key \notin LruKeys(l)
  BY <1>1 DEF LruTouch
<1>2. CASE key \in LruKeys(l)
  <2> DEFINE rest == LruKeys(l) \ {key}
             kept == Kept(l.order, rest)
             order == Append(kept, key)
             m == [order |-> order, entry |-> l.entry, total |-> l.total]
  <2>1. LruTouch(l, key) = m
    BY <1>2 DEF LruTouch, IsLru
  <2>2. Elements(l.order) = LruKeys(l)
    BY DEF IsLru
  <2>3. key \in K
    BY <1>2, <2>2, ElementsType DEF IsLru
  <2>4. kept \in Seq(K) /\ Elements(kept) = Elements(l.order) \cap rest
    BY KeptElements DEF IsLru
  <2> HIDE DEF kept
  <2>5. order \in Seq(K) /\ Elements(order) = Elements(kept) \cup {key}
    BY <2>3, <2>4, AppendElements
  <2>6. Elements(order) = LruKeys(l)
    BY <1>2, <2>2, <2>4, <2>5
  <2> HIDE DEF order
  <2>7. IsLru(m, K, V, Z)
    BY <2>5, <2>6 DEF IsLru, LruKeys
  <2> QED BY <2>1, <2>7
<1> QED BY <1>1, <1>2

\* The first half of insert(): the new entry is the last of the order.
LEMMA PutEffect ==
  ASSUME NEW K, NEW V, NEW Z, NEW l, IsLru(l, K, V, Z),
         NEW key \in K, NEW value \in V, NEW size \in Z
  PROVE  LET m == LruPut(l, key, value, size)
         IN  /\ IsLru(m, K, V, Z)
             /\ LruKeys(m) = LruKeys(l) \cup {key}
             /\ m.entry[key] = [value |-> value, size |-> size]
             /\ \A k \in LruKeys(l) \ {key} : m.entry[k] = l.entry[k]
             /\ m.order # <<>> /\ m.order[Len(m.order)] = key
<1> DEFINE r == LruRemove(l, key)
           m == LruPut(l, key, value, size)
<1>1. /\ IsLru(r, K, V, Z)
      /\ LruKeys(r) = LruKeys(l) \ {key}
      /\ \A k \in LruKeys(r) : r.entry[k] = l.entry[k]
  BY RemoveEffect
<1> HIDE DEF r
<1>2. /\ m.order = Append(r.order, key)
      /\ m.entry = [k \in LruKeys(r) \cup {key} |->
                      IF k = key THEN [value |-> value, size |-> size] ELSE r.entry[k]]
      /\ m = [order |-> m.order, entry |-> m.entry, total |-> m.total]
  BY DEF LruPut, r
<1> HIDE DEF m
<1>3. LruKeys(m) = LruKeys(r) \cup {key}
  BY <1>2 DEF LruKeys
<1>4. m.order \in Seq(K) /\ Elements(m.order) = Elements(r.order) \cup {key}
  <2>1. r.order \in Seq(K)
    BY <1>1 DEF IsLru
  <2> QED BY <1>2, <2>1, AppendElements
<1>5. LruKeys(m) = Elements(m.order)
  BY <1>1, <1>3, <1>4 DEF IsLru
<1>6. m.entry \in [LruKeys(m) -> [value : V, size : Z]]
  <2>1. r.entry \in [LruKeys(r) -> [value : V, size : Z]]
    BY <1>1 DEF IsLru
  <2>2. [value |-> value, size |-> size] \in [value : V, size : Z]
    OBVIOUS
  <2> QED BY <1>2, <1>3, <2>1, <2>2, Zenon
<1>7. IsLru(m, K, V, Z)
  BY <1>2, <1>4, <1>5, <1>6 DEF IsLru
<1>8. m.order # <<>> /\ m.order[Len(m.order)] = key
  <2>1. r.order \in Seq(K)
    BY <1>1 DEF IsLru
  <2>2. ASSUME NEW o \in Seq(K)
        PROVE  Append(o, key) # <<>> /\ Append(o, key)[Len(Append(o, key))] = key
    OBVIOUS
  <2> QED BY <1>2, <2>1, <2>2
<1> QED BY <1>1, <1>2, <1>3, <1>7, <1>8 DEF m

\* The eviction loop always stops, before it pops the newest entry, and when it
\* stops its condition holds.
LEMMA ExcessRange ==
  ASSUME NEW K, NEW V, NEW Z, NEW l, IsLru(l, K, V, Z), l.order # <<>>,
         NEW maxEntries, NEW maxBytes
  PROVE  /\ LruExcess(l, maxEntries, maxBytes) \in 0..(Len(l.order) - 1)
         /\ LruFits(l, LruExcess(l, maxEntries, maxBytes), maxEntries, maxBytes)
<1> DEFINE T == {n \in 0..Len(l.order) : LruFits(l, n, maxEntries, maxBytes)}
<1>1. Len(l.order) \in Nat \ {0}
  BY DEF IsLru
<1>2. T \in SUBSET Nat /\ T \subseteq 0..Len(l.order)
  BY <1>1
<1>3. Len(l.order) - 1 \in T
  BY <1>1 DEF LruFits
<1> HIDE DEF T
<1>4. \E x \in T : \A y \in T : x <= y
  BY <1>2, <1>3, LeastNat
<1>5. Min(T) \in T /\ Min(T) <= Len(l.order) - 1
  BY <1>3, <1>4 DEF Min
<1> QED BY <1>1, <1>2, <1>5 DEF LruExcess, T

\* The eviction loop: what is left are entries as they were, the newest among them.
LEMMA DropEffect ==
  ASSUME NEW K, NEW V, NEW Z, NEW l, IsLru(l, K, V, Z), l.order # <<>>,
         NEW n \in 0..(Len(l.order) - 1)
  PROVE  LET m == LruDropOldest(l, n)
         IN  /\ IsLru(m, K, V, Z)
             /\ LruKeys(m) \subseteq LruKeys(l)
             /\ l.order[Len(l.order)] \in LruKeys(m)
             /\ \A k \in LruKeys(m) : m.entry[k] = l.entry[k]
<1> DEFINE order == SubSeq(l.order, n + 1, Len(l.order))
           m == LruDropOldest(l, n)
<1>1. l.order \in Seq(K) /\ Len(l.order) \in Nat \ {0}
  BY DEF IsLru
<1>2. /\ order \in Seq(K)
      /\ Len(order) = Len(l.order) - n
      /\ \A i \in 1..Len(order) : order[i] = l.order[n + i]
      /\ Elements(order) = {l.order[i] : i \in (n+1)..Len(l.order)}
  <2>1. l.order \in Seq(K) /\ n \in 0..Len(l.order)
    BY <1>1
  <2>2. ASSUME NEW s \in Seq(K), n \in 0..Len(s)
        PROVE  LET t == SubSeq(s, n + 1, Len(s))
               IN  /\ t \in Seq(K)
                   /\ Len(t) = Len(s) - n
                   /\ \A i \in 1..Len(t) : t[i] = s[n + i]
                   /\ Elements(t) = {s[i] : i \in (n+1)..Len(s)}
    BY <2>2, TailElements, SMTT(30)
  <2> QED BY <2>1, <2>2, Zenon
<1> HIDE DEF order
<1>3. Elements(order) \subseteq LruKeys(l)
  <2>1. LruKeys(l) = {l.order[i] : i \in 1..Len(l.order)}
    BY DEF IsLru, Elements
  <2>2. \A i \in (n+1)..Len(l.order) : i \in 1..Len(l.order)
    BY <1>1
  <2> QED BY <1>2, <2>1, <2>2
<1>4. l.order[Len(l.order)] \in Elements(order)
  <2>1. Len(order) \in 1..Len(order) /\ order[Len(order)] = l.order[Len(l.order)]
    BY <1>1, <1>2
  <2> QED BY <2>1 DEF Elements
<1>5. m = [order |-> order, entry |-> Restrict(l.entry, Elements(order)),
           total |-> LruTotalWithout(l, n)]
  BY DEF LruDropOldest, order
<1> HIDE DEF m
<1>6. LruKeys(m) = Elements(order) /\ \A k \in Elements(order) : m.entry[k] = l.entry[k]
  BY <1>5 DEF LruKeys, Restrict
<1>7. m.entry \in [Elements(order) -> [value : V, size : Z]]
  BY <1>3, <1>5 DEF IsLru, Restrict
<1>8. IsLru(m, K, V, Z)
  BY <1>2, <1>5, <1>6, <1>7 DEF IsLru
<1> QED BY <1>3, <1>4, <1>6, <1>8 DEF m

\* An insert keeps what it inserts, drops only what was there, and leaves the
\* entries that stay as they were.
LEMMA InsertEffect ==
  ASSUME NEW K, NEW V, NEW Z, NEW l, IsLru(l, K, V, Z),
         NEW key \in K, NEW value \in V, NEW size \in Z, NEW maxEntries, NEW maxBytes
  PROVE  LET m == LruInsert(l, key, value, size, maxEntries, maxBytes)
         IN  /\ IsLru(m, K, V, Z)
             /\ key \in LruKeys(m)
             /\ LruKeys(m) \subseteq LruKeys(l) \cup {key}
             /\ m.entry[key] = [value |-> value, size |-> size]
             /\ \A k \in LruKeys(m) \ {key} : m.entry[k] = l.entry[k]
<1> DEFINE p == LruPut(l, key, value, size)
           n == LruExcess(p, maxEntries, maxBytes)
           m == LruDropOldest(p, n)
<1>1. /\ IsLru(p, K, V, Z)
      /\ LruKeys(p) = LruKeys(l) \cup {key}
      /\ p.entry[key] = [value |-> value, size |-> size]
      /\ \A k \in LruKeys(l) \ {key} : p.entry[k] = l.entry[k]
      /\ p.order # <<>> /\ p.order[Len(p.order)] = key
  BY PutEffect
<1> HIDE DEF p
<1>2. n \in 0..(Len(p.order) - 1)
  BY <1>1, ExcessRange
<1> HIDE DEF n
<1>3. /\ IsLru(m, K, V, Z)
      /\ LruKeys(m) \subseteq LruKeys(p)
      /\ p.order[Len(p.order)] \in LruKeys(m)
      /\ \A k \in LruKeys(m) : m.entry[k] = p.entry[k]
  BY <1>1, <1>2, DropEffect
<1>4. LruInsert(l, key, value, size, maxEntries, maxBytes) = m
  BY DEF LruInsert, p, n
<1> HIDE DEF m
<1> QED BY <1>1, <1>3, <1>4

-----------------------------------------------------------------------------
(* The store: its limits *)

\* What the eviction loop establishes: both limits hold, or one entry is left.
LruBounded(l, maxEntries, maxBytes) ==
  \/ Len(l.order) <= 1
  \/ Len(l.order) <= maxEntries /\ l.total <= maxBytes

\* An insert leaves the store within its limits, whatever it was before.
LEMMA InsertBounded ==
  ASSUME NEW K, NEW V, NEW Z, NEW l, IsLru(l, K, V, Z),
         NEW key \in K, NEW value \in V, NEW size \in Z, NEW maxEntries, NEW maxBytes
  PROVE  LruBounded(LruInsert(l, key, value, size, maxEntries, maxBytes), maxEntries, maxBytes)
<1> DEFINE p == LruPut(l, key, value, size)
           n == LruExcess(p, maxEntries, maxBytes)
           m == LruDropOldest(p, n)
<1>1. /\ IsLru(p, K, V, Z)
      /\ LruKeys(p) = LruKeys(l) \cup {key}
      /\ p.entry[key] = [value |-> value, size |-> size]
      /\ \A k \in LruKeys(l) \ {key} : p.entry[k] = l.entry[k]
      /\ p.order # <<>> /\ p.order[Len(p.order)] = key
  BY PutEffect
<1> HIDE DEF p
<1>2. n \in 0..(Len(p.order) - 1) /\ LruFits(p, n, maxEntries, maxBytes)
  BY <1>1, ExcessRange
<1> HIDE DEF n
<1>3. m.total = LruTotalWithout(p, n) /\ Len(m.order) = Len(p.order) - n
  <2>1. p.order \in Seq(K)
    BY <1>1 DEF IsLru
  <2>2. n \in 0..Len(p.order)
    BY <1>2, <2>1
  <2>3. Len(SubSeq(p.order, n + 1, Len(p.order))) = Len(p.order) - n
    BY <2>1, <2>2, TailElements
  <2> QED BY <2>3 DEF LruDropOldest
<1>4. LruInsert(l, key, value, size, maxEntries, maxBytes) = m
  BY DEF LruInsert, p, n
<1> HIDE DEF m
<1> QED BY <1>2, <1>3, <1>4 DEF LruBounded, LruFits

\* A read leaves the store within its limits.
LEMMA TouchBounded ==
  ASSUME NEW K, NEW V, NEW Z, NEW l, IsLru(l, K, V, Z), NEW key,
         NEW maxEntries \in Int, NEW maxBytes, LruBounded(l, maxEntries, maxBytes)
  PROVE  LruBounded(LruTouch(l, key), maxEntries, maxBytes)
<1>1. CASE key \notin LruKeys(l)
  BY <1>1 DEF LruTouch
<1>2. CASE key \in LruKeys(l)
  <2> DEFINE kept == Kept(l.order, LruKeys(l) \ {key})
             m == LruTouch(l, key)
  <2>1. l.order \in Seq(K) /\ key \in Elements(l.order)
    BY <1>2 DEF IsLru
  <2>2. kept \in Seq(K) /\ Len(kept) < Len(l.order)
    BY <2>1, KeptElements, KeptShorter
  <2>3. m.order = Append(kept, key) /\ m.total = l.total
    BY <1>2 DEF LruTouch, IsLru
  <2> HIDE DEF kept, m
  <2>4. Len(m.order) = Len(kept) + 1 /\ Len(l.order) \in Nat /\ Len(kept) \in Nat
    BY <2>1, <2>2, <2>3
  <2> QED BY <2>2, <2>3, <2>4 DEF LruBounded, m
<1> QED BY <1>1, <1>2

-----------------------------------------------------------------------------
(* The store: the byte counter *)

\* The sizes of some entries, one entry at a time.
LEMMA SizeFacts ==
  ASSUME NEW l, NEW S, IsFiniteSet(S), \A k \in S : l.entry[k].size \in Int
  PROVE  /\ LruSize(l, S) \in Int
         /\ S = {} => LruSize(l, S) = 0
         /\ \A x \in S : LruSize(l, S) = l.entry[x].size + LruSize(l, S \ {x})
<1> DEFINE w(T) == [k \in T |-> l.entry[k].size]
<1>1. \A T : LruSize(l, T) = SumFunctionOnSet(w(T), T)
  BY DEF LruSize, SumFunction
<1>2. \A x \in S : w(S)[x] \in Int /\ w(S)[x] = l.entry[x].size
  OBVIOUS
<1>3. \A x \in S : \A y \in S \ {x} : w(S \ {x})[y] = w(S)[y]
  OBVIOUS
<1> HIDE DEF w
<1>4. /\ SumFunctionOnSet(w(S), S) \in Int
      /\ S = {} => SumFunctionOnSet(w(S), S) = 0
      /\ \A x \in S : \A v : (\A y \in S \ {x} : v[y] = w(S)[y])
           => SumFunctionOnSet(w(S), S) = w(S)[x] + SumFunctionOnSet(v, S \ {x})
  BY <1>2, SumOnePiece
<1>5. ASSUME NEW x \in S
      PROVE  SumFunctionOnSet(w(S), S) = w(S)[x] + SumFunctionOnSet(w(S \ {x}), S \ {x})
  BY <1>3, <1>4
<1> QED BY <1>1, <1>2, <1>4, <1>5

\* Entries of the same sizes have the same sum.
LEMMA SizeSame ==
  ASSUME NEW l, NEW m, NEW S, \A k \in S : l.entry[k].size = m.entry[k].size
  PROVE  LruSize(l, S) = LruSize(m, S)
<1>1. [k \in S |-> l.entry[k].size] = [k \in S |-> m.entry[k].size]
  OBVIOUS
<1> QED BY <1>1 DEF LruSize

\* The sizes of some of the entries, and of the others.
LEMMA SizeSplit ==
  ASSUME NEW l, NEW S, IsFiniteSet(S), \A k \in S : l.entry[k].size \in Int,
         NEW T \in SUBSET S
  PROVE  LruSize(l, S) = LruSize(l, T) + LruSize(l, S \ T)
<1>1. ASSUME NEW U \in SUBSET S
      PROVE  /\ LruSize(l, U) \in Int
             /\ U = {} => LruSize(l, U) = 0
             /\ \A x \in U : LruSize(l, U) = l.entry[x].size + LruSize(l, U \ {x})
  <2>1. IsFiniteSet(U) /\ \A k \in U : l.entry[k].size \in Int
    BY FS_Subset
  <2> QED BY <2>1, SizeFacts
<1> DEFINE Good(U) == LruSize(l, S) = LruSize(l, U) + LruSize(l, S \ U)
           P == {n \in Nat : \A U \in SUBSET S : Cardinality(U) = n => Good(U)}
<1>2. 0 \in P
  <2>1. ASSUME NEW U \in SUBSET S, Cardinality(U) = 0 PROVE Good(U)
    <3>1. U = {}
      BY <2>1, FS_Subset, FS_EmptySet
    <3>2. S \ U = S
      BY <3>1
    <3>3. LruSize(l, S \ U) = LruSize(l, S)
      BY <3>2, Zenon
    <3>4. LruSize(l, U) = 0 /\ LruSize(l, S) \in Int
      BY <1>1, <3>1
    <3> QED BY <3>3, <3>4
  <2> QED BY <2>1
<1>3. ASSUME NEW n \in Nat, n \in P PROVE n + 1 \in P
  <2>1. ASSUME NEW U \in SUBSET S, Cardinality(U) = n + 1 PROVE Good(U)
    <3> DEFINE x == Picked(U)
               W == U \ {x}
    <3>1. x \in U /\ W \in SUBSET S /\ Cardinality(W) = n
      BY <2>1, PickOne
    <3>2. LruSize(l, S) = LruSize(l, W) + LruSize(l, S \ W)
      BY <1>3, <3>1
    <3>3. LruSize(l, U) = l.entry[x].size + LruSize(l, W)
      BY <1>1, <3>1
    <3>4. x \in S \ W /\ (S \ W) \ {x} = S \ U
      BY <3>1
    <3>5. LruSize(l, S \ W) = l.entry[x].size + LruSize(l, S \ U)
      BY <1>1, <3>4
    <3>6. l.entry[x].size \in Int /\ LruSize(l, W) \in Int /\ LruSize(l, S \ U) \in Int
      BY <1>1, <3>1
    <3> HIDE DEF x, W
    <3> QED BY <3>2, <3>3, <3>5, <3>6
  <2>2. n + 1 \in Nat
    OBVIOUS
  <2> HIDE DEF Good
  <2> QED BY <2>1, <2>2, Zenon
<1>4. Nat \subseteq P
  <2> HIDE DEF P
  <2> QED BY <1>2, <1>3, NatSetInduction
<1>5. Cardinality(T) \in Nat
  BY FS_Subset, FS_CardinalityType
<1> QED BY <1>4, <1>5

\* Fewer entries take no more bytes.
LEMMA SizeMonotone ==
  ASSUME NEW l, NEW S, IsFiniteSet(S), \A k \in S : l.entry[k].size \in Nat,
         NEW T \in SUBSET S
  PROVE  /\ LruSize(l, T) \in Nat /\ LruSize(l, S) \in Nat
         /\ LruSize(l, T) <= LruSize(l, S)
<1> DEFINE P == {n \in Nat : \A U \in SUBSET S : Cardinality(U) = n => LruSize(l, U) \in Nat}
<1>1. ASSUME NEW U \in SUBSET S
      PROVE  /\ U = {} => LruSize(l, U) = 0
             /\ \A x \in U : LruSize(l, U) = l.entry[x].size + LruSize(l, U \ {x})
  <2>1. IsFiniteSet(U) /\ \A k \in U : l.entry[k].size \in Int
    BY FS_Subset
  <2> QED BY <2>1, SizeFacts
<1>2. 0 \in P
  <2>1. ASSUME NEW U \in SUBSET S, Cardinality(U) = 0 PROVE LruSize(l, U) = 0
    BY <1>1, <2>1, FS_Subset, FS_EmptySet
  <2> QED BY <2>1
<1>3. ASSUME NEW n \in Nat, n \in P PROVE n + 1 \in P
  <2>1. ASSUME NEW U \in SUBSET S, Cardinality(U) = n + 1 PROVE LruSize(l, U) \in Nat
    <3>1. Picked(U) \in U /\ U \ {Picked(U)} \in SUBSET S /\ Cardinality(U \ {Picked(U)}) = n
      BY <2>1, PickOne
    <3>2. LruSize(l, U \ {Picked(U)}) \in Nat /\ l.entry[Picked(U)].size \in Nat
      BY <1>3, <3>1
    <3>3. LruSize(l, U) = l.entry[Picked(U)].size + LruSize(l, U \ {Picked(U)})
      BY <1>1, <3>1
    <3> QED BY <3>2, <3>3
  <2>2. n + 1 \in Nat
    OBVIOUS
  <2> QED BY <2>1, <2>2, Zenon
<1>4. Nat \subseteq P
  <2> HIDE DEF P
  <2> QED BY <1>2, <1>3, NatSetInduction
<1>5. \A U \in SUBSET S : LruSize(l, U) \in Nat
  BY <1>4, FS_Subset, FS_CardinalityType
<1>6. S \in SUBSET S /\ S \ T \in SUBSET S /\ \A k \in S : l.entry[k].size \in Int
  OBVIOUS
<1>7. LruSize(l, S) = LruSize(l, T) + LruSize(l, S \ T)
  BY <1>6, SizeSplit
<1>8. LruSize(l, S) \in Nat /\ LruSize(l, T) \in Nat /\ LruSize(l, S \ T) \in Nat
  BY <1>5, <1>6
<1> QED BY <1>7, <1>8

FirstOf(s, n) == {s[i] : i \in 1..n}

\* The first n elements of a sequence without repetition are n.
LEMMA FirstElements ==
  ASSUME NEW K, NEW s \in Seq(K), NoRepeats(s)
  PROVE  \A n \in 0..Len(s) : IsFiniteSet(FirstOf(s, n)) /\ Cardinality(FirstOf(s, n)) = n
<1> DEFINE First(n) == FirstOf(s, n)
           Good(n) == IsFiniteSet(First(n)) /\ Cardinality(First(n)) = n
           P == {n \in 0..Len(s) : Good(n)}
<1>1. First(0) = {}
  BY DEF FirstOf
<1>2. ASSUME NEW n \in 0..(Len(s)-1)
      PROVE  First(n + 1) = First(n) \cup {s[n+1]} /\ s[n+1] \notin First(n)
  <2>1. 1..(n+1) = 1..n \cup {n+1}
    OBVIOUS
  <2>2. n + 1 \in 1..Len(s) /\ \A i \in 1..n : i \in 1..Len(s) /\ i # n + 1
    OBVIOUS
  <2> QED BY <2>1, <2>2 DEF NoRepeats, FirstOf
<1> HIDE DEF First
<1>3. Good(0)
  BY <1>1, FS_EmptySet
<1>4. ASSUME NEW n \in 0..(Len(s)-1), Good(n) PROVE Good(n + 1)
  <2>1. /\ IsFiniteSet(First(n) \cup {s[n+1]})
        /\ Cardinality(First(n) \cup {s[n+1]}) =
             IF s[n+1] \in First(n) THEN Cardinality(First(n)) ELSE Cardinality(First(n)) + 1
    BY <1>4, FS_AddElement
  <2> QED BY <1>2, <1>4, <2>1
<1>5. Len(s) \in Nat /\ 0 \in P /\ \A n \in 0..(Len(s)-1) : n \in P => n + 1 \in P
  <2> HIDE DEF Good
  <2> QED BY <1>3, <1>4
<1>6. \A n \in 0..Len(s) : n \in P
  <2> HIDE DEF P
  <2> QED BY <1>5, UpTo
<1> QED BY <1>6 DEF First

\* Adding up the sizes in an order gives the sizes of the entries so far.
LEMMA RunningSize ==
  ASSUME NEW K, NEW s \in Seq(K), NoRepeats(s),
         NEW l, \A k \in Elements(s) : l.entry[k].size \in Int
  PROVE  \A n \in 0..Len(s) : Running([i \in 1..Len(s) |-> l.entry[s[i]].size])[n]
                                = LruSize(l, FirstOf(s, n))
<1> DEFINE w == [i \in 1..Len(s) |-> l.entry[s[i]].size]
           First(n) == FirstOf(s, n)
           Good(n) == Running(w)[n] = LruSize(l, First(n))
           P == {n \in 0..Len(s) : Good(n)}
<1>1. Len(s) \in Nat /\ Len(w) = Len(s) /\ \A i \in 1..Len(s) : w[i] = l.entry[s[i]].size
  OBVIOUS
<1>2. \A n \in 0..Len(s) : IsFiniteSet(First(n))
  BY FirstElements
<1>3. ASSUME NEW n \in 0..(Len(s)-1)
      PROVE  s[n+1] \in First(n + 1) /\ First(n + 1) \ {s[n+1]} = First(n)
  <2>1. 1..(n+1) = 1..n \cup {n+1}
    OBVIOUS
  <2>2. n + 1 \in 1..Len(s) /\ \A i \in 1..n : i \in 1..Len(s) /\ i # n + 1
    OBVIOUS
  <2> QED BY <2>1, <2>2 DEF NoRepeats, FirstOf
<1>4. \A n \in 0..Len(s) : First(n) \subseteq Elements(s)
  BY DEF Elements, FirstOf
<1>5. First(0) = {}
  BY DEF FirstOf
<1> HIDE DEF First
<1>6. ASSUME NEW n \in 0..Len(s)
      PROVE  /\ LruSize(l, First(n)) \in Int
             /\ First(n) = {} => LruSize(l, First(n)) = 0
             /\ \A x \in First(n) :
                  LruSize(l, First(n)) = l.entry[x].size + LruSize(l, First(n) \ {x})
  <2>1. IsFiniteSet(First(n)) /\ \A k \in First(n) : l.entry[k].size \in Int
    BY <1>2, <1>4
  <2> QED BY <2>1, SizeFacts
<1>7. /\ Running(w)[0] = 0
      /\ \A n \in 0..(Len(s)-1) : Running(w)[n+1] = Running(w)[n] + w[n+1]
  BY <1>1, RunningRecursion
<1>8. Good(0)
  <2>1. 0 \in 0..Len(s)
    BY <1>1
  <2>2. LruSize(l, First(0)) = 0
    BY <1>5, <1>6, <2>1
  <2> HIDE DEF w
  <2> QED BY <1>7, <2>2
<1>9. ASSUME NEW n \in 0..(Len(s)-1), Good(n) PROVE Good(n + 1)
  <2>1. n \in 0..Len(s) /\ n + 1 \in 0..Len(s) /\ n + 1 \in 1..Len(s)
    BY <1>1
  <2>2. LruSize(l, First(n + 1)) = l.entry[s[n+1]].size + LruSize(l, First(n))
    BY <1>3, <1>6, <2>1
  <2>3. l.entry[s[n+1]].size \in Int /\ LruSize(l, First(n)) \in Int
    BY <1>6, <2>1 DEF Elements
  <2>4. Running(w)[n+1] = LruSize(l, First(n)) + l.entry[s[n+1]].size
    BY <1>1, <1>7, <1>9, <2>1
  <2> HIDE DEF w
  <2> QED BY <2>2, <2>3, <2>4
<1>10. 0 \in P /\ \A n \in 0..(Len(s)-1) : n \in P => n + 1 \in P
  <2> HIDE DEF Good
  <2> QED BY <1>1, <1>8, <1>9
<1>11. \A n \in 0..Len(s) : n \in P
  <2> HIDE DEF P
  <2> QED BY <1>1, <1>10, UpTo
<1> QED BY <1>11 DEF First

\* A store is finite, and its sizes are numbers.
LEMMA LruFinite ==
  ASSUME NEW K, NEW V, NEW Z, Z \subseteq Int, NEW l, IsLru(l, K, V, Z), NoRepeats(l.order)
  PROVE  /\ IsFiniteSet(LruKeys(l)) /\ Cardinality(LruKeys(l)) = Len(l.order)
         /\ \A k \in LruKeys(l) : l.entry[k].size \in Int
<1>1. l.order \in Seq(K) /\ Len(l.order) \in 0..Len(l.order) /\ LruKeys(l) = Elements(l.order)
  BY DEF IsLru
<1>2. /\ IsFiniteSet(FirstOf(l.order, Len(l.order)))
      /\ Cardinality(FirstOf(l.order, Len(l.order))) = Len(l.order)
  BY <1>1, FirstElements
<1>3. \A k \in LruKeys(l) : l.entry[k].size \in Int
  BY DEF IsLru
<1> QED BY <1>1, <1>2, <1>3 DEF Elements, FirstOf

\* The rest of a sequence without repetition has none of its first elements.
LEMMA TailNoRepeats ==
  ASSUME NEW K, NEW s \in Seq(K), NoRepeats(s), NEW n \in 0..Len(s)
  PROVE  /\ NoRepeats(SubSeq(s, n + 1, Len(s)))
         /\ Elements(SubSeq(s, n + 1, Len(s))) = Elements(s) \ FirstOf(s, n)
         /\ FirstOf(s, n) \subseteq Elements(s)
<1> DEFINE t == SubSeq(s, n + 1, Len(s))
<1>1. /\ t \in Seq(K)
      /\ Len(t) = Len(s) - n
      /\ \A i \in 1..Len(t) : t[i] = s[n + i]
      /\ Elements(t) = {s[i] : i \in (n+1)..Len(s)}
  BY TailElements
<1> HIDE DEF t
<1>2. NoRepeats(t)
  <2> SUFFICES ASSUME NEW i \in 1..Len(t), NEW j \in 1..Len(t), t[i] = t[j]
               PROVE  i = j
    BY DEF NoRepeats
  <2>1. n + i \in 1..Len(s) /\ n + j \in 1..Len(s) /\ s[n + i] = s[n + j]
    BY <1>1
  <2>2. n + i = n + j
    BY <2>1 DEF NoRepeats
  <2> QED BY <2>2
<1>3. \A i \in 1..n : \A j \in (n+1)..Len(s) : s[i] # s[j]
  <2>1. \A i \in 1..n : \A j \in (n+1)..Len(s) : i \in 1..Len(s) /\ j \in 1..Len(s) /\ i # j
    OBVIOUS
  <2> QED BY <2>1 DEF NoRepeats
<1>4. 1..Len(s) = 1..n \cup (n+1)..Len(s)
  OBVIOUS
<1>5. Elements(s) = FirstOf(s, n) \cup Elements(t)
  BY <1>1, <1>4 DEF Elements, FirstOf
<1>6. FirstOf(s, n) \cap Elements(t) = {}
  BY <1>1, <1>3 DEF FirstOf
<1> QED BY <1>2, <1>5, <1>6 DEF t

\* A store whose byte counter is exact.
Exact(l) == NoRepeats(l.order) /\ l.total = LruSize(l, LruKeys(l))

\* remove() keeps the counter exact.
LEMMA RemoveExact ==
  ASSUME NEW K, NEW V, NEW Z, Z \subseteq Int, NEW l, IsLru(l, K, V, Z), Exact(l), NEW key
  PROVE  Exact(LruRemove(l, key))
<1>1. CASE key \notin LruKeys(l)
  BY <1>1 DEF LruRemove
<1>2. CASE key \in LruKeys(l)
  <2> DEFINE rest == LruKeys(l) \ {key}
             m == LruRemove(l, key)
  <2>1. /\ LruKeys(m) = rest
        /\ \A k \in rest : m.entry[k] = l.entry[k]
    BY RemoveEffect
  <2>2. m.order = Kept(l.order, rest) /\ m.total = l.total - l.entry[key].size
    BY <1>2 DEF LruRemove
  <2> HIDE DEF m
  <2>3. NoRepeats(m.order)
    BY <2>2, KeptNoRepeats DEF IsLru, Exact
  <2>4. LruSize(m, rest) = LruSize(l, rest)
    BY <2>1, SizeSame
  <2>5. /\ LruSize(l, LruKeys(l)) = l.entry[key].size + LruSize(l, rest)
        /\ LruSize(l, rest) \in Int /\ l.entry[key].size \in Int
    <3>1. IsFiniteSet(LruKeys(l)) /\ \A k \in LruKeys(l) : l.entry[k].size \in Int
      BY LruFinite DEF Exact
    <3>2. IsFiniteSet(rest) /\ \A k \in rest : l.entry[k].size \in Int
      BY <3>1, FS_RemoveElement
    <3>3. LruSize(l, rest) \in Int
      BY <3>2, SizeFacts
    <3>4. LruSize(l, LruKeys(l)) = l.entry[key].size + LruSize(l, rest)
      BY <1>2, <3>1, SizeFacts
    <3> QED BY <1>2, <3>1, <3>3, <3>4
  <2>6. m.total = LruSize(l, rest)
    BY <2>2, <2>5 DEF Exact
  <2> QED BY <2>1, <2>3, <2>4, <2>6 DEF Exact, m
<1> QED BY <1>1, <1>2

\* get() keeps the counter exact.
LEMMA TouchExact ==
  ASSUME NEW K, NEW V, NEW Z, NEW l, IsLru(l, K, V, Z), Exact(l), NEW key
  PROVE  Exact(LruTouch(l, key))
<1>1. CASE key \notin LruKeys(l)
  BY <1>1 DEF LruTouch
<1>2. CASE key \in LruKeys(l)
  <2> DEFINE kept == Kept(l.order, LruKeys(l) \ {key})
             m == LruTouch(l, key)
  <2>1. m.order = Append(kept, key) /\ m.total = l.total /\ m.entry = l.entry
    BY <1>2 DEF LruTouch, IsLru
  <2>2. kept \in Seq(K) /\ Elements(kept) = Elements(l.order) \cap (LruKeys(l) \ {key})
    BY KeptElements DEF IsLru
  <2>3. NoRepeats(kept)
    BY KeptNoRepeats DEF IsLru, Exact
  <2>4. key \in K
    BY <1>2, ElementsType DEF IsLru
  <2> HIDE DEF kept, m
  <2>5. NoRepeats(m.order)
    BY <2>1, <2>2, <2>3, <2>4, AppendNoRepeats
  <2>6. LruKeys(m) = LruKeys(l) /\ \A S : LruSize(m, S) = LruSize(l, S)
    BY <2>1 DEF LruKeys, LruSize
  <2> QED BY <2>1, <2>5, <2>6 DEF Exact, m
<1> QED BY <1>1, <1>2

\* The first half of insert() keeps the counter exact.
LEMMA PutExact ==
  ASSUME NEW K, NEW V, NEW Z, Z \subseteq Int, NEW l, IsLru(l, K, V, Z), Exact(l),
         NEW key \in K, NEW value \in V, NEW size \in Z
  PROVE  Exact(LruPut(l, key, value, size))
<1> DEFINE r == LruRemove(l, key)
           m == LruPut(l, key, value, size)
<1>1. /\ IsLru(r, K, V, Z)
      /\ LruKeys(r) = LruKeys(l) \ {key}
      /\ \A k \in LruKeys(r) : r.entry[k] = l.entry[k]
  BY RemoveEffect
<1>2. Exact(r)
  BY RemoveExact
<1> HIDE DEF r
<1>3. /\ m.order = Append(r.order, key)
      /\ m.entry = [k \in LruKeys(r) \cup {key} |->
                      IF k = key THEN [value |-> value, size |-> size] ELSE r.entry[k]]
      /\ m.total = r.total + size
  BY DEF LruPut, r
<1> HIDE DEF m
<1>4. LruKeys(m) = LruKeys(r) \cup {key} /\ LruKeys(m) \ {key} = LruKeys(r)
  BY <1>1, <1>3 DEF LruKeys
<1>5. m.entry[key].size = size /\ \A k \in LruKeys(r) : m.entry[k].size = r.entry[k].size
  BY <1>1, <1>3
<1>6. NoRepeats(m.order)
  <2>1. r.order \in Seq(K) /\ key \notin Elements(r.order)
    BY <1>1 DEF IsLru
  <2> QED BY <1>2, <1>3, <2>1, AppendNoRepeats DEF Exact
<1>7. IsFiniteSet(LruKeys(r)) /\ \A k \in LruKeys(r) : r.entry[k].size \in Int
  BY <1>1, <1>2, LruFinite DEF Exact
<1>8. LruSize(m, LruKeys(r)) = LruSize(r, LruKeys(r)) /\ LruSize(r, LruKeys(r)) \in Int
  BY <1>5, <1>7, SizeSame, SizeFacts
<1>9. LruSize(m, LruKeys(m)) = size + LruSize(m, LruKeys(r))
  <2>1. IsFiniteSet(LruKeys(m)) /\ \A k \in LruKeys(m) : m.entry[k].size \in Int
    BY <1>4, <1>5, <1>7, FS_AddElement
  <2>2. key \in LruKeys(m)
    BY <1>4
  <2> QED BY <1>4, <1>5, <2>1, <2>2, SizeFacts
<1>10. m.total = LruSize(m, LruKeys(m))
  <2>1. r.total = LruSize(r, LruKeys(r)) /\ size \in Int
    BY <1>2 DEF Exact
  <2> QED BY <1>3, <1>8, <1>9, <2>1
<1> QED BY <1>6, <1>10 DEF Exact, m

\* The eviction loop keeps the counter exact.
LEMMA DropExact ==
  ASSUME NEW K, NEW V, NEW Z, Z \subseteq Int, NEW l, IsLru(l, K, V, Z), Exact(l),
         NEW n \in 0..Len(l.order)
  PROVE  Exact(LruDropOldest(l, n))
<1> DEFINE m == LruDropOldest(l, n)
           first == FirstOf(l.order, n)
           rest == SubSeq(l.order, n + 1, Len(l.order))
<1>1. l.order \in Seq(K) /\ Len(l.order) \in Nat /\ LruKeys(l) = Elements(l.order)
  BY DEF IsLru
<1>2. IsFiniteSet(LruKeys(l)) /\ \A k \in LruKeys(l) : l.entry[k].size \in Int
  BY LruFinite DEF Exact
<1>3. m.order = rest /\ m.entry = Restrict(l.entry, Elements(rest)) /\ m.total = LruTotalWithout(l, n)
  BY DEF LruDropOldest
<1>4. m.total = l.total - LruSize(l, first)
  BY <1>1, <1>2, <1>3, RunningSize DEF LruTotalWithout, Exact
<1> HIDE DEF m
<1>5. NoRepeats(rest) /\ Elements(rest) = LruKeys(l) \ first /\ first \subseteq LruKeys(l)
  BY <1>1, TailNoRepeats DEF Exact
<1> HIDE DEF first, rest
<1>6. LruKeys(m) = LruKeys(l) \ first /\ \A k \in LruKeys(m) : m.entry[k] = l.entry[k]
  BY <1>3, <1>5 DEF LruKeys, Restrict
<1>7. LruSize(l, LruKeys(l)) = LruSize(l, first) + LruSize(l, LruKeys(l) \ first)
  BY <1>2, <1>5, SizeSplit
<1>8. LruSize(m, LruKeys(m)) = LruSize(l, LruKeys(l) \ first)
  BY <1>6, SizeSame
<1>9. LruSize(l, first) \in Int /\ LruSize(l, LruKeys(l) \ first) \in Int
  <2>1. /\ IsFiniteSet(first) /\ IsFiniteSet(LruKeys(l) \ first)
        /\ \A k \in first : l.entry[k].size \in Int
        /\ \A k \in LruKeys(l) \ first : l.entry[k].size \in Int
    BY <1>2, <1>5, FS_Subset
  <2> QED BY <2>1, SizeFacts
<1>10. m.total = LruSize(l, LruKeys(l) \ first)
  BY <1>4, <1>7, <1>9 DEF Exact
<1> QED BY <1>3, <1>5, <1>8, <1>10 DEF Exact, m

\* insert() keeps the counter exact.
LEMMA InsertExact ==
  ASSUME NEW K, NEW V, NEW Z, Z \subseteq Int, NEW l, IsLru(l, K, V, Z), Exact(l),
         NEW key \in K, NEW value \in V, NEW size \in Z, NEW maxEntries, NEW maxBytes
  PROVE  Exact(LruInsert(l, key, value, size, maxEntries, maxBytes))
<1> DEFINE p == LruPut(l, key, value, size)
           n == LruExcess(p, maxEntries, maxBytes)
<1>1. /\ IsLru(p, K, V, Z)
      /\ LruKeys(p) = LruKeys(l) \cup {key}
      /\ p.entry[key] = [value |-> value, size |-> size]
      /\ \A k \in LruKeys(l) \ {key} : p.entry[k] = l.entry[k]
      /\ p.order # <<>> /\ p.order[Len(p.order)] = key
  BY PutEffect
<1>2. Exact(p)
  BY PutExact
<1> HIDE DEF p
<1>3. n \in 0..(Len(p.order) - 1)
  BY <1>1, ExcessRange
<1> HIDE DEF n
<1>4. n \in 0..Len(p.order)
  BY <1>1, <1>3 DEF IsLru
<1>5. Exact(LruDropOldest(p, n))
  BY <1>1, <1>2, <1>4, DropExact
<1> QED BY <1>5 DEF LruInsert, p, n
-----------------------------------------------------------------------------
(* The store: which entries an insert drops *)

\* remove() leaves the others in their order.
LEMMA RemoveOrder ==
  ASSUME NEW K, NEW V, NEW Z, NEW l, IsLru(l, K, V, Z), NEW key
  PROVE  SameOrder(LruRemove(l, key).order, l.order)
<1>1. l.order \in Seq(K) /\ SameOrder(l.order, l.order)
  BY DEF IsLru, SameOrder
<1>2. SameOrder(Kept(l.order, LruKeys(l) \ {key}), l.order)
  BY <1>1, KeptSameOrder
<1> QED BY <1>1, <1>2 DEF LruRemove

\* The elements of a sequence from one position on.
From(s, i) == {s[k] : k \in i..Len(s)}

\* The loop of insert() drops an entry only if it, all that were used since and
\* the new one together are over a limit.
LEMMA DroppedAreInTheWay ==
  ASSUME NEW K, NEW V, NEW Z, Z \subseteq Int, NEW l, IsLru(l, K, V, Z), Exact(l),
         NEW key \in K, key \notin LruKeys(l), NEW value \in V, NEW size \in Z,
         NEW maxEntries \in Int, NEW maxBytes \in Int,
         NEW i \in 1..Len(l.order),
         l.order[i] \notin LruKeys(LruInsert(l, key, value, size, maxEntries, maxBytes))
  PROVE  LET since == From(l.order, i)
         IN  ~ (Cardinality(since) + 1 <= maxEntries /\ LruSize(l, since) + size <= maxBytes)
<1> DEFINE p == LruPut(l, key, value, size)
           n == LruExcess(p, maxEntries, maxBytes)
           m == i - 1
           since == From(l.order, i)
           T == {k \in 0..Len(p.order) : LruFits(p, k, maxEntries, maxBytes)}
<1>1. l.order \in Seq(K) /\ NoRepeats(l.order) /\ LruKeys(l) = Elements(l.order) /\ Len(l.order) \in Nat
  BY DEF IsLru, Exact
<1>2. /\ IsLru(p, K, V, Z) /\ Exact(p) /\ p.order # <<>>
      /\ LruKeys(p) = LruKeys(l) \cup {key}
      /\ p.entry[key].size = size
      /\ \A k \in LruKeys(l) : p.entry[k] = l.entry[k]
  <2>1. LruKeys(l) \ {key} = LruKeys(l)
    OBVIOUS
  <2>2. Exact(p)
    BY PutExact
  <2>3. /\ IsLru(p, K, V, Z) /\ p.order # <<>>
        /\ LruKeys(p) = LruKeys(l) \cup {key}
        /\ p.entry[key] = [value |-> value, size |-> size]
        /\ \A k \in LruKeys(l) \ {key} : p.entry[k] = l.entry[k]
    BY PutEffect
  <2> HIDE DEF p
  <2> QED BY <2>1, <2>2, <2>3
<1>3. p.order = Append(l.order, key)
  BY DEF LruPut, LruRemove
<1> HIDE DEF p
<1>4. p.order \in Seq(K) /\ Len(p.order) = Len(l.order) + 1 /\ \A k \in 1..Len(l.order) : p.order[k] = l.order[k]
  BY <1>1, <1>3
<1>5. n \in 0..(Len(p.order) - 1)
  BY <1>2, ExcessRange
<1>6. m \in 0..Len(l.order) /\ m \in 0..Len(p.order) /\ m < i /\ m + 1 = i
  BY <1>1, <1>4
<1>7. m < n
  <2> SUFFICES ASSUME n <= m PROVE FALSE
    BY <1>5, <1>6
  <2> DEFINE rest == SubSeq(p.order, n + 1, Len(p.order))
  <2>1. LruKeys(LruInsert(l, key, value, size, maxEntries, maxBytes)) = Elements(rest)
    <3>1. LruInsert(l, key, value, size, maxEntries, maxBytes) = LruDropOldest(p, n)
      BY DEF LruInsert, p
    <3> QED BY <3>1 DEF LruDropOldest, LruKeys, Restrict
  <2>2. Elements(rest) = {p.order[k] : k \in (n+1)..Len(p.order)}
    <3>1. p.order \in Seq(K) /\ n \in 0..Len(p.order)
      BY <1>4, <1>5
    <3> HIDE DEF n
    <3> QED BY <3>1, TailElements
  <2>3. i \in (n+1)..Len(p.order)
    BY <1>4, <1>5, <1>6
  <2>4. p.order[i] = l.order[i]
    BY <1>4
  <2> QED BY <2>1, <2>2, <2>3, <2>4
<1>8. ~ LruFits(p, m, maxEntries, maxBytes)
  <2>1. T \in SUBSET Nat /\ T \subseteq 0..Len(p.order)
    BY <1>4
  <2>2. n = Min(T)
    BY DEF LruExcess
  <2>3. m \notin T
    <3> SUFFICES ASSUME m \in T PROVE FALSE
      OBVIOUS
    <3> HIDE DEF T
    <3>1. \E x \in T : \A y \in T : x <= y
      BY <2>1, LeastNat
    <3>2. Min(T) <= m
      BY <3>1 DEF Min
    <3> QED BY <1>5, <1>6, <1>7, <2>2, <3>2
  <2> QED BY <1>6, <2>3
<1>9. /\ IsFiniteSet(LruKeys(l)) /\ Cardinality(LruKeys(l)) = Len(l.order)
      /\ \A k \in LruKeys(l) : l.entry[k].size \in Int
  BY <1>1, LruFinite
<1>10. since = LruKeys(l) \ FirstOf(l.order, m)
  <2>1. Elements(SubSeq(l.order, m + 1, Len(l.order))) = Elements(l.order) \ FirstOf(l.order, m)
    BY <1>1, <1>6, TailNoRepeats
  <2>2. Elements(SubSeq(l.order, m + 1, Len(l.order))) = {l.order[k] : k \in (m+1)..Len(l.order)}
    BY <1>1, <1>6, TailElements
  <2>3. Elements(l.order) = LruKeys(l)
    BY <1>1
  <2>4. i = m + 1
    BY <1>6
  <2>5. since = {l.order[k] : k \in (m+1)..Len(l.order)}
    <3> HIDE DEF m
    <3> QED BY <2>4 DEF From
  <2> HIDE DEF since
  <2> QED BY <2>1, <2>2, <2>3, <2>5
<1>11. /\ IsFiniteSet(FirstOf(l.order, m)) /\ Cardinality(FirstOf(l.order, m)) = m
       /\ FirstOf(l.order, m) \subseteq LruKeys(l)
  BY <1>1, <1>6, FirstElements, TailNoRepeats
<1>12. Cardinality(since) = Len(l.order) - m /\ IsFiniteSet(since) /\ since \subseteq LruKeys(l)
  <2>1. LruKeys(l) \cap FirstOf(l.order, m) = FirstOf(l.order, m)
    BY <1>11
  <2>2. Cardinality(LruKeys(l) \ FirstOf(l.order, m)) = Cardinality(LruKeys(l)) - Cardinality(LruKeys(l) \cap FirstOf(l.order, m))
    BY <1>9, FS_Difference
  <2>3. IsFiniteSet(LruKeys(l) \ FirstOf(l.order, m))
    BY <1>9, FS_Subset
  <2> QED BY <1>9, <1>10, <1>11, <2>1, <2>2, <2>3
<1>13. LruTotalWithout(p, m) = LruSize(l, since) + size
  <2>1. /\ IsFiniteSet(LruKeys(p)) /\ \A k \in LruKeys(p) : p.entry[k].size \in Int
        /\ NoRepeats(p.order) /\ LruKeys(p) = Elements(p.order) /\ p.total = LruSize(p, LruKeys(p))
    BY <1>2, LruFinite DEF Exact, IsLru
  <2>2. FirstOf(p.order, m) = FirstOf(l.order, m)
    <3>1. \A k \in 1..m : p.order[k] = l.order[k]
      BY <1>4, <1>6
    <3> QED BY <3>1 DEF FirstOf
  <2>3. LruTotalWithout(p, m) = LruSize(p, LruKeys(p)) - LruSize(p, FirstOf(l.order, m))
    <3>1. \A k \in Elements(p.order) : p.entry[k].size \in Int
      BY <2>1
    <3>2. Running([k \in 1..Len(p.order) |-> p.entry[p.order[k]].size])[m]
            = LruSize(p, FirstOf(p.order, m))
      BY <1>4, <1>6, <2>1, <3>1, RunningSize
    <3> QED BY <2>1, <2>2, <3>2 DEF LruTotalWithout
  <2>4. FirstOf(l.order, m) \in SUBSET LruKeys(p)
    BY <1>2, <1>11
  <2>5. LruSize(p, LruKeys(p)) = LruSize(p, FirstOf(l.order, m)) + LruSize(p, LruKeys(p) \ FirstOf(l.order, m))
    BY <2>1, <2>4, SizeSplit
  <2>6. LruKeys(p) \ FirstOf(l.order, m) = since \cup {key}
    BY <1>2, <1>10, <1>11
  <2>7. /\ IsFiniteSet(since \cup {key}) /\ \A k \in since \cup {key} : p.entry[k].size \in Int
        /\ \A k \in FirstOf(l.order, m) : p.entry[k].size \in Int
    BY <1>2, <1>12, <2>1, <2>4, <2>6, FS_Subset
  <2>8. (since \cup {key}) \ {key} = since
    BY <1>12
  <2>9. LruSize(p, since \cup {key}) = size + LruSize(p, since)
    BY <1>2, <2>7, <2>8, SizeFacts
  <2>10. LruSize(p, since) = LruSize(l, since)
    BY <1>2, <1>12, SizeSame
  <2>11. LruSize(p, FirstOf(l.order, m)) \in Int /\ LruSize(l, since) \in Int
    <3>1. \A k \in since : l.entry[k].size \in Int
      BY <1>9, <1>12
    <3> QED BY <1>11, <1>12, <2>7, <3>1, SizeFacts
  <2>12. size \in Int
    OBVIOUS
  <2> HIDE DEF since, m
  <2>13. LruSize(p, LruKeys(p)) = LruSize(p, FirstOf(l.order, m)) + (size + LruSize(l, since))
    BY <2>5, <2>6, <2>9, <2>10, Zenon
  <2>14. \A a, b, d \in Int : (a + (b + d)) - a = d + b
    OBVIOUS
  <2> QED BY <2>3, <2>11, <2>12, <2>13, <2>14
<1>14. Len(p.order) - m > 1 /\ ~ (Len(p.order) - m <= maxEntries /\ LruTotalWithout(p, m) <= maxBytes)
  BY <1>4, <1>6, <1>8 DEF LruFits
<1>15. Cardinality(since) + 1 = Len(p.order) - m
  BY <1>1, <1>4, <1>6, <1>12
<1> QED BY <1>13, <1>14, <1>15

-----------------------------------------------------------------------------
(* The invariant of the state *)

Values == [caller : Callers, at : 0..MaxClock]

\* The inductive invariant.  The index is exact only because it is increasing
\* (a trim of its first n ids removes n different ids, which do not come back)
\* and because ids are handed out once (the tags bound the ids in the store).
IInv == TypeOK /\ IndexComplete /\ IndexOldestFirst /\ TagsFaithful

\* An empty server satisfies the invariant.
LEMMA InitIInv == Init => IInv
<1> SUFFICES ASSUME Init PROVE IInv
  OBVIOUS
<1>1. LruKeys(lru) = {}
  BY DEF Init, EmptyLru, LruKeys
<1>2. TypeOK
  <2>1. IsLru(lru, Ids, Values, Sizes)
    BY <1>1 DEF Init, EmptyLru, IsLru, Elements
  <2> QED BY <2>1, StoreAssumption DEF Init, TypeOK, Values
<1>3. IndexComplete
  BY <1>1 DEF Init, IndexComplete, OwnIds, Owned, Elements
<1>4. IndexOldestFirst /\ TagsFaithful
  BY <1>1 DEF Init, IndexOldestFirst, TagsFaithful
<1> QED BY <1>2, <1>3, <1>4 DEF IInv

-----------------------------------------------------------------------------
(* The own trim *)

\* The store after the first k removals of a trim.
TrimStep(c, l, k) == IF k = 0 THEN lru ELSE LruRemove(l[k-1], OwnIds(c)[k])

\* _lru.remove() for n own ids, one after the other, is well defined for every n.
LEMMA TrimExists ==
  ASSUME NEW c, NEW n \in Nat
  PROVE  \E l : /\ l = [k \in 0..n |-> TrimStep(c, l, k)]
                /\ LruWithoutOwn(c, n) = l[n]
<1> DEFINE Good(m, g) == g = [k \in 0..m |-> TrimStep(c, g, k)]
           P == {m \in Nat : \E g : Good(m, g)}
<1>1. 0 \in P
  <2> DEFINE g0 == [k \in 0..0 |-> lru]
  <2>1. ASSUME NEW k \in 0..0 PROVE g0[k] = TrimStep(c, g0, k)
    BY DEF TrimStep
  <2>2. g0 = [k \in 0..0 |-> TrimStep(c, g0, k)]
    BY <2>1
  <2> QED BY <2>2
<1>2. ASSUME NEW m \in Nat, m \in P PROVE m + 1 \in P
  <2>1. PICK g : Good(m, g)
    BY <1>2
  <2> DEFINE h == [k \in 0..(m+1) |-> TrimStep(c, g, k)]
  <2>2. ASSUME NEW k \in 0..m PROVE h[k] = g[k]
    BY <2>1
  <2>3. ASSUME NEW k \in 0..(m+1) PROVE h[k] = TrimStep(c, h, k)
    <3>1. h[k] = TrimStep(c, g, k)
      OBVIOUS
    <3>2. k # 0 => k - 1 \in 0..m
      OBVIOUS
    <3>3. k # 0 => h[k-1] = g[k-1]
      BY <2>2, <3>2
    <3> HIDE DEF h
    <3> QED BY <3>1, <3>3 DEF TrimStep
  <2>4. h = [k \in 0..(m+1) |-> TrimStep(c, h, k)]
    BY <2>3
  <2> HIDE DEF h
  <2> QED BY <2>4
<1>3. n \in P
  <2> HIDE DEF P
  <2> QED BY <1>1, <1>2, NatSetInduction
<1>4. PICK g : g = [k \in 0..n |-> TrimStep(c, g, k)]
  BY <1>3
<1> DEFINE l == CHOOSE ll : ll = [k \in 0..n |-> TrimStep(c, ll, k)]
<1>5. l = [k \in 0..n |-> TrimStep(c, l, k)]
  BY <1>4
<1>6. LruWithoutOwn(c, n) = l[n]
  BY DEF LruWithoutOwn, TrimStep
<1> HIDE DEF l
<1> QED BY <1>5, <1>6

FirstOwn(c, n) == {OwnIds(c)[i] : i \in 1..n}

\* A trim takes the first n own ids out of the store and touches nothing else.
LEMMA TrimEffect ==
  ASSUME TypeOK, NEW c, NEW n \in Nat
  PROVE  LET m == LruWithoutOwn(c, n)
         IN  /\ IsLru(m, Ids, Values, Sizes)
             /\ LruKeys(m) = LruKeys(lru) \ FirstOwn(c, n)
             /\ \A k \in LruKeys(m) : m.entry[k] = lru.entry[k]
             /\ SameOrder(m.order, lru.order)
             /\ Exact(lru) => Exact(m)
<1>1. PICK l : /\ l = [k \in 0..n |-> TrimStep(c, l, k)]
               /\ LruWithoutOwn(c, n) = l[n]
  BY TrimExists
<1> DEFINE Good(k) == /\ IsLru(l[k], Ids, Values, Sizes)
                      /\ LruKeys(l[k]) = LruKeys(lru) \ FirstOwn(c, k)
                      /\ \A e \in LruKeys(l[k]) : l[k].entry[e] = lru.entry[e]
                      /\ SameOrder(l[k].order, lru.order)
                      /\ Exact(lru) => Exact(l[k])
           P == {k \in 0..n : Good(k)}
<1>2. Good(0)
  <2>1. l[0] = lru
    BY <1>1 DEF TrimStep
  <2>2. FirstOwn(c, 0) = {}
    BY DEF FirstOwn
  <2>3. SameOrder(lru.order, lru.order)
    BY DEF SameOrder, TypeOK, IsLru
  <2> QED BY <2>1, <2>2, <2>3 DEF TypeOK, Values
<1>3. ASSUME NEW k \in 0..(n-1), Good(k) PROVE Good(k + 1)
  <2>1. l[k+1] = LruRemove(l[k], OwnIds(c)[k+1])
    <3>1. k + 1 \in 0..n /\ k + 1 # 0 /\ (k + 1) - 1 = k
      OBVIOUS
    <3>2. l[k+1] = TrimStep(c, l, k+1)
      BY <1>1, <3>1
    <3> QED BY <3>1, <3>2 DEF TrimStep
  <2>2. /\ IsLru(l[k+1], Ids, Values, Sizes)
        /\ LruKeys(l[k+1]) = LruKeys(l[k]) \ {OwnIds(c)[k+1]}
        /\ \A e \in LruKeys(l[k+1]) : l[k+1].entry[e] = l[k].entry[e]
    BY <1>3, <2>1, RemoveEffect
  <2>3. FirstOwn(c, k + 1) = FirstOwn(c, k) \cup {OwnIds(c)[k+1]}
    <3>1. 1..(k+1) = 1..k \cup {k+1}
      OBVIOUS
    <3> QED BY <3>1 DEF FirstOwn
  <2>4. Exact(lru) => Exact(l[k+1])
    <3>1. Sizes \subseteq Int
      BY StoreAssumption
    <3>2. IsLru(l[k], Ids, Values, Sizes) /\ (Exact(lru) => Exact(l[k]))
      BY <1>3
    <3>3. Exact(l[k]) => Exact(LruRemove(l[k], OwnIds(c)[k+1]))
      BY <3>1, <3>2, RemoveExact
    <3> QED BY <2>1, <3>2, <3>3
  <2>5. SameOrder(l[k+1].order, lru.order)
    <3>1. IsLru(l[k], Ids, Values, Sizes) /\ SameOrder(l[k].order, lru.order)
      BY <1>3
    <3>2. SameOrder(LruRemove(l[k], OwnIds(c)[k+1]).order, l[k].order)
      BY <3>1, RemoveOrder
    <3> QED BY <2>1, <3>1, <3>2, SameOrderTransitive
  <2> QED BY <1>3, <2>2, <2>3, <2>4, <2>5
<1>4. Good(n)
  <2> HIDE DEF Good
  <2>1. 0 \in P /\ \A k \in 0..(n-1) : k \in P => k + 1 \in P
    BY <1>2, <1>3
  <2>2. n \in P
    <3> HIDE DEF P
    <3>1. n \in 0..n
      OBVIOUS
    <3> QED BY <2>1, <3>1, UpTo
  <2> QED BY <2>2
<1> QED BY <1>1, <1>4

-----------------------------------------------------------------------------
(* The state: insert() *)

\* A trim takes at most all of the caller's own results.
LEMMA OwnExcessRange ==
  ASSUME TypeOK, NEW c, NEW size
  PROVE  /\ OwnIds(c) \in Seq(Ids)
         /\ OwnExcess(c, size) \in 0..Len(OwnIds(c))
<1> DEFINE T == {n \in 0..Len(OwnIds(c)) :
                   \/ n = Len(OwnIds(c))
                   \/ /\ Len(OwnIds(c)) - n < QuotaEntries
                      /\ OwnBytesWithout(c, n) + size <= QuotaBytes}
<1>1. OwnIds(c) \in Seq(Ids)
  BY DEF TypeOK, OwnIds
<1>2. Len(OwnIds(c)) \in Nat /\ Len(OwnIds(c)) \in T
  BY <1>1
<1>3. T \in SUBSET Nat /\ T \subseteq 0..Len(OwnIds(c))
  BY <1>2
<1>4. OwnExcess(c, size) = Min(T)
  BY DEF OwnExcess
<1> HIDE DEF T
<1>5. \E x \in T : \A y \in T : x <= y
  BY <1>2, <1>3, LeastNat
<1>6. Min(T) \in T
  BY <1>5 DEF Min
<1> QED BY <1>1, <1>3, <1>4, <1>6

\* The own results given up by an insert, and the store that is left of them.
Trim(c, size) == IF SoftCap THEN FirstOwn(c, OwnExcess(c, size)) ELSE {}
Trimmed(c, size) == IF SoftCap THEN LruWithoutOwn(c, OwnExcess(c, size)) ELSE lru

\* The trim, with the soft cap on or off: the own oldest results go, the rest stays.
LEMMA TrimmedEffect ==
  ASSUME TypeOK, NEW c, NEW size
  PROVE  /\ IsLru(Trimmed(c, size), Ids, Values, Sizes)
         /\ LruKeys(Trimmed(c, size)) = LruKeys(lru) \ Trim(c, size)
         /\ \A k \in LruKeys(Trimmed(c, size)) : Trimmed(c, size).entry[k] = lru.entry[k]
         /\ SameOrder(Trimmed(c, size).order, lru.order)
         /\ Exact(lru) => Exact(Trimmed(c, size))
<1>1. CASE SoftCap
  <2>1. OwnExcess(c, size) \in Nat
    BY OwnExcessRange
  <2> DEFINE m == LruWithoutOwn(c, OwnExcess(c, size))
  <2>2. /\ IsLru(m, Ids, Values, Sizes)
        /\ LruKeys(m) = LruKeys(lru) \ FirstOwn(c, OwnExcess(c, size))
        /\ \A k \in LruKeys(m) : m.entry[k] = lru.entry[k]
        /\ SameOrder(m.order, lru.order)
        /\ Exact(lru) => Exact(m)
    BY <2>1, TrimEffect
  <2>3. Trimmed(c, size) = m /\ Trim(c, size) = FirstOwn(c, OwnExcess(c, size))
    BY <1>1 DEF Trimmed, Trim
  <2> HIDE DEF m
  <2> QED BY <2>2, <2>3
<1>2. CASE ~SoftCap
  <2>1. SameOrder(lru.order, lru.order)
    BY DEF SameOrder, TypeOK, IsLru
  <2> QED BY <1>2, <2>1 DEF Trimmed, Trim, TypeOK, Values
<1> QED BY <1>1, <1>2

\* What an insert does to the store: it trims, adds the new result, and drops
\* some of the others.
LEMMA InsertStore ==
  ASSUME IInv, NEW c \in Callers, NEW size \in Sizes, Insert(c, size)
  PROVE  LET id == Len(issued) + 1
         IN  /\ id \in Ids /\ id \notin LruKeys(lru)
             /\ IsLru(lru', Ids, Values, Sizes)
             /\ id \in LruKeys(lru')
             /\ LruKeys(lru') \subseteq (LruKeys(lru) \ Trim(c, size)) \cup {id}
             /\ lru'.entry[id] = [value |-> [caller |-> c, at |-> now], size |-> size]
             /\ \A k \in LruKeys(lru') \ {id} : lru'.entry[k] = lru.entry[k]
             /\ LruBounded(lru', MaxEntries, MaxBytes)
             /\ Exact(lru) => Exact(lru')
<1> DEFINE id == Len(issued) + 1
           value == [caller |-> c, at |-> now]
           t == Trimmed(c, size)
<1>1. issued \in Seq(Result) /\ Len(issued) \in Nat /\ Len(issued) < MaxInserts
  BY DEF IInv, TypeOK, Insert
<1>2. id \in Ids
  BY <1>1, StoreAssumption DEF Ids
<1>3. id \notin LruKeys(lru)
  <2>1. LruKeys(lru) \subseteq 1..Len(issued)
    BY DEF IInv, TagsFaithful
  <2> QED BY <1>1, <2>1
<1>4. value \in Values
  BY DEF IInv, TypeOK, Values
<1>5. lru' = LruInsert(t, id, value, size, MaxEntries, MaxBytes)
  BY DEF Insert, Trimmed
<1>6. /\ IsLru(t, Ids, Values, Sizes)
      /\ LruKeys(t) = LruKeys(lru) \ Trim(c, size)
      /\ \A k \in LruKeys(t) : t.entry[k] = lru.entry[k]
      /\ Exact(lru) => Exact(t)
  BY TrimmedEffect DEF IInv
<1> HIDE DEF t, id, value
<1>7. /\ IsLru(lru', Ids, Values, Sizes)
      /\ id \in LruKeys(lru')
      /\ LruKeys(lru') \subseteq LruKeys(t) \cup {id}
      /\ lru'.entry[id] = [value |-> value, size |-> size]
      /\ \A k \in LruKeys(lru') \ {id} : lru'.entry[k] = t.entry[k]
  BY <1>2, <1>4, <1>5, <1>6, InsertEffect
<1>8. LruBounded(lru', MaxEntries, MaxBytes)
  BY <1>2, <1>4, <1>5, <1>6, InsertBounded
<1>9. Exact(lru) => Exact(lru')
  <2>1. Sizes \subseteq Int
    BY StoreAssumption
  <2> QED BY <1>2, <1>4, <1>5, <1>6, <2>1, InsertExact
<1> QED BY <1>2, <1>3, <1>6, <1>7, <1>8, <1>9 DEF id, value

\* The results the shared store drops at an insert, and whose they were.
Gone(c, size) == (LruKeys(lru) \ Trim(c, size)) \ LruKeys(lru')
GoneOf(c, size, d) == {e \in Gone(c, size) : lru.entry[e].value.caller = d}

\* The index and the counters an insert leaves before the shared store drops anything.
InsertIds(c, size) ==
  IF SoftCap THEN TrimmedIds(c, OwnExcess(c, size), Len(issued) + 1) ELSE byCaller
InsertBytes(c, size) ==
  IF SoftCap THEN TrimmedBytes(c, OwnExcess(c, size), size) ELSE callerBytes

\* What an insert does to the index and to the counters.
LEMMA InsertIndex ==
  ASSUME IInv, NEW c \in Callers, NEW size \in Sizes, Insert(c, size)
  PROVE  /\ byCaller' = [d \in DOMAIN InsertIds(c, size) |->
                           Kept(InsertIds(c, size)[d], Ids \ GoneOf(c, size, d))]
         /\ DOMAIN callerBytes' =
              IF SoftCap THEN DOMAIN callerBytes \cup {c} ELSE DOMAIN callerBytes
         /\ \A d \in DOMAIN callerBytes' :
              callerBytes'[d] = InsertBytes(c, size)[d] - SizeOf(GoneOf(c, size, d))
<1> DEFINE id == Len(issued) + 1
           value == [caller |-> c, at |-> now]
           t == Trimmed(c, size)
           put == LruPut(t, id, value, size)
           evicted == LruEvicted(t, id, value, size, MaxEntries, MaxBytes)
           ids == InsertIds(c, size)
           bytes == InsertBytes(c, size)
<1>1. /\ lru' = LruInsert(t, id, value, size, MaxEntries, MaxBytes)
      /\ byCaller' = IndexAfterEviction(ids, put, evicted)
      /\ callerBytes' = BytesAfterEviction(bytes, put, evicted)
  BY DEF Insert, Trimmed, InsertIds, InsertBytes
<1>2. /\ id \in Ids /\ id \notin LruKeys(lru) /\ id \in LruKeys(lru')
  BY InsertStore
<1>3. value \in Values
  BY DEF IInv, TypeOK, Values
<1>4. /\ IsLru(t, Ids, Values, Sizes)
      /\ LruKeys(t) = LruKeys(lru) \ Trim(c, size)
      /\ \A k \in LruKeys(t) : t.entry[k] = lru.entry[k]
  BY TrimmedEffect DEF IInv
<1> HIDE DEF t, id, value
<1>5. \A k \in LruKeys(t) \ {id} : put.entry[k] = t.entry[k]
  <2>1. /\ IsLru(put, Ids, Values, Sizes)
        /\ LruKeys(put) = LruKeys(t) \cup {id}
        /\ put.entry[id] = [value |-> value, size |-> size]
        /\ \A k \in LruKeys(t) \ {id} : put.entry[k] = t.entry[k]
        /\ put.order # <<>> /\ put.order[Len(put.order)] = id
    BY <1>2, <1>3, <1>4, PutEffect
  <2> QED BY <2>1
<1>6. evicted = Gone(c, size)
  BY <1>1, <1>2, <1>4 DEF LruEvicted, Gone
<1>7. \A e \in evicted : put.entry[e] = lru.entry[e]
  BY <1>2, <1>4, <1>5, <1>6 DEF Gone
<1> HIDE DEF put, evicted, ids
<1>8. \A d : {e \in evicted : put.entry[e].value.caller = d} = GoneOf(c, size, d)
  BY <1>6, <1>7 DEF GoneOf
<1>9. byCaller' = [d \in DOMAIN ids |-> Kept(ids[d], Ids \ GoneOf(c, size, d))]
  BY <1>1, <1>8 DEF IndexAfterEviction
<1>10. DOMAIN callerBytes' = DOMAIN bytes
  BY <1>1 DEF BytesAfterEviction
<1>11. DOMAIN bytes = IF SoftCap THEN DOMAIN callerBytes \cup {c} ELSE DOMAIN callerBytes
  BY DEF TrimmedBytes, InsertBytes
<1>12. \A d : LruSize(put, GoneOf(c, size, d)) = SizeOf(GoneOf(c, size, d))
  BY <1>6, <1>7, SizeSame DEF SizeOf, GoneOf
<1> HIDE DEF bytes
<1>13. \A d \in DOMAIN callerBytes' :
         callerBytes'[d] = bytes[d] - SizeOf(GoneOf(c, size, d))
  BY <1>1, <1>8, <1>12 DEF BytesAfterEviction
<1> QED BY <1>9, <1>10, <1>11, <1>13 DEF ids, bytes

-----------------------------------------------------------------------------
(* The invariant is preserved *)

\* Ids are integers, so sequences of ids can be compared.
LEMMA IdSequences ==
  ASSUME NEW s \in Seq(Ids)
  PROVE  /\ s \in Seq(Int)
         /\ \A i \in 1..Len(s) : s[i] \in Int
<1>1. Len(s) \in Nat /\ s \in [1..Len(s) -> Ids]
  OBVIOUS
<1>2. \A i \in 1..Len(s) : s[i] \in Int
  BY <1>1, StoreAssumption DEF Ids
<1>3. s \in [1..Len(s) -> Int]
  BY <1>1, <1>2
<1> QED BY <1>1, <1>2, <1>3

\* The untrimmed rest of an increasing index: nothing of the trim is in it.
LEMMA OwnRest ==
  ASSUME IInv, NEW c, NEW n \in 0..Len(OwnIds(c)), NEW id \in Ids,
         \A e \in Elements(OwnIds(c)) : e < id
  PROVE  LET s == Append(SubSeq(OwnIds(c), n + 1, Len(OwnIds(c))), id)
         IN  /\ s \in Seq(Ids)
             /\ Increasing(s)
             /\ Elements(s) = (Elements(OwnIds(c)) \ FirstOwn(c, n)) \cup {id}
<1> DEFINE own == OwnIds(c)
           rest == SubSeq(own, n + 1, Len(own))
<1>1. own \in Seq(Ids) /\ Increasing(own)
  BY DEF IInv, TypeOK, IndexOldestFirst, OwnIds, Increasing
<1>2. FirstOwn(c, n) = {own[i] : i \in 1..n}
  BY DEF FirstOwn
<1>3. Elements(own) = {own[i] : i \in 1..Len(own)} /\ \A e \in Elements(own) : e < id
  BY DEF Elements
<1> HIDE DEF own
<1>4. n \in 0..Len(own)
  BY DEF own
<1>5. /\ rest \in Seq(Ids)
      /\ Len(rest) = Len(own) - n
      /\ \A i \in 1..Len(rest) : rest[i] = own[n + i]
      /\ Elements(rest) = {own[i] : i \in (n+1)..Len(own)}
  BY <1>1, <1>4, TailElements
<1> HIDE DEF rest
<1>6. Elements(rest) = Elements(own) \ FirstOwn(c, n)
  <2>1. \A i \in 1..n : \A j \in (n+1)..Len(own) : own[i] # own[j]
    <3> SUFFICES ASSUME NEW i \in 1..n, NEW j \in (n+1)..Len(own)
                 PROVE  own[i] # own[j]
      OBVIOUS
    <3>1. i \in 1..Len(own) /\ j \in 1..Len(own) /\ i < j
      BY <1>1, <1>4
    <3>2. own[i] < own[j]
      BY <1>1, <3>1 DEF Increasing
    <3>3. own[i] \in Int /\ own[j] \in Int
      BY <1>1, <3>1, IdSequences
    <3> QED BY <3>2, <3>3
  <2>2. 1..Len(own) = 1..n \cup (n+1)..Len(own)
    BY <1>1, <1>4
  <2> QED BY <1>2, <1>3, <1>5, <2>1, <2>2
<1>7. Increasing(rest)
  <2> SUFFICES ASSUME NEW i \in 1..Len(rest), NEW j \in 1..Len(rest), i < j
               PROVE  rest[i] < rest[j]
    BY DEF Increasing
  <2>1. n + i \in 1..Len(own) /\ n + j \in 1..Len(own) /\ n + i < n + j
    BY <1>1, <1>4, <1>5
  <2>2. own[n + i] < own[n + j]
    BY <1>1, <2>1 DEF Increasing
  <2> QED BY <1>5, <2>2
<1>8. Increasing(Append(rest, id))
  <2>1. rest \in Seq(Int) /\ id \in Int
    BY <1>5, IdSequences, StoreAssumption DEF Ids
  <2>2. \A x \in Elements(rest) : x < id
    BY <1>3, <1>6
  <2> QED BY <1>7, <2>1, <2>2, AppendIncreasing
<1>9. Append(rest, id) \in Seq(Ids) /\ Elements(Append(rest, id)) = Elements(rest) \cup {id}
  BY <1>5, AppendElements
<1> QED BY <1>6, <1>8, <1>9 DEF own, rest

\* An id of a caller's index is the id of a stored result, so older than the next.
LEMMA OwnIdsOld ==
  ASSUME IInv, SoftCap, NEW c \in Callers
  PROVE  \A e \in Elements(OwnIds(c)) : e < Len(issued) + 1
<1>1. Elements(OwnIds(c)) \subseteq LruKeys(lru)
  BY DEF IInv, IndexComplete, Owned
<1>2. LruKeys(lru) \subseteq 1..Len(issued)
  BY DEF IInv, TagsFaithful
<1>3. Len(issued) \in Nat
  BY DEF IInv, TypeOK
<1> QED BY <1>1, <1>2, <1>3

\* insert() with the soft cap on.
LEMMA InsertCapped ==
  ASSUME IInv, SoftCap, NEW c \in Callers, NEW size \in Sizes, Insert(c, size)
  PROVE  /\ byCaller' \in [DOMAIN byCaller \cup {c} -> Seq(Ids)]
         /\ DOMAIN callerBytes' = DOMAIN byCaller'
         /\ IndexComplete'
         /\ IndexOldestFirst'
<1> DEFINE id == Len(issued) + 1
           n == OwnExcess(c, size)
           own == Append(SubSeq(OwnIds(c), n + 1, Len(OwnIds(c))), id)
           ids(d) == IF d = c THEN own ELSE byCaller[d]
<1>1. /\ id \in Ids /\ id \notin LruKeys(lru)
      /\ id \in LruKeys(lru')
      /\ LruKeys(lru') \subseteq (LruKeys(lru) \ Trim(c, size)) \cup {id}
      /\ lru'.entry[id] = [value |-> [caller |-> c, at |-> now], size |-> size]
      /\ \A k \in LruKeys(lru') \ {id} : lru'.entry[k] = lru.entry[k]
  BY InsertStore
<1>2. n \in 0..Len(OwnIds(c))
  BY OwnExcessRange DEF IInv
<1>3. Trim(c, size) = FirstOwn(c, n)
  BY DEF Trim
<1>4. \A e \in Elements(OwnIds(c)) : e < id
  BY OwnIdsOld
<1>5. byCaller' = [d \in DOMAIN byCaller \cup {c} |-> Kept(ids(d), Ids \ GoneOf(c, size, d))]
  <2> DEFINE all == TrimmedIds(c, n, id)
  <2>1. InsertIds(c, size) = all
    BY DEF InsertIds
  <2>2. DOMAIN all = DOMAIN byCaller \cup {c}
    BY DEF TrimmedIds
  <2>3. \A d \in DOMAIN all : all[d] = ids(d)
    BY DEF TrimmedIds
  <2>4. byCaller' = [d \in DOMAIN InsertIds(c, size) |->
                       Kept(InsertIds(c, size)[d], Ids \ GoneOf(c, size, d))]
    BY InsertIndex
  <2> HIDE DEF all, ids
  <2> QED BY <2>1, <2>2, <2>3, <2>4
<1>6. DOMAIN callerBytes' = DOMAIN callerBytes \cup {c}
  BY InsertIndex
<1> HIDE DEF id, n
<1>7. /\ own \in Seq(Ids)
      /\ Increasing(own)
      /\ Elements(own) = (Elements(OwnIds(c)) \ FirstOwn(c, n)) \cup {id}
  BY <1>1, <1>2, <1>4, OwnRest
<1> HIDE DEF own
<1>8. ASSUME NEW d \in DOMAIN byCaller \cup {c}
      PROVE  /\ ids(d) \in Seq(Ids) /\ Increasing(ids(d))
             /\ Elements(ids(d)) = {k \in (LruKeys(lru) \ Trim(c, size)) \cup {id} :
                                      IF k = id THEN d = c ELSE lru.entry[k].value.caller = d}
  <2>1. \A e \in Callers : Elements(OwnIds(e)) = Owned(e)
    BY DEF IInv, IndexComplete
  <2>2. CASE d = c
    <3>1. Elements(own) = (Owned(c) \ Trim(c, size)) \cup {id}
      BY <1>3, <1>7, <2>1
    <3> QED BY <1>1, <1>7, <2>2, <3>1 DEF Owned
  <2>3. CASE d # c
    <3>1. d \in Callers /\ ids(d) = OwnIds(d)
      BY <2>3 DEF IInv, TypeOK, OwnIds
    <3>2. Elements(ids(d)) = Owned(d)
      BY <2>1, <3>1
    <3>3. ids(d) \in Seq(Ids) /\ Increasing(ids(d))
      BY <2>3 DEF IInv, TypeOK, IndexOldestFirst
    <3>4. Trim(c, size) \subseteq Owned(c)
      <4>1. FirstOwn(c, n) \subseteq Elements(OwnIds(c))
        BY <1>2 DEF FirstOwn, Elements
      <4> QED BY <1>3, <2>1, <4>1
    <3> QED BY <1>1, <2>3, <3>2, <3>3, <3>4 DEF Owned
  <2> QED BY <2>2, <2>3
<1> HIDE DEF ids
<1>9. ASSUME NEW d \in DOMAIN byCaller \cup {c}
      PROVE  /\ byCaller'[d] \in Seq(Ids) /\ Increasing(byCaller'[d])
             /\ Elements(byCaller'[d]) = Owned(d)'
  <2>1. byCaller'[d] = Kept(ids(d), Ids \ GoneOf(c, size, d))
    BY <1>5
  <2>2. /\ byCaller'[d] \in Seq(Ids)
        /\ Elements(byCaller'[d]) = Elements(ids(d)) \cap (Ids \ GoneOf(c, size, d))
    BY <1>8, <2>1, KeptElements
  <2>3. Increasing(byCaller'[d])
    BY <1>8, <2>1, KeptIncreasing, IdSequences
  <2>4. Owned(d)' = {k \in LruKeys(lru') : IF k = id THEN d = c ELSE lru.entry[k].value.caller = d}
    BY <1>1 DEF Owned
  <2>5. LruKeys(lru) \subseteq Ids
    BY ElementsType DEF IInv, TypeOK, IsLru
  <2>6. Elements(byCaller'[d]) = Owned(d)'
    BY <1>1, <1>8, <2>2, <2>4, <2>5 DEF GoneOf, Gone
  <2> QED BY <2>2, <2>3, <2>6
<1>10. byCaller' \in [DOMAIN byCaller \cup {c} -> Seq(Ids)]
  BY <1>5, <1>9
<1>11. DOMAIN callerBytes' = DOMAIN byCaller'
  BY <1>6, <1>10 DEF IInv, TypeOK
<1>12. IndexOldestFirst'
  BY <1>9, <1>10 DEF IndexOldestFirst
<1>13. IndexComplete'
  <2> SUFFICES ASSUME NEW d \in Callers PROVE Elements(OwnIds(d))' = Owned(d)'
    BY DEF IndexComplete
  <2>1. CASE d \in DOMAIN byCaller \cup {c}
    BY <1>9, <1>10, <2>1 DEF OwnIds
  <2>2. CASE d \notin DOMAIN byCaller \cup {c}
    <3>1. OwnIds(d) = <<>> /\ OwnIds(d)' = <<>>
      BY <1>10, <2>2 DEF OwnIds
    <3>2. Elements(<<>>) = {}
      BY DEF Elements
    <3>3. Owned(d) = {}
      BY <3>1, <3>2 DEF IInv, IndexComplete
    <3>4. Owned(d)' = {}
      BY <1>1, <2>2, <3>3 DEF Owned
    <3> QED BY <3>1, <3>2, <3>4 DEF Elements
  <2> QED BY <2>1, <2>2
<1> QED BY <1>10, <1>11, <1>12, <1>13

\* insert() with the soft cap off leaves the empty index empty.
LEMMA InsertPlain ==
  ASSUME IInv, ~SoftCap, NEW c \in Callers, NEW size \in Sizes, Insert(c, size)
  PROVE  byCaller' = <<>> /\ callerBytes' = <<>>
<1>1. byCaller = <<>> /\ callerBytes = <<>>
  BY DEF IInv, IndexComplete
<1>2. DOMAIN byCaller = {} /\ DOMAIN callerBytes = {}
  BY <1>1
<1>3. /\ byCaller' = [d \in DOMAIN byCaller |-> byCaller'[d]]
      /\ callerBytes' = [d \in DOMAIN callerBytes |-> callerBytes'[d]]
  BY <1>2 DEF Insert, IndexAfterEviction, BytesAfterEviction
<1> QED BY <1>2, <1>3

\* insert() preserves the invariant.
LEMMA InsertIInv ==
  ASSUME IInv, NEW c \in Callers, NEW size \in Sizes, Insert(c, size)
  PROVE  IInv'
<1> DEFINE id == Len(issued) + 1
           new == [caller |-> c, size |-> size, at |-> now]
<1>1. /\ id \in Ids
      /\ IsLru(lru', Ids, Values, Sizes)
      /\ LruKeys(lru') \subseteq LruKeys(lru) \cup {id}
      /\ lru'.entry[id] = [value |-> [caller |-> c, at |-> now], size |-> size]
      /\ \A k \in LruKeys(lru') \ {id} : lru'.entry[k] = lru.entry[k]
  BY InsertStore
<1>2. /\ byCaller' \in [DOMAIN byCaller' -> Seq(Ids)]
      /\ DOMAIN byCaller' \subseteq Callers
      /\ DOMAIN callerBytes' = DOMAIN byCaller'
      /\ IndexComplete'
      /\ IndexOldestFirst'
  <2>1. CASE SoftCap
    BY <2>1, InsertCapped DEF IInv, TypeOK
  <2>2. CASE ~SoftCap
    <3>1. byCaller' = <<>> /\ callerBytes' = <<>>
      BY <2>2, InsertPlain
    <3> QED BY <2>2, <3>1 DEF IndexComplete, IndexOldestFirst
  <2> QED BY <2>1, <2>2
<1>3. issued' = Append(issued, new) /\ now' = now /\ reply' = None
  BY DEF Insert
<1>4. issued \in Seq(Result) /\ Len(issued) < MaxInserts /\ now \in 0..MaxClock
  BY DEF IInv, TypeOK, Insert
<1>5. new \in Result
  BY <1>4 DEF Result
<1> HIDE DEF new
<1>6. /\ issued' \in Seq(Result)
      /\ Len(issued') = id
      /\ issued'[id] = new
      /\ \A k \in 1..Len(issued) : issued'[k] = issued[k]
  BY <1>3, <1>4, <1>5
<1>7. Len(issued') <= MaxInserts
  BY <1>4, <1>6, StoreAssumption
<1>8. TypeOK'
  BY <1>1, <1>2, <1>3, <1>4, <1>6, <1>7 DEF TypeOK, Values, Ids, Result
<1>9. TagsFaithful'
  <2> SUFFICES ASSUME NEW k \in LruKeys(lru')
               PROVE  /\ k \in 1..Len(issued')
                      /\ lru'.entry[k].value =
                           [caller |-> issued'[k].caller, at |-> issued'[k].at]
                      /\ lru'.entry[k].size = issued'[k].size
    BY DEF TagsFaithful
  <2>1. CASE k = id
    <3>1. k \in 1..Len(issued')
      BY <1>4, <1>6, <2>1
    <3> QED BY <1>1, <1>6, <2>1, <3>1 DEF new
  <2>2. CASE k # id
    <3>1. k \in LruKeys(lru) /\ lru'.entry[k] = lru.entry[k]
      BY <1>1, <2>2
    <3>2. /\ k \in 1..Len(issued)
          /\ lru.entry[k].value = [caller |-> issued[k].caller, at |-> issued[k].at]
          /\ lru.entry[k].size = issued[k].size
      BY <3>1 DEF IInv, TagsFaithful
    <3>3. k \in 1..Len(issued') /\ issued'[k] = issued[k]
      BY <1>4, <1>6, <3>2
    <3> QED BY <3>1, <3>2, <3>3
  <2> QED BY <2>1, <2>2
<1> QED BY <1>2, <1>8, <1>9 DEF IInv

\* get() preserves the invariant: a read only moves an entry in the order.
LEMMA GetIInv ==
  ASSUME IInv, NEW c \in Callers, NEW id \in Ids, Get(c, id)
  PROVE  IInv'
<1>1. IsLru(lru', Ids, Values, Sizes) /\ lru'.entry = lru.entry
  BY TouchEffect DEF IInv, TypeOK, Values, Get
<1>2. LruKeys(lru') = LruKeys(lru)
  BY <1>1 DEF LruKeys
<1>3. UNCHANGED <<byCaller, callerBytes, now, issued>>
  BY DEF Get
<1>4. reply' \in {None} \cup [found : {TRUE}, caller : Callers, id : Ids]
  BY DEF Get
<1>5. TypeOK'
  BY <1>1, <1>3, <1>4 DEF IInv, TypeOK, Values, Ids, Result
<1>6. IndexComplete'
  <2>1. \A d : Owned(d)' = Owned(d) /\ OwnIds(d)' = OwnIds(d)
    BY <1>1, <1>2, <1>3 DEF Owned, OwnIds
  <2> QED BY <1>3, <2>1 DEF IInv, IndexComplete, Elements
<1>7. IndexOldestFirst' /\ TagsFaithful'
  BY <1>1, <1>2, <1>3 DEF IInv, IndexOldestFirst, TagsFaithful
<1> QED BY <1>5, <1>6, <1>7 DEF IInv

\* The passing of time preserves the invariant.
LEMMA TickIInv ==
  ASSUME IInv, Tick
  PROVE  IInv'
<1>1. UNCHANGED <<lru, byCaller, callerBytes, issued>> /\ now' \in 0..MaxClock /\ reply' = None
  BY StoreAssumption DEF Tick, IInv, TypeOK
<1>2. TypeOK'
  BY <1>1 DEF IInv, TypeOK
<1>3. IndexComplete' /\ IndexOldestFirst' /\ TagsFaithful'
  BY <1>1 DEF IInv, IndexComplete, IndexOldestFirst, TagsFaithful, Owned, OwnIds
<1> QED BY <1>2, <1>3 DEF IInv

\* The invariant holds of every reachable state of state.py.
THEOREM Invariance == Spec => []IInv
<1>1. Init => IInv
  BY InitIInv
<1>2. IInv /\ [Next]_vars => IInv'
  <2> SUFFICES ASSUME IInv, [Next]_vars PROVE IInv'
    OBVIOUS
  <2>1. ASSUME NEW c \in Callers, NEW size \in Sizes, Insert(c, size) PROVE IInv'
    BY <2>1, InsertIInv
  <2>2. ASSUME NEW c \in Callers, NEW id \in Ids, Get(c, id) PROVE IInv'
    BY <2>2, GetIInv
  <2>3. CASE Tick
    BY <2>3, TickIInv
  <2>4. CASE UNCHANGED vars
    <3>1. UNCHANGED <<lru, byCaller, callerBytes, now, reply, issued>>
      BY <2>4 DEF vars
    <3> QED BY <3>1 DEF IInv, TypeOK, IndexComplete, IndexOldestFirst, TagsFaithful, Owned, OwnIds
  <2> QED BY <2>1, <2>2, <2>3, <2>4 DEF Next
<1> QED BY <1>1, <1>2, PTL DEF Spec

-----------------------------------------------------------------------------
(* The theorems *)

\* state.py's state has its types whatever is inserted and read.
THEOREM TypeCorrect == Spec => []TypeOK
BY Invariance, PTL DEF IInv

\* _on_evict and the trim keep the per-caller index in step with the store:
\* with the soft cap on, it lists exactly the caller's results in the store,
\* oldest insertion first, whatever was read, trimmed and evicted in between.
THEOREM IndexCorrect == Spec => []IndexExact
BY Invariance, PTL DEF IInv, IndexExact

\* The tag that get() tests is the one insert() was called with: no other
\* caller's insert, eviction or read ever changes it.
THEOREM TagsCorrect == Spec => []TagsFaithful
BY Invariance, PTL DEF IInv

-----------------------------------------------------------------------------
(* Refinement of ResultStore *)

\* An empty server is an empty result store.
LEMMA InitRefines == Init => Promise!Init
BY DEF Init, Promise!Init, EmptyLru, LruKeys, None, Promise!None

\* insert() is a put of the result store, which may forget others.
LEMMA InsertRefines ==
  ASSUME IInv, NEW c \in Callers, NEW size \in Sizes, Insert(c, size)
  PROVE  Promise!Put(c, size)
<1> DEFINE id == Len(issued) + 1
           kept == LruKeys(lru') \ {id}
<1>1. id \in LruKeys(lru') /\ LruKeys(lru') \subseteq LruKeys(lru) \cup {id}
  BY InsertStore
<1>2. kept \in SUBSET LruKeys(lru) /\ LruKeys(lru') = kept \cup {id}
  BY <1>1
<1>3. \E k \in SUBSET LruKeys(lru) : LruKeys(lru') = k \cup {Len(issued) + 1}
  BY <1>2
<1> QED BY <1>3 DEF Insert, Promise!Put, None, Promise!None

\* get() is a read of the result store.
LEMMA GetRefines ==
  ASSUME IInv, NEW c \in Callers, NEW id \in Ids, Get(c, id)
  PROVE  Promise!Read(c, id)
<1>1. LruKeys(lru') = LruKeys(lru)
  BY TouchEffect DEF IInv, TypeOK, Values, Get, LruKeys
<1>2. UNCHANGED <<now, issued>>
  BY DEF Get
<1>3. id \in LruKeys(lru) =>
        lru.entry[id].value = [caller |-> issued[id].caller, at |-> issued[id].at]
  BY DEF IInv, TagsFaithful
<1>4. reply' = IF /\ id \in LruKeys(lru)
                  /\ issued[id].caller = c
                  /\ now - issued[id].at <= Ttl
               THEN [found |-> TRUE, caller |-> c, id |-> id]
               ELSE None
  BY <1>3 DEF Get
<1> QED BY <1>1, <1>2, <1>4 DEF Promise!Read, None, Promise!None

\* ServerState implements ResultStore: a result is read by the caller that
\* put it and by nobody else, until Ttl after the put, and the store forgets
\* only at an insert and never what is inserted.
THEOREM Refinement == Spec => KeepsPromise
<1>1. Init => Promise!Init
  BY InitRefines
<1>2. IInv /\ [Next]_vars => [Promise!Next]_(Promise!vars)
  <2> SUFFICES ASSUME IInv, [Next]_vars PROVE [Promise!Next]_(Promise!vars)
    OBVIOUS
  <2>1. ASSUME NEW c \in Callers, NEW size \in Sizes, Insert(c, size)
        PROVE  Promise!Next
    BY <2>1, InsertRefines DEF Promise!Next
  <2>2. ASSUME NEW c \in Callers, NEW id \in Ids, Get(c, id)
        PROVE  Promise!Next
    BY <2>2, GetRefines DEF Promise!Next, Ids
  <2>3. CASE Tick
    BY <2>3 DEF Tick, Promise!Tick, Promise!Next, None, Promise!None
  <2>4. CASE UNCHANGED vars
    BY <2>4 DEF vars, Promise!vars
  <2> QED BY <2>1, <2>2, <2>3, <2>4 DEF Next
<1> QED BY <1>1, <1>2, Invariance, PTL DEF Spec, KeepsPromise, Promise!Spec

-----------------------------------------------------------------------------
(* The counters and the quotas *)

\* The second invariant: the LRU's order has no repetition, the counters are
\* exact, and the limits and quotas hold.
Counted == Exact(lru) /\ BytesExact /\ StoreBounded /\ QuotaKept

\* What the first invariant says of the ids of a caller, as far as sums go.
LEMMA OwnFacts ==
  ASSUME IInv, SoftCap, NoRepeats(lru.order), NEW c \in Callers
  PROVE  /\ OwnIds(c) \in Seq(Ids) /\ NoRepeats(OwnIds(c))
         /\ Elements(OwnIds(c)) = Owned(c) /\ Owned(c) \subseteq LruKeys(lru)
         /\ IsFiniteSet(Owned(c)) /\ Cardinality(Owned(c)) = Len(OwnIds(c))
<1>1. OwnIds(c) \in Seq(Ids) /\ Increasing(OwnIds(c))
  BY DEF IInv, TypeOK, IndexOldestFirst, OwnIds, Increasing
<1>2. Elements(OwnIds(c)) = Owned(c) /\ Owned(c) \subseteq LruKeys(lru)
  BY DEF IInv, IndexComplete, Owned
<1> DEFINE s == OwnIds(c)
<1> HIDE DEF s
<1>3. NoRepeats(s)
  <2> SUFFICES ASSUME NEW i \in 1..Len(s), NEW j \in 1..Len(s), s[i] = s[j], i # j
               PROVE  FALSE
    BY DEF NoRepeats
  <2>1. i < j \/ j < i
    BY <1>1 DEF s
  <2>2. s[i] < s[j] \/ s[j] < s[i]
    BY <1>1, <2>1 DEF Increasing, s
  <2>3. s[i] \in Int /\ s[j] \in Int
    BY <1>1, IdSequences DEF s
  <2> QED BY <2>2, <2>3
<1>4. Len(s) \in 0..Len(s)
  BY <1>1 DEF s
<1>5. IsFiniteSet(FirstOf(s, Len(s))) /\ Cardinality(FirstOf(s, Len(s))) = Len(s)
  BY <1>1, <1>3, <1>4, FirstElements DEF s
<1>6. FirstOf(s, Len(s)) = Elements(s)
  BY DEF FirstOf, Elements
<1> QED BY <1>1, <1>2, <1>3, <1>5, <1>6 DEF s

\* What a caller holds once it has given up its n oldest results.
LEMMA OwnBytesLeft ==
  ASSUME IInv, SoftCap, Exact(lru), BytesExact, NEW c \in Callers, NEW n \in 0..Len(OwnIds(c))
  PROVE  /\ FirstOwn(c, n) = FirstOf(OwnIds(c), n)
         /\ FirstOwn(c, n) \subseteq Owned(c)
         /\ OwnBytesWithout(c, n) = SizeOf(Owned(c) \ FirstOwn(c, n))
         /\ SizeOf(Owned(c) \ FirstOwn(c, n)) \in Int
<1>1. /\ OwnIds(c) \in Seq(Ids) /\ NoRepeats(OwnIds(c))
      /\ Elements(OwnIds(c)) = Owned(c) /\ Owned(c) \subseteq LruKeys(lru)
      /\ IsFiniteSet(Owned(c)) /\ Cardinality(Owned(c)) = Len(OwnIds(c))
  BY OwnFacts DEF Exact
<1>2. FirstOwn(c, n) = FirstOf(OwnIds(c), n)
  BY DEF FirstOwn, FirstOf
<1>3. FirstOwn(c, n) \subseteq Owned(c)
  BY <1>1, <1>2, TailNoRepeats
<1>4. \A k \in Owned(c) : lru.entry[k].size \in Int
  BY <1>1, LruFinite, StoreAssumption DEF IInv, TypeOK, Exact
<1>5. OwnBytes(c) = SizeOf(Owned(c))
  <2>1. CASE c \in DOMAIN callerBytes
    BY <2>1 DEF BytesExact, OwnBytes
  <2>2. CASE c \notin DOMAIN callerBytes
    <3>1. OwnIds(c) = <<>>
      BY <2>2 DEF IInv, TypeOK, OwnIds
    <3>2. Owned(c) = {}
      BY <1>1, <3>1 DEF Elements
    <3>3. LruSize(lru, Owned(c)) = 0
      BY <1>1, <1>4, <3>2, SizeFacts
    <3> QED BY <2>2, <3>3 DEF OwnBytes, SizeOf
  <2> QED BY <2>1, <2>2
<1>6. OwnBytesWithout(c, n) = OwnBytes(c) - LruSize(lru, FirstOwn(c, n))
  <2>1. \A i \in 1..Len(OwnIds(c)) : HeldSize(OwnIds(c)[i]) = lru.entry[OwnIds(c)[i]].size
    BY <1>1 DEF HeldSize, Elements
  <2>2. [i \in 1..Len(OwnIds(c)) |-> HeldSize(OwnIds(c)[i])]
          = [i \in 1..Len(OwnIds(c)) |-> lru.entry[OwnIds(c)[i]].size]
    BY <2>1
  <2>3. Running([i \in 1..Len(OwnIds(c)) |-> lru.entry[OwnIds(c)[i]].size])[n]
          = LruSize(lru, FirstOf(OwnIds(c), n))
    BY <1>1, <1>4, RunningSize
  <2> QED BY <1>2, <2>2, <2>3 DEF OwnBytesWithout
<1>7. LruSize(lru, Owned(c)) = LruSize(lru, FirstOwn(c, n)) + LruSize(lru, Owned(c) \ FirstOwn(c, n))
  BY <1>1, <1>3, <1>4, SizeSplit
<1>8. /\ LruSize(lru, FirstOwn(c, n)) \in Int
      /\ LruSize(lru, Owned(c) \ FirstOwn(c, n)) \in Int
  <2>1. /\ IsFiniteSet(FirstOwn(c, n)) /\ IsFiniteSet(Owned(c) \ FirstOwn(c, n))
        /\ \A k \in FirstOwn(c, n) : lru.entry[k].size \in Int
        /\ \A k \in Owned(c) \ FirstOwn(c, n) : lru.entry[k].size \in Int
    BY <1>1, <1>3, <1>4, FS_Subset
  <2> QED BY <2>1, SizeFacts
<1> QED BY <1>2, <1>3, <1>5, <1>6, <1>7, <1>8 DEF SizeOf

\* What a caller still holds after an insert, the new result aside.
KeptOf(c, size, d) == (Owned(d) \ Trim(c, size)) \ GoneOf(c, size, d)

\* An insert takes from the inserting caller what it trims and what the store
\* drops, from the others what the store drops.
LEMMA OwnedAfter ==
  ASSUME IInv, NEW c \in Callers, NEW size \in Sizes, Insert(c, size), NEW d \in Callers
  PROVE  LET id == Len(issued) + 1
         IN  /\ d = c => Owned(d)' = KeptOf(c, size, d) \cup {id}
             /\ d # c => Owned(d)' = KeptOf(c, size, d)
             /\ id \notin KeptOf(c, size, d)
             /\ lru'.entry[id].size = size
             /\ \A k \in KeptOf(c, size, d) : lru'.entry[k] = lru.entry[k]
             /\ GoneOf(c, size, d) \subseteq Owned(d) \ Trim(c, size)
             /\ Trim(c, size) \subseteq Owned(c)
<1> DEFINE id == Len(issued) + 1
<1>1. /\ id \notin LruKeys(lru) /\ id \in LruKeys(lru')
      /\ LruKeys(lru') \subseteq (LruKeys(lru) \ Trim(c, size)) \cup {id}
      /\ lru'.entry[id] = [value |-> [caller |-> c, at |-> now], size |-> size]
      /\ \A k \in LruKeys(lru') \ {id} : lru'.entry[k] = lru.entry[k]
  BY InsertStore
<1> HIDE DEF id
<1>2. KeptOf(c, size, d) = {k \in LruKeys(lru') \ {id} : lru.entry[k].value.caller = d}
  BY <1>1 DEF KeptOf, Owned, GoneOf, Gone
<1>3. Owned(d)' = {k \in LruKeys(lru') : lru'.entry[k].value.caller = d}
  BY DEF Owned
<1>4. d = c => Owned(d)' = KeptOf(c, size, d) \cup {id}
  BY <1>1, <1>2, <1>3
<1>5. d # c => Owned(d)' = KeptOf(c, size, d)
  BY <1>1, <1>2, <1>3
<1>6. Trim(c, size) \subseteq Owned(c)
  <2>1. CASE SoftCap
    <3>1. OwnExcess(c, size) \in 0..Len(OwnIds(c))
      BY OwnExcessRange DEF IInv
    <3>2. FirstOwn(c, OwnExcess(c, size)) \subseteq Elements(OwnIds(c))
      BY <3>1 DEF FirstOwn, Elements
    <3> QED BY <2>1, <3>2 DEF Trim, IInv, IndexComplete
  <2>2. CASE ~SoftCap
    BY <2>2 DEF Trim
  <2> QED BY <2>1, <2>2
<1>7. GoneOf(c, size, d) \subseteq Owned(d) \ Trim(c, size)
  BY DEF GoneOf, Gone, Owned
<1>8. id \notin KeptOf(c, size, d) /\ lru'.entry[id].size = size
  BY <1>1, <1>2
<1>9. \A k \in KeptOf(c, size, d) : lru'.entry[k] = lru.entry[k]
  BY <1>1, <1>2
<1> QED BY <1>4, <1>5, <1>6, <1>7, <1>8, <1>9 DEF id

\* The sums over what a caller holds: finite, and each part a natural number.
LEMMA OwnSums ==
  ASSUME IInv, Exact(lru), NEW d \in Callers, NEW S \in SUBSET Owned(d), NEW T \in SUBSET S
  PROVE  /\ IsFiniteSet(S) /\ IsFiniteSet(T)
         /\ SizeOf(S) \in Nat /\ SizeOf(T) \in Nat /\ SizeOf(S \ T) \in Nat
         /\ SizeOf(S) = SizeOf(T) + SizeOf(S \ T)
<1>1. IsFiniteSet(LruKeys(lru))
  <2>1. /\ IsLru(lru, Ids, Values, Sizes) /\ NoRepeats(lru.order)
        /\ Sizes \subseteq Int
    BY StoreAssumption DEF IInv, TypeOK, Values, Exact
  <2> QED BY <2>1, LruFinite
<1>2. \A k \in LruKeys(lru) : lru.entry[k].size \in Nat
  BY StoreAssumption DEF IInv, TypeOK, IsLru
<1>3. S \subseteq LruKeys(lru)
  BY DEF Owned
<1>4. IsFiniteSet(S) /\ IsFiniteSet(T)
  BY <1>1, <1>3, FS_Subset
<1>5. \A k \in S : lru.entry[k].size \in Nat /\ lru.entry[k].size \in Int
  BY <1>2, <1>3
<1>6. S \ T \in SUBSET S
  OBVIOUS
<1>7. LruSize(lru, S) = LruSize(lru, T) + LruSize(lru, S \ T)
  BY <1>4, <1>5, SizeSplit
<1>8. LruSize(lru, S) \in Nat /\ LruSize(lru, T) \in Nat /\ LruSize(lru, S \ T) \in Nat
  BY <1>4, <1>5, <1>6, SizeMonotone
<1> QED BY <1>4, <1>7, <1>8 DEF SizeOf

\* What an insert makes of the bytes a caller holds.
LEMMA SizeAfter ==
  ASSUME IInv, Exact(lru), NEW c \in Callers, NEW size \in Sizes, Insert(c, size), NEW d \in Callers
  PROVE  /\ d = c => SizeOf(Owned(d))' = SizeOf(KeptOf(c, size, d)) + size
         /\ d # c => SizeOf(Owned(d))' = SizeOf(KeptOf(c, size, d))
         /\ SizeOf(KeptOf(c, size, d)) \in Nat
         /\ SizeOf(Owned(d) \ Trim(c, size)) \in Nat
         /\ SizeOf(GoneOf(c, size, d)) \in Nat
         /\ SizeOf(Owned(d) \ Trim(c, size))
              = SizeOf(GoneOf(c, size, d)) + SizeOf(KeptOf(c, size, d))
<1> DEFINE id == Len(issued) + 1
           K == KeptOf(c, size, d)
<1>1. /\ d = c => Owned(d)' = K \cup {id}
      /\ d # c => Owned(d)' = K
      /\ id \notin K
      /\ lru'.entry[id].size = size
      /\ \A k \in K : lru'.entry[k] = lru.entry[k]
      /\ GoneOf(c, size, d) \subseteq Owned(d) \ Trim(c, size)
  BY OwnedAfter
<1>2. K = (Owned(d) \ Trim(c, size)) \ GoneOf(c, size, d)
  BY DEF KeptOf
<1> HIDE DEF id, K
<1>3. Owned(d) \ Trim(c, size) \in SUBSET Owned(d)
  OBVIOUS
<1>4. /\ SizeOf(Owned(d) \ Trim(c, size)) \in Nat
      /\ SizeOf(GoneOf(c, size, d)) \in Nat
      /\ SizeOf(K) \in Nat
      /\ SizeOf(Owned(d) \ Trim(c, size)) = SizeOf(GoneOf(c, size, d)) + SizeOf(K)
  BY <1>1, <1>2, <1>3, OwnSums
<1>5. LruSize(lru', K) = SizeOf(K)
  BY <1>1, SizeSame DEF SizeOf
<1>6. d # c => SizeOf(Owned(d))' = SizeOf(K)
  BY <1>1, <1>5 DEF SizeOf
<1>7. d = c => SizeOf(Owned(d))' = SizeOf(K) + size
  <2> SUFFICES ASSUME d = c PROVE SizeOf(Owned(d))' = SizeOf(K) + size
    OBVIOUS
  <2> DEFINE S == K \cup {id}
  <2>1. IsFiniteSet(K) /\ \A k \in K : lru'.entry[k].size \in Int
    <3>1. K \in SUBSET Owned(d)
      BY <1>2
    <3>2. IsFiniteSet(K)
      BY <3>1, OwnSums
    <3>3. \A k \in K : lru.entry[k].size \in Int
      BY <3>1, StoreAssumption DEF IInv, TypeOK, IsLru, Owned
    <3> QED BY <1>1, <3>2, <3>3
  <2>2. size \in Int
    BY StoreAssumption
  <2>3. IsFiniteSet(S) /\ \A k \in S : lru'.entry[k].size \in Int
    BY <1>1, <2>1, <2>2, FS_AddElement
  <2>4. id \in S /\ S \ {id} = K
    BY <1>1
  <2> HIDE DEF S
  <2>5. LruSize(lru', S) = lru'.entry[id].size + LruSize(lru', K)
    BY <2>3, <2>4, SizeFacts
  <2>6. SizeOf(Owned(d))' = LruSize(lru', S)
    BY <1>1 DEF SizeOf, S
  <2> QED BY <1>1, <1>4, <1>5, <2>2, <2>5, <2>6
<1> QED BY <1>4, <1>6, <1>7 DEF K

\* What a difference leaves of a sum.
LEMMA Remaining ==
  /\ \A total, gone, kept \in Nat : total = gone + kept => total - gone = kept
  /\ \A total, gone, kept, size \in Nat :
       total = gone + kept => (total + size) - gone = kept + size
OBVIOUS

\* insert() keeps the callers' counters exact.
LEMMA InsertCounts ==
  ASSUME IInv, Exact(lru), BytesExact, NEW c \in Callers, NEW size \in Sizes, Insert(c, size)
  PROVE  BytesExact'
<1>1. Exact(lru')
  BY InsertStore
<1>2. lru'.total = SizeOf(LruKeys(lru))'
  BY <1>1 DEF Exact, SizeOf
<1>3. /\ DOMAIN callerBytes' =
           IF SoftCap THEN DOMAIN callerBytes \cup {c} ELSE DOMAIN callerBytes
      /\ \A d \in DOMAIN callerBytes' :
           callerBytes'[d] = InsertBytes(c, size)[d] - SizeOf(GoneOf(c, size, d))
  BY InsertIndex
<1>4. ASSUME SoftCap, NEW d \in DOMAIN callerBytes' PROVE callerBytes'[d] = SizeOf(Owned(d))'
  <2>1. d \in Callers
    BY <1>3, <1>4 DEF IInv, TypeOK
  <2>2. /\ d = c => SizeOf(Owned(d))' = SizeOf(KeptOf(c, size, d)) + size
        /\ d # c => SizeOf(Owned(d))' = SizeOf(KeptOf(c, size, d))
        /\ SizeOf(KeptOf(c, size, d)) \in Nat
        /\ SizeOf(Owned(d) \ Trim(c, size)) \in Nat
        /\ SizeOf(GoneOf(c, size, d)) \in Nat
        /\ SizeOf(Owned(d) \ Trim(c, size))
             = SizeOf(GoneOf(c, size, d)) + SizeOf(KeptOf(c, size, d))
    BY <2>1, SizeAfter
  <2>3. callerBytes'[d] = InsertBytes(c, size)[d] - SizeOf(GoneOf(c, size, d))
    BY <1>3, <1>4
  <2>4. size \in Nat
    BY StoreAssumption
  <2>5. CASE d = c
    <3>1. OwnExcess(c, size) \in 0..Len(OwnIds(c))
      BY OwnExcessRange DEF IInv
    <3>2. OwnBytesWithout(c, OwnExcess(c, size)) = SizeOf(Owned(c) \ FirstOwn(c, OwnExcess(c, size)))
      BY <1>4, <3>1, OwnBytesLeft
    <3>3. InsertBytes(c, size)[d] = OwnBytesWithout(c, OwnExcess(c, size)) + size
      BY <1>3, <1>4, <2>5 DEF InsertBytes, TrimmedBytes
    <3>4. InsertBytes(c, size)[d] = SizeOf(Owned(d) \ Trim(c, size)) + size
      BY <1>4, <2>5, <3>2, <3>3 DEF Trim
    <3>5. SizeOf(Owned(d))' = SizeOf(KeptOf(c, size, d)) + size
      BY <2>2, <2>5
    <3>6. (SizeOf(Owned(d) \ Trim(c, size)) + size) - SizeOf(GoneOf(c, size, d))
            = SizeOf(KeptOf(c, size, d)) + size
      BY <2>2, <2>4, Remaining
    <3> QED BY <2>3, <3>4, <3>5, <3>6
  <2>6. CASE d # c
    <3>1. d \in DOMAIN callerBytes
      BY <1>3, <1>4, <2>6
    <3>2. InsertBytes(c, size)[d] = SizeOf(Owned(d))
      BY <1>4, <2>6, <3>1 DEF InsertBytes, TrimmedBytes, BytesExact
    <3>3. Owned(d) \ Trim(c, size) = Owned(d)
      <4>1. Trim(c, size) \subseteq Owned(c)
        BY <2>1, OwnedAfter
      <4> QED BY <2>6, <4>1 DEF Owned
    <3>4. SizeOf(Owned(d) \ Trim(c, size)) - SizeOf(GoneOf(c, size, d))
            = SizeOf(KeptOf(c, size, d))
      BY <2>2, Remaining
    <3>5. callerBytes'[d] = SizeOf(KeptOf(c, size, d))
      BY <2>3, <3>2, <3>3, <3>4
    <3> QED BY <2>2, <2>6, <3>5
  <2> QED BY <2>5, <2>6
<1>5. ASSUME ~SoftCap PROVE DOMAIN callerBytes' = {}
  BY <1>3, <1>5 DEF IInv, IndexComplete
<1> QED BY <1>2, <1>4, <1>5 DEF BytesExact

\* The trim's condition: nothing is left of the caller's own results, or what
\* is left, the new one included, is within the quota.
LEMMA OwnExcessFits ==
  ASSUME TypeOK, NEW c, NEW size
  PROVE  LET n == OwnExcess(c, size)
         IN  \/ n = Len(OwnIds(c))
             \/ /\ Len(OwnIds(c)) - n < QuotaEntries
                /\ OwnBytesWithout(c, n) + size <= QuotaBytes
<1> DEFINE T == {n \in 0..Len(OwnIds(c)) :
                   \/ n = Len(OwnIds(c))
                   \/ /\ Len(OwnIds(c)) - n < QuotaEntries
                      /\ OwnBytesWithout(c, n) + size <= QuotaBytes}
<1>1. OwnIds(c) \in Seq(Ids)
  BY DEF TypeOK, OwnIds
<1>2. Len(OwnIds(c)) \in Nat /\ Len(OwnIds(c)) \in T
  BY <1>1
<1>3. T \in SUBSET Nat
  BY <1>2
<1>4. OwnExcess(c, size) = Min(T)
  BY DEF OwnExcess
<1>5. Min(T) \in T
  <2> HIDE DEF T
  <2>1. \E x \in T : \A y \in T : x <= y
    BY <1>2, <1>3, LeastNat
  <2> QED BY <2>1 DEF Min
<1> QED BY <1>4, <1>5

\* insert() keeps every caller within its quarter.
LEMMA InsertQuota ==
  ASSUME IInv, Exact(lru), BytesExact, QuotaKept,
         NEW c \in Callers, NEW size \in Sizes, Insert(c, size)
  PROVE  QuotaKept'
<1> SUFFICES ASSUME SoftCap, NEW d \in Callers
             PROVE  \/ Cardinality(Owned(d))' <= 1
                    \/ Cardinality(Owned(d))' <= QuotaEntries /\ SizeOf(Owned(d))' <= QuotaBytes
  BY DEF QuotaKept, QuotaEntries, QuotaBytes
<1> DEFINE id == Len(issued) + 1
           K == KeptOf(c, size, d)
           rest == Owned(d) \ Trim(c, size)
<1>1. /\ d = c => Owned(d)' = K \cup {id}
      /\ d # c => Owned(d)' = K
      /\ id \notin K
      /\ Trim(c, size) \subseteq Owned(c)
  BY OwnedAfter
<1>2. /\ d = c => SizeOf(Owned(d))' = SizeOf(K) + size
      /\ d # c => SizeOf(Owned(d))' = SizeOf(K)
      /\ SizeOf(K) \in Nat /\ SizeOf(rest) \in Nat
      /\ SizeOf(GoneOf(c, size, d)) \in Nat
      /\ SizeOf(rest) = SizeOf(GoneOf(c, size, d)) + SizeOf(K)
  BY SizeAfter
<1>3. SizeOf(K) <= SizeOf(rest)
  BY <1>2
<1>4. /\ OwnIds(d) \in Seq(Ids) /\ NoRepeats(OwnIds(d))
      /\ Elements(OwnIds(d)) = Owned(d) /\ Owned(d) \subseteq LruKeys(lru)
      /\ IsFiniteSet(Owned(d)) /\ Cardinality(Owned(d)) = Len(OwnIds(d))
  BY OwnFacts DEF Exact
<1>5. /\ IsFiniteSet(rest) /\ IsFiniteSet(K)
      /\ Cardinality(K) \in Nat /\ Cardinality(rest) \in Nat
      /\ Cardinality(K) <= Cardinality(rest)
  <2>1. K \subseteq rest
    BY DEF KeptOf
  <2>2. IsFiniteSet(rest)
    BY <1>4, FS_Subset
  <2> HIDE DEF rest, K
  <2>3. IsFiniteSet(K) /\ Cardinality(K) <= Cardinality(rest)
    BY <2>1, <2>2, FS_Subset
  <2> QED BY <2>2, <2>3, FS_CardinalityType
<1>6. QuotaEntries \in Nat \ {0} /\ QuotaBytes \in Nat /\ size \in Nat
  BY StoreAssumption DEF QuotaEntries, QuotaBytes, Ceiling
<1>7. CASE d = c
  <2> DEFINE n == OwnExcess(c, size)
  <2>1. n \in 0..Len(OwnIds(c))
    BY OwnExcessRange DEF IInv
  <2>2. /\ FirstOwn(c, n) = FirstOf(OwnIds(c), n)
        /\ FirstOwn(c, n) \subseteq Owned(c)
        /\ OwnBytesWithout(c, n) = SizeOf(Owned(c) \ FirstOwn(c, n))
    BY <2>1, OwnBytesLeft
  <2>3. rest = Owned(c) \ FirstOwn(c, n)
    BY <1>7 DEF Trim
  <2>4. Cardinality(rest) = Len(OwnIds(c)) - n
    <3>1. Cardinality(FirstOwn(c, n)) = n
      BY <1>4, <1>7, <2>1, <2>2, FirstElements
    <3>2. Owned(c) \cap FirstOwn(c, n) = FirstOwn(c, n)
      BY <2>2
    <3>3. Cardinality(Owned(c) \ FirstOwn(c, n))
            = Cardinality(Owned(c)) - Cardinality(Owned(c) \cap FirstOwn(c, n))
      BY <1>4, <1>7, FS_Difference
    <3> QED BY <1>4, <1>7, <2>3, <3>1, <3>2, <3>3
  <2>5. Cardinality(Owned(d))' = Cardinality(K) + 1
    <3>1. Cardinality(K \cup {id}) = Cardinality(K) + 1
      BY <1>1, <1>5, FS_AddElement
    <3> QED BY <1>1, <1>7, <3>1
  <2>6. \/ n = Len(OwnIds(c))
        \/ /\ Len(OwnIds(c)) - n < QuotaEntries
           /\ OwnBytesWithout(c, n) + size <= QuotaBytes
    BY OwnExcessFits DEF IInv
  <2>7. Len(OwnIds(c)) \in Nat /\ n \in Nat
    BY <1>4, <1>7, <2>1
  <2> HIDE DEF n, K, rest
  <2>8. CASE n = Len(OwnIds(c))
    BY <1>5, <2>4, <2>5, <2>7, <2>8
  <2>9. CASE /\ Len(OwnIds(c)) - n < QuotaEntries
             /\ OwnBytesWithout(c, n) + size <= QuotaBytes
    <3>1. Cardinality(Owned(d))' <= QuotaEntries
      BY <1>5, <1>6, <2>4, <2>5, <2>7, <2>9
    <3>2. SizeOf(Owned(d))' <= QuotaBytes
      BY <1>2, <1>3, <1>6, <1>7, <2>2, <2>3, <2>9
    <3> QED BY <3>1, <3>2
  <2> QED BY <2>6, <2>8, <2>9
<1>8. CASE d # c
  <2>1. rest = Owned(d)
    BY <1>1, <1>8 DEF Owned
  <2>2. \/ Cardinality(Owned(d)) <= 1
        \/ Cardinality(Owned(d)) <= QuotaEntries /\ SizeOf(Owned(d)) <= QuotaBytes
    BY DEF QuotaKept
  <2>3. Cardinality(Owned(d))' = Cardinality(K) /\ SizeOf(Owned(d))' = SizeOf(K)
    BY <1>1, <1>2, <1>8
  <2> HIDE DEF K, rest
  <2> QED BY <1>2, <1>3, <1>5, <1>6, <2>1, <2>2, <2>3
<1> QED BY <1>7, <1>8

\* The second invariant is preserved.
LEMMA CountedStep ==
  ASSUME IInv, Counted, [Next]_vars
  PROVE  Counted'
<1>1. ASSUME NEW c \in Callers, NEW size \in Sizes, Insert(c, size) PROVE Counted'
  <2>1. Exact(lru') /\ LruBounded(lru', MaxEntries, MaxBytes)
    BY <1>1, InsertStore DEF Counted
  <2>2. BytesExact' /\ QuotaKept'
    BY <1>1, InsertCounts, InsertQuota DEF Counted
  <2> QED BY <2>1, <2>2 DEF Counted, Exact, StoreBounded, LruBounded
<1>2. ASSUME NEW c \in Callers, NEW id \in Ids, Get(c, id) PROVE Counted'
  <2>1. IsLru(lru, Ids, Values, Sizes)
    BY DEF IInv, TypeOK, Values
  <2>2. lru' = LruTouch(lru, id) /\ UNCHANGED callerBytes
    BY <1>2 DEF Get
  <2>3. lru'.entry = lru.entry
    BY <2>1, <2>2, TouchEffect
  <2>4. Exact(lru')
    BY <2>1, <2>2, TouchExact DEF Counted
  <2>5. LruBounded(lru', MaxEntries, MaxBytes)
    BY <2>1, <2>2, TouchBounded, StoreAssumption DEF Counted, StoreBounded, LruBounded
  <2>6. \A d : Owned(d)' = Owned(d) /\ \A S : LruSize(lru', S) = LruSize(lru, S)
    BY <2>3 DEF Owned, LruKeys, LruSize
  <2>7. BytesExact' /\ QuotaKept'
    BY <2>2, <2>4, <2>6 DEF Counted, BytesExact, QuotaKept, SizeOf, Exact, QuotaEntries, QuotaBytes
  <2> QED BY <2>4, <2>5, <2>7 DEF Counted, Exact, StoreBounded, LruBounded
<1>3. ASSUME UNCHANGED <<lru, callerBytes>> PROVE Counted'
  <2>1. \A d : Owned(d)' = Owned(d) /\ \A S : SizeOf(S)' = SizeOf(S)
    BY <1>3 DEF Owned, LruKeys, LruSize, SizeOf
  <2> QED BY <1>3, <2>1 DEF Counted, Exact, BytesExact, StoreBounded, QuotaKept,
                            QuotaEntries, QuotaBytes, LruKeys, SizeOf
<1>4. CASE Tick \/ UNCHANGED vars
  BY <1>3, <1>4 DEF Tick, vars
<1> QED BY <1>1, <1>2, <1>4 DEF Next

\* The counters, limits and quotas of every reachable state.
LEMMA Counting == Spec => []Counted
<1>1. Init => Counted
  <2> SUFFICES ASSUME Init PROVE Counted
    OBVIOUS
  <2>1. /\ LruKeys(lru) = {} /\ lru.order = <<>> /\ lru.total = 0
        /\ DOMAIN callerBytes = {}
    BY DEF Init, EmptyLru, LruKeys
  <2>2. LruSize(lru, {}) = 0 /\ Cardinality({}) = 0
    BY SizeFacts, FS_EmptySet
  <2>3. \A d : Owned(d) = {}
    BY <2>1 DEF Owned
  <2>4. Exact(lru) /\ BytesExact
    BY <2>1, <2>2 DEF Exact, NoRepeats, BytesExact, SizeOf
  <2>5. StoreBounded
    <3>1. Len(lru.order) = 0
      BY <2>1
    <3> QED BY <3>1 DEF StoreBounded
  <2>6. QuotaKept
    <3>1. ASSUME NEW d \in Callers PROVE Cardinality(Owned(d)) <= 1
      <4>1. Cardinality(Owned(d)) = 0
        BY <2>2, <2>3
      <4> QED BY <4>1
    <3> QED BY <3>1 DEF QuotaKept
  <2> QED BY <2>4, <2>5, <2>6 DEF Counted
<1> QED BY <1>1, CountedStep, Invariance, PTL DEF Spec

\* The three byte counters that are only adjusted by differences never drift
\* from the sizes they stand for, through inserts, trims, evictions and reads.
THEOREM BytesCorrect == Spec => []BytesExact
BY Counting, PTL DEF Counted

\* The LRU's limits hold between calls, one entry that is too large by itself
\* aside.
THEOREM StoreWithinLimits == Spec => []StoreBounded
BY Counting, PTL DEF Counted

\* No caller holds more than its quarter, one result that is larger by itself
\* aside, whoever inserts and whatever the store evicts.
THEOREM QuotasKept == Spec => []QuotaKept
BY Counting, PTL DEF Counted

-----------------------------------------------------------------------------
(* Which results an insert drops *)

\* The key at a position of the order has that position.
LEMMA PositionOf ==
  ASSUME NoRepeats(lru.order), NEW i \in 1..Len(lru.order)
  PROVE  Position(lru.order[i]) = i
<1>1. \A j \in 1..Len(lru.order) : lru.order[j] = lru.order[i] => j = i
  BY DEF NoRepeats
<1> QED BY <1>1 DEF Position

\* A result that the shared store drops at an insert was in its way: it, the
\* results used since and the new one were over a limit.
LEMMA GoneInTheWay ==
  ASSUME IInv, Exact(lru), NEW c \in Callers, NEW size \in Sizes, Insert(c, size),
         NEW e \in Gone(c, size)
  PROVE  ~NeedlessFor(c, size, e)
<1> DEFINE id == Len(issued) + 1
           value == [caller |-> c, at |-> now]
           t == Trimmed(c, size)
           since == {x \in LruKeys(lru) : Position(x) >= Position(e)} \ OwnTrim(c, size)
<1>1. /\ lru' = LruInsert(t, id, value, size, MaxEntries, MaxBytes)
      /\ id \in Ids /\ id \notin LruKeys(lru)
      /\ value \in Values
  <2>1. lru' = LruInsert(t, id, value, size, MaxEntries, MaxBytes)
    BY DEF Insert, Trimmed
  <2>2. id \in Ids /\ id \notin LruKeys(lru)
    BY InsertStore
  <2> QED BY <2>1, <2>2 DEF IInv, TypeOK, Values
<1>2. /\ IsLru(t, Ids, Values, Sizes) /\ Exact(t)
      /\ LruKeys(t) = LruKeys(lru) \ Trim(c, size)
      /\ \A k \in LruKeys(t) : t.entry[k] = lru.entry[k]
      /\ SameOrder(t.order, lru.order)
  BY TrimmedEffect DEF IInv
<1>3. Trim(c, size) = OwnTrim(c, size)
  BY DEF Trim, OwnTrim, FirstOwn
<1> HIDE DEF t, id, value
<1>4. e \in LruKeys(t) /\ e \notin LruKeys(lru')
  BY <1>2 DEF Gone
<1>5. LruKeys(t) = Elements(t.order) /\ t.order \in Seq(Ids) /\ lru.order \in Seq(Ids) /\ NoRepeats(lru.order)
  BY <1>2 DEF IsLru, IInv, TypeOK, Exact
<1>6. PICK i \in 1..Len(t.order) : t.order[i] = e
  BY <1>4, <1>5 DEF Elements
<1>7. ASSUME NEW j \in 1..Len(t.order), NEW k \in 1..Len(t.order), j < k
      PROVE  Position(t.order[j]) < Position(t.order[k])
  <2>1. PICK a \in 1..Len(lru.order), b \in 1..Len(lru.order) :
          a < b /\ lru.order[a] = t.order[j] /\ lru.order[b] = t.order[k]
    BY <1>2, <1>7 DEF SameOrder
  <2>2. Position(lru.order[a]) = a /\ Position(lru.order[b]) = b
    BY <1>5, PositionOf
  <2> QED BY <2>1, <2>2
<1>8. \A j \in 1..Len(t.order) : Position(t.order[j]) \in Int
  <2> SUFFICES ASSUME NEW j \in 1..Len(t.order) PROVE Position(t.order[j]) \in Int
    OBVIOUS
  <2>1. t.order[j] \in Elements(lru.order)
    <3>1. t.order[j] \in LruKeys(lru)
      BY <1>2, <1>5 DEF Elements
    <3> QED BY <3>1 DEF IInv, TypeOK, IsLru
  <2>2. PICK a \in 1..Len(lru.order) : lru.order[a] = t.order[j]
    BY <2>1 DEF Elements
  <2>3. Position(lru.order[a]) = a
    BY <1>5, PositionOf
  <2> QED BY <2>2, <2>3
<1>9. From(t.order, i) = since
  <2>1. ASSUME NEW k \in i..Len(t.order) PROVE t.order[k] \in since
    <3>1. k \in 1..Len(t.order) /\ (k = i \/ i < k)
      BY <1>5, <1>6
    <3>2. t.order[k] \in LruKeys(lru) \ Trim(c, size)
      BY <1>2, <1>5, <3>1 DEF Elements
    <3>3. Position(t.order[k]) >= Position(t.order[i])
      BY <1>6, <1>7, <1>8, <3>1
    <3> QED BY <1>3, <1>6, <3>2, <3>3
  <2>2. ASSUME NEW x \in since PROVE x \in From(t.order, i)
    <3>1. x \in Elements(t.order)
      BY <1>2, <1>3, <1>5
    <3>2. PICK k \in 1..Len(t.order) : t.order[k] = x
      BY <3>1 DEF Elements
    <3>3. ~ (k < i)
      <4> SUFFICES ASSUME k < i PROVE FALSE
        OBVIOUS
      <4>1. Position(x) < Position(e)
        BY <1>6, <1>7, <3>2
      <4>2. Position(x) >= Position(e)
        OBVIOUS
      <4>3. Position(x) \in Int /\ Position(e) \in Int
        BY <1>6, <1>8, <3>2
      <4> QED BY <4>1, <4>2, <4>3
    <3>4. k \in i..Len(t.order)
      BY <1>5, <1>6, <3>2, <3>3
    <3> QED BY <3>2, <3>4 DEF From
  <2> HIDE DEF since
  <2> QED BY <2>1, <2>2 DEF From
<1> HIDE DEF since
<1>10. ~ (Cardinality(since) + 1 <= MaxEntries /\ LruSize(t, since) + size <= MaxBytes)
  <2>1. Sizes \subseteq Int /\ MaxEntries \in Int /\ MaxBytes \in Int
    BY StoreAssumption
  <2>2. id \notin LruKeys(t)
    BY <1>1, <1>2
  <2>3. t.order[i] \notin LruKeys(LruInsert(t, id, value, size, MaxEntries, MaxBytes))
    BY <1>1, <1>4, <1>6
  <2> QED BY <1>1, <1>2, <1>6, <1>9, <2>1, <2>2, <2>3, DroppedAreInTheWay
<1>11. LruSize(t, since) = SizeOf(since)
  <2>1. since \subseteq LruKeys(t)
    BY <1>2, <1>3 DEF since
  <2> QED BY <1>2, <2>1, SizeSame DEF SizeOf
<1> QED BY <1>10, <1>11 DEF NeedlessFor, since

\* The results that are gone after an insert were its own trim or dropped by
\* the shared store, and no other step loses a result.
LEMMA OnlyInsertsLose ==
  ASSUME IInv, [Next]_vars, NEW e \in LruKeys(lru) \ LruKeys(lru')
  PROVE  \E c \in Callers, size \in Sizes :
           /\ Insert(c, size)
           /\ e \in Trim(c, size) \cup Gone(c, size)
           /\ issued'[Len(issued')].caller = c /\ issued'[Len(issued')].size = size
<1>1. ASSUME NEW c \in Callers, NEW size \in Sizes, Insert(c, size)
      PROVE  /\ e \in Trim(c, size) \cup Gone(c, size)
             /\ issued'[Len(issued')].caller = c /\ issued'[Len(issued')].size = size
  <2>1. issued \in Seq(Result) /\ issued' = Append(issued, [caller |-> c, size |-> size, at |-> now])
    BY <1>1 DEF IInv, TypeOK, Insert
  <2>2. issued'[Len(issued')] = [caller |-> c, size |-> size, at |-> now]
    BY <2>1
  <2> QED BY <2>2 DEF Gone
<1>2. ASSUME NEW c \in Callers, NEW id \in Ids, Get(c, id) PROVE FALSE
  BY <1>2, TouchEffect DEF IInv, TypeOK, Values, Get, LruKeys
<1>3. CASE Tick \/ UNCHANGED vars
  BY <1>3 DEF Tick, vars
<1> QED BY <1>1, <1>2, <1>3 DEF Next

\* No insert drops another caller's result without need: the trim takes only
\* the inserting caller's, and the shared store's loop stops as soon as what is
\* left and the new result are within both limits.
THEOREM EvictionsNeeded == Spec => NoNeedlessEviction
<1> DEFINE Needed == \A id \in LruKeys(lru) \ LruKeys(lru') :
                       LET new == issued'[Len(issued')]
                       IN  lru.entry[id].value.caller # new.caller
                             => ~NeedlessFor(new.caller, new.size, id)
<1>1. IInv /\ Counted /\ [Next]_vars => [Needed]_vars
  <2> SUFFICES ASSUME IInv, Counted, [Next]_vars, NEW id \in LruKeys(lru) \ LruKeys(lru'),
                      lru.entry[id].value.caller # issued'[Len(issued')].caller
               PROVE  ~NeedlessFor(issued'[Len(issued')].caller, issued'[Len(issued')].size, id)
    OBVIOUS
  <2>1. PICK c \in Callers, size \in Sizes :
          /\ Insert(c, size)
          /\ id \in Trim(c, size) \cup Gone(c, size)
          /\ issued'[Len(issued')].caller = c /\ issued'[Len(issued')].size = size
    BY OnlyInsertsLose
  <2>2. Trim(c, size) \subseteq Owned(c)
    BY <2>1, OwnedAfter
  <2>3. id \in Gone(c, size)
    BY <2>1, <2>2 DEF Owned
  <2>4. ~NeedlessFor(c, size, id)
    BY <2>1, <2>3, GoneInTheWay DEF Counted
  <2> QED BY <2>1, <2>4
<1> QED BY <1>1, Invariance, Counting, PTL DEF Spec, NoNeedlessEviction

\* What a read found is the most recently used entry, until something else happens.
ReadIsNewest ==
  reply.found => /\ reply.id \in LruKeys(lru)
                 /\ lru.order # <<>> /\ lru.order[Len(lru.order)] = reply.id

\* It is so in every reachable state.
LEMMA ReadsAreNewest == Spec => []ReadIsNewest
<1>1. Init => ReadIsNewest
  BY DEF Init, None, ReadIsNewest
<1>2. IInv /\ ReadIsNewest /\ [Next]_vars => ReadIsNewest'
  <2> SUFFICES ASSUME IInv, ReadIsNewest, [Next]_vars PROVE ReadIsNewest'
    OBVIOUS
  <2>1. ASSUME NEW c \in Callers, NEW id \in Ids, Get(c, id), reply'.found
        PROVE  ReadIsNewest'
    <3>1. id \in LruKeys(lru) /\ reply'.id = id
      BY <2>1 DEF Get, None
    <3>2. lru.order \in Seq(Ids) /\ LruKeys(lru) = Elements(lru.order)
      BY DEF IInv, TypeOK, IsLru
    <3>3. lru' = LruTouch(lru, id) /\ LruKeys(lru') = LruKeys(lru)
      BY <2>1, TouchEffect DEF IInv, TypeOK, Values, Get, LruKeys
    <3>4. lru'.order = Append(Kept(lru.order, LruKeys(lru) \ {id}), id)
      BY <3>1, <3>3 DEF LruTouch, IInv, TypeOK, IsLru
    <3>5. Kept(lru.order, LruKeys(lru) \ {id}) \in Seq(Ids)
      BY <3>2, KeptElements
    <3>6. lru'.order # <<>> /\ lru'.order[Len(lru'.order)] = id
      BY <2>1, <3>4, <3>5
    <3> QED BY <3>1, <3>3, <3>6 DEF ReadIsNewest
  <2>2. CASE \E c \in Callers, size \in Sizes : Insert(c, size)
    BY <2>2 DEF Insert, None, ReadIsNewest
  <2>3. CASE Tick
    BY <2>3 DEF Tick, None, ReadIsNewest
  <2>4. CASE UNCHANGED vars
    BY <2>4 DEF vars, ReadIsNewest
  <2> QED BY <2>1, <2>2, <2>3, <2>4 DEF Next, ReadIsNewest
<1> QED BY <1>1, <1>2, Invariance, PTL DEF Spec

\* BoundedLru is a genuine LRU for every limit: a result that was just read
\* outlives the next insert if the two fit together.
THEOREM ReadsSurvive == Spec => ReadSurvivesInsert
<1> DEFINE Survives == (/\ ~SoftCap /\ MaxEntries >= 2
                        /\ reply.found
                        /\ Len(issued') > Len(issued)
                        /\ lru.entry[reply.id].size + issued'[Len(issued')].size <= MaxBytes)
                       => reply.id \in LruKeys(lru')
<1>1. IInv /\ Counted /\ ReadIsNewest /\ [Next]_vars => [Survives]_vars
  <2> SUFFICES ASSUME IInv, Counted, ReadIsNewest, [Next]_vars,
                      ~SoftCap, MaxEntries >= 2, reply.found,
                      lru.entry[reply.id].size + issued'[Len(issued')].size <= MaxBytes,
                      reply.id \notin LruKeys(lru')
               PROVE  FALSE
    OBVIOUS
  <2> DEFINE e == reply.id
             since == {x \in LruKeys(lru) : Position(x) >= Position(e)}
  <2>1. e \in LruKeys(lru) \ LruKeys(lru') /\ lru.order # <<>> /\ lru.order[Len(lru.order)] = e
    BY DEF ReadIsNewest
  <2>2. PICK c \in Callers, size \in Sizes :
          /\ Insert(c, size)
          /\ e \in Trim(c, size) \cup Gone(c, size)
          /\ issued'[Len(issued')].caller = c /\ issued'[Len(issued')].size = size
    BY <2>1, OnlyInsertsLose
  <2>3. ~NeedlessFor(c, size, e)
    BY <2>2, GoneInTheWay DEF Counted, Trim
  <2>4. lru.order \in Seq(Ids) /\ NoRepeats(lru.order) /\ LruKeys(lru) = Elements(lru.order)
    BY DEF IInv, TypeOK, IsLru, Counted, Exact
  <2> HIDE DEF e
  <2>5. Len(lru.order) \in 1..Len(lru.order) /\ Position(e) = Len(lru.order)
    <3>1. Len(lru.order) \in 1..Len(lru.order)
      BY <2>1, <2>4
    <3>2. Position(lru.order[Len(lru.order)]) = Len(lru.order)
      BY <2>4, <3>1, PositionOf
    <3> QED BY <2>1, <3>1, <3>2
  <2>6. since = {e}
    <3>1. ASSUME NEW x \in since PROVE x = e
      <4>1. PICK a \in 1..Len(lru.order) : lru.order[a] = x
        BY <2>4 DEF Elements
      <4>2. Position(x) = a
        BY <2>4, <4>1, PositionOf
      <4>3. a = Len(lru.order)
        BY <2>4, <2>5, <4>2
      <4> QED BY <2>1, <4>1, <4>3
    <3>2. e \in since
      BY <2>1, <2>4, <2>5
    <3> QED BY <3>1, <3>2
  <2> HIDE DEF since
  <2>7. Cardinality(since) = 1
    BY <2>6, FS_Singleton
  <2>8. SizeOf(since) = lru.entry[e].size
    <3>1. IsFiniteSet({e}) /\ Cardinality({}) = 0
      BY FS_Singleton, FS_EmptySet
    <3>2. lru.entry[e].size \in Int
      BY <2>1, StoreAssumption DEF IInv, TypeOK, IsLru
    <3>3. {e} \ {e} = {} /\ IsFiniteSet({})
      BY FS_EmptySet
    <3>4. LruSize(lru, {e}) = lru.entry[e].size + LruSize(lru, {e} \ {e})
      BY <3>1, <3>2, SizeFacts
    <3>5. LruSize(lru, {}) = 0
      BY <3>3, SizeFacts
    <3>6. LruSize(lru, {e}) = lru.entry[e].size + 0
      BY <3>3, <3>4, <3>5, Zenon
    <3>7. LruSize(lru, {e}) = lru.entry[e].size
      BY <3>2, <3>6
    <3> QED BY <2>6, <3>7 DEF SizeOf
  <2>9. since \ OwnTrim(c, size) = since
    BY DEF OwnTrim
  <2>10. ~ (Cardinality(since) + 1 <= MaxEntries /\ SizeOf(since) + size <= MaxBytes)
    BY <2>3, <2>9 DEF NeedlessFor, since
  <2>11. lru.entry[e].size + size <= MaxBytes
    BY <2>2 DEF e
  <2> QED BY <2>7, <2>8, <2>10, <2>11, StoreAssumption
<1> QED BY <1>1, Invariance, Counting, ReadsAreNewest, PTL DEF Spec, ReadSurvivesInsert

\* Some entries of a store are finitely many, at most q of b bytes together.
Within(l, S, q, b) ==
  /\ IsFiniteSet(S) /\ Cardinality(S) <= q
  /\ LruSize(l, S) <= b
  /\ \A k \in S : l.entry[k].size \in Nat

Union(h, D) == UNION {h[d] : d \in D}

\* Finitely many parts of a store, none of them over q entries or b bytes.
LEMMA PartsBounded ==
  ASSUME NEW l, NEW D, IsFiniteSet(D), NEW h, NEW q \in Nat, NEW b \in Nat,
         \A d \in D : Within(l, h[d], q, b)
  PROVE  Within(l, Union(h, D), Cardinality(D) * q, Cardinality(D) * b)
<1> DEFINE U(E) == UNION {h[d] : d \in E}
           Good(E) == Within(l, U(E), Cardinality(E) * q, Cardinality(E) * b)
           P == {n \in Nat : \A E \in SUBSET D : Cardinality(E) = n => Good(E)}
<1>1. 0 \in P
  <2> SUFFICES ASSUME NEW E \in SUBSET D, Cardinality(E) = 0 PROVE Good(E)
    OBVIOUS
  <2>1. E = {}
    BY FS_Subset, FS_EmptySet
  <2>2. U(E) = {} /\ IsFiniteSet({}) /\ Cardinality({}) = 0
    BY <2>1, FS_EmptySet
  <2>3. LruSize(l, {}) = 0
    BY <2>2, SizeFacts
  <2>4. Cardinality(E) * q = 0 /\ Cardinality(E) * b = 0
    OBVIOUS
  <2> HIDE DEF U
  <2> QED BY <2>2, <2>3, <2>4 DEF Within
<1>2. ASSUME NEW n \in Nat, n \in P PROVE n + 1 \in P
  <2> SUFFICES ASSUME NEW E \in SUBSET D, Cardinality(E) = n + 1 PROVE Good(E)
    OBVIOUS
  <2>1. PICK d \in E : E \ {d} \in SUBSET D /\ Cardinality(E \ {d}) = n
    BY PickOne
  <2> DEFINE A == h[d]
             B == U(E \ {d})
             C == U(E)
  <2>2. /\ IsFiniteSet(B) /\ (\A k \in B : l.entry[k].size \in Nat)
        /\ Cardinality(B) <= n * q /\ LruSize(l, B) <= n * b
    BY <1>2, <2>1 DEF Within
  <2>3. /\ IsFiniteSet(A) /\ Cardinality(A) <= q
        /\ (\A k \in A : l.entry[k].size \in Nat)
        /\ LruSize(l, A) <= b
    <3>1. Within(l, h[d], q, b)
      OBVIOUS
    <3> QED BY <3>1 DEF Within
  <2>4. C = A \cup B
    OBVIOUS
  <2> HIDE DEF A, B, C
  <2>5. /\ IsFiniteSet(C) /\ (\A k \in C : l.entry[k].size \in Nat)
        /\ Cardinality(C) = Cardinality(A) + Cardinality(B) - Cardinality(A \cap B)
    BY <2>2, <2>3, <2>4, FS_Union
  <2>6. Cardinality(C) <= n * q + q
    <3>1. IsFiniteSet(A \cap B)
      BY <2>2, FS_Subset
    <3>2. Cardinality(A) \in Nat /\ Cardinality(B) \in Nat /\ Cardinality(A \cap B) \in Nat
      BY <2>2, <2>3, <3>1, FS_CardinalityType
    <3>3. n * q \in Int
      OBVIOUS
    <3> QED BY <2>2, <2>3, <2>5, <3>2, <3>3
  <2>7. LruSize(l, C) <= n * b + b
    <3>1. A \in SUBSET C /\ C \ A \in SUBSET B /\ \A k \in C : l.entry[k].size \in Int
      BY <2>4, <2>5
    <3>2. LruSize(l, C) = LruSize(l, A) + LruSize(l, C \ A)
      BY <2>5, <3>1, SizeSplit
    <3>3. LruSize(l, C \ A) \in Nat /\ LruSize(l, B) \in Nat /\ LruSize(l, C \ A) <= LruSize(l, B)
      BY <2>2, <3>1, SizeMonotone
    <3>4. LruSize(l, A) \in Nat
      BY <2>3, SizeMonotone
    <3>5. n * b \in Int
      OBVIOUS
    <3> QED BY <2>2, <2>3, <3>2, <3>3, <3>4, <3>5
  <2>8. (n + 1) * q = n * q + q /\ (n + 1) * b = n * b + b
    OBVIOUS
  <2> QED BY <2>5, <2>6, <2>7, <2>8 DEF C, Within
<1>3. Cardinality(D) \in P
  <2> HIDE DEF P
  <2>1. Nat \subseteq P
    BY <1>1, <1>2, NatSetInduction
  <2> QED BY <2>1, FS_CardinalityType
<1> QED BY <1>3 DEF Union

\* After its own trim, a caller has room within its quota for the new result.
LEMMA OwnRoom ==
  ASSUME IInv, SoftCap, Exact(lru), BytesExact, NEW c \in Callers,
         NEW size \in Sizes, size <= QuotaBytes
  PROVE  LET rest == Owned(c) \ Trim(c, size)
         IN  /\ IsFiniteSet(rest)
             /\ Cardinality(rest) \in Nat /\ Cardinality(rest) + 1 <= QuotaEntries
             /\ SizeOf(rest) \in Nat /\ SizeOf(rest) + size <= QuotaBytes
<1> DEFINE rest == Owned(c) \ Trim(c, size)
           n == OwnExcess(c, size)
<1>1. /\ OwnIds(c) \in Seq(Ids) /\ NoRepeats(OwnIds(c))
      /\ IsFiniteSet(Owned(c)) /\ Cardinality(Owned(c)) = Len(OwnIds(c))
  BY OwnFacts DEF Exact
<1>2. n \in 0..Len(OwnIds(c))
  BY OwnExcessRange DEF IInv
<1>3. /\ FirstOwn(c, n) = FirstOf(OwnIds(c), n)
      /\ FirstOwn(c, n) \subseteq Owned(c)
      /\ OwnBytesWithout(c, n) = SizeOf(Owned(c) \ FirstOwn(c, n))
  BY <1>2, OwnBytesLeft
<1>4. rest = Owned(c) \ FirstOwn(c, n)
  BY DEF Trim
<1>5. \/ n = Len(OwnIds(c))
      \/ Len(OwnIds(c)) - n < QuotaEntries /\ OwnBytesWithout(c, n) + size <= QuotaBytes
  BY OwnExcessFits DEF IInv
<1> HIDE DEF n, rest
<1>6. Cardinality(rest) = Len(OwnIds(c)) - n /\ IsFiniteSet(rest)
  <2>1. Cardinality(FirstOwn(c, n)) = n
    BY <1>1, <1>2, <1>3, FirstElements
  <2>2. Owned(c) \cap FirstOwn(c, n) = FirstOwn(c, n)
    BY <1>3
  <2>3. Cardinality(Owned(c) \ FirstOwn(c, n))
          = Cardinality(Owned(c)) - Cardinality(Owned(c) \cap FirstOwn(c, n))
    BY <1>1, FS_Difference
  <2>4. IsFiniteSet(rest)
    BY <1>1, <1>4, FS_Subset
  <2> QED BY <1>1, <1>4, <2>1, <2>2, <2>3, <2>4
<1>7. SizeOf(rest) \in Nat
  BY OwnSums DEF rest
<1>8. QuotaEntries \in Nat \ {0} /\ QuotaBytes \in Nat /\ size \in Nat
  BY StoreAssumption DEF QuotaEntries, QuotaBytes, Ceiling
<1>9. ASSUME n = Len(OwnIds(c))
      PROVE  Cardinality(rest) + 1 <= QuotaEntries /\ SizeOf(rest) + size <= QuotaBytes
  <2>1. Cardinality(rest) = 0
    BY <1>1, <1>6, <1>9
  <2>2. rest = {} /\ IsFiniteSet({})
    BY <1>6, <2>1, FS_EmptySet
  <2>3. LruSize(lru, {}) = 0
    BY <2>2, SizeFacts
  <2>4. SizeOf(rest) = 0
    BY <2>2, <2>3 DEF SizeOf
  <2> QED BY <1>8, <2>1, <2>4
<1>10. ASSUME Len(OwnIds(c)) - n < QuotaEntries, OwnBytesWithout(c, n) + size <= QuotaBytes
       PROVE  Cardinality(rest) + 1 <= QuotaEntries /\ SizeOf(rest) + size <= QuotaBytes
  BY <1>1, <1>2, <1>3, <1>4, <1>6, <1>8, <1>10
<1>11. Cardinality(rest) \in Nat
  BY <1>6, FS_CardinalityType
<1> QED BY <1>5, <1>6, <1>7, <1>9, <1>10, <1>11 DEF rest

\* Another caller is within its quota too, if no result is larger than it.
LEMMA NeighbourRoom ==
  ASSUME IInv, SoftCap, Counted, NEW d \in Callers,
         \A i \in DOMAIN issued : issued[i].size <= QuotaBytes
  PROVE  /\ IsFiniteSet(Owned(d))
         /\ Cardinality(Owned(d)) <= QuotaEntries
         /\ SizeOf(Owned(d)) <= QuotaBytes
<1>1. IsFiniteSet(Owned(d)) /\ Cardinality(Owned(d)) \in Nat
  BY OwnFacts, FS_CardinalityType DEF Counted, Exact
<1>2. QuotaEntries \in Nat \ {0} /\ QuotaBytes \in Nat
  BY StoreAssumption DEF QuotaEntries, QuotaBytes, Ceiling
<1>3. CASE Cardinality(Owned(d)) <= QuotaEntries /\ SizeOf(Owned(d)) <= QuotaBytes
  BY <1>1, <1>3
<1>4. CASE Cardinality(Owned(d)) = 0
  <2>1. Owned(d) = {} /\ IsFiniteSet({})
    BY <1>1, <1>4, FS_EmptySet
  <2>2. LruSize(lru, {}) = 0
    BY <2>1, SizeFacts
  <2> QED BY <1>1, <1>2, <1>4, <2>1, <2>2 DEF SizeOf
<1>5. CASE Cardinality(Owned(d)) = 1
  <2>1. PICK e : Owned(d) = {e}
    BY <1>1, <1>5, FS_Singleton
  <2>2. e \in LruKeys(lru)
    BY <2>1 DEF Owned
  <2>3. e \in 1..Len(issued) /\ lru.entry[e].size = issued[e].size
    BY <2>2 DEF IInv, TagsFaithful
  <2>4. lru.entry[e].size <= QuotaBytes /\ lru.entry[e].size \in Int
    BY <2>2, <2>3, StoreAssumption DEF IInv, TypeOK, IsLru
  <2>5. IsFiniteSet({e}) /\ IsFiniteSet({}) /\ {e} \ {e} = {}
    BY FS_Singleton, FS_EmptySet
  <2>6. LruSize(lru, {e}) = lru.entry[e].size + LruSize(lru, {e} \ {e}) /\ LruSize(lru, {}) = 0
    BY <2>4, <2>5, SizeFacts
  <2>7. LruSize(lru, {e}) = lru.entry[e].size + 0
    BY <2>5, <2>6, Zenon
  <2>8. SizeOf(Owned(d)) <= QuotaBytes
    <3>1. LruSize(lru, {e}) = lru.entry[e].size
      BY <2>4, <2>7
    <3> QED BY <2>1, <2>4, <3>1 DEF SizeOf
  <2> QED BY <1>1, <1>2, <1>5, <2>8
<1> QED BY <1>1, <1>2, <1>3, <1>4, <1>5 DEF Counted, QuotaKept

\* Products over one set more.
LEMMA OneShareMore ==
  \A n, q \in Nat : (n + 1) * q = n * q + q
OBVIOUS

\* While the quotas fit into the store, the trim makes all the room there is to make.
LEMMA TrimSuffices ==
  ASSUME IInv, SoftCap, Counted, QuotasFit, NEW c \in Callers,
         NEW size \in Sizes, size <= QuotaBytes,
         \A i \in DOMAIN issued : issued[i].size <= QuotaBytes
  PROVE  LET rest == LruKeys(lru) \ Trim(c, size)
         IN  /\ IsFiniteSet(rest)
             /\ Cardinality(rest) + 1 <= MaxEntries
             /\ SizeOf(rest) + size <= MaxBytes
             /\ \A k \in rest : lru.entry[k].size \in Nat
<1> DEFINE D == Callers \ {c}
           h == [d \in D |-> Owned(d)]
           A == Union(h, D)
           B == Owned(c) \ Trim(c, size)
           rest == LruKeys(lru) \ Trim(c, size)
           n == Cardinality(D)
<1>1. IsFiniteSet(D) /\ n \in Nat /\ Cardinality(Callers) = n + 1
  <2>1. IsFiniteSet(D) /\ Cardinality(D) = Cardinality(Callers) - 1
    BY StoreAssumption, FS_RemoveElement
  <2>2. Cardinality(D) \in Nat /\ Cardinality(Callers) \in Nat
    BY <2>1, StoreAssumption, FS_CardinalityType
  <2> QED BY <2>1, <2>2
<1>2. QuotaEntries \in Nat \ {0} /\ QuotaBytes \in Nat /\ size \in Nat /\ MaxEntries \in Nat /\ MaxBytes \in Nat
  BY StoreAssumption DEF QuotaEntries, QuotaBytes, Ceiling
<1>3. \A k \in LruKeys(lru) : lru.entry[k].size \in Nat /\ lru.entry[k].value.caller \in Callers
  BY StoreAssumption DEF IInv, TypeOK, IsLru
<1>4. IsFiniteSet(A) /\ Cardinality(A) <= n * QuotaEntries /\ LruSize(lru, A) <= n * QuotaBytes
  <2>1. ASSUME NEW d \in D PROVE Within(lru, h[d], QuotaEntries, QuotaBytes)
    <3>1. h[d] = Owned(d) /\ d \in Callers
      OBVIOUS
    <3> HIDE DEF h
    <3>2. IsFiniteSet(Owned(d)) /\ Cardinality(Owned(d)) <= QuotaEntries /\ SizeOf(Owned(d)) <= QuotaBytes
      BY <3>1, NeighbourRoom
    <3>3. \A k \in Owned(d) : lru.entry[k].size \in Nat
      BY <1>3 DEF Owned
    <3> QED BY <3>1, <3>2, <3>3 DEF SizeOf, Within
  <2>2. QuotaEntries \in Nat /\ QuotaBytes \in Nat
    BY <1>2
  <2> HIDE DEF h, D
  <2>3. Within(lru, A, n * QuotaEntries, n * QuotaBytes)
    BY <1>1, <2>1, <2>2, PartsBounded
  <2> QED BY <2>3 DEF Within
<1>5. /\ IsFiniteSet(B)
      /\ Cardinality(B) \in Nat /\ Cardinality(B) + 1 <= QuotaEntries
      /\ SizeOf(B) \in Nat /\ SizeOf(B) + size <= QuotaBytes
  BY OwnRoom DEF Counted
<1>6. rest = A \cup B
  <2>1. Trim(c, size) \subseteq Owned(c)
    <3>1. OwnExcess(c, size) \in 0..Len(OwnIds(c))
      BY OwnExcessRange DEF IInv
    <3>2. FirstOwn(c, OwnExcess(c, size)) \subseteq Elements(OwnIds(c))
      BY <3>1 DEF FirstOwn, Elements
    <3> QED BY <3>2 DEF Trim, IInv, IndexComplete
  <2>2. \A k : k \in A <=> k \in LruKeys(lru) /\ lru.entry[k].value.caller # c
    <3>1. \A k : k \in A <=> \E d \in D : k \in Owned(d)
      BY DEF Union
    <3> HIDE DEF A
    <3> QED BY <1>3, <3>1 DEF Owned
  <2> HIDE DEF A
  <2> QED BY <1>3, <2>1, <2>2 DEF Owned
<1> HIDE DEF A, B, D, h, rest
<1>7. IsFiniteSet(rest) /\ \A k \in rest : lru.entry[k].size \in Nat /\ lru.entry[k].size \in Int
  <2>1. rest \subseteq LruKeys(lru)
    BY DEF rest
  <2>2. IsFiniteSet(rest)
    BY <1>4, <1>5, <1>6, FS_Union
  <2>3. \A x \in Nat : x \in Int
    OBVIOUS
  <2> QED BY <1>3, <2>1, <2>2, <2>3
<1>8. Cardinality(rest) + 1 <= n * QuotaEntries + QuotaEntries
  <2>1. Cardinality(rest) = Cardinality(A) + Cardinality(B) - Cardinality(A \cap B)
    BY <1>4, <1>5, <1>6, FS_Union
  <2>2. IsFiniteSet(A \cap B)
    BY <1>4, FS_Subset
  <2>3. Cardinality(A) \in Nat /\ Cardinality(A \cap B) \in Nat
    BY <1>4, <2>2, FS_CardinalityType
  <2>4. n * QuotaEntries \in Int
    BY <1>1, <1>2
  <2> QED BY <1>2, <1>4, <1>5, <2>1, <2>3, <2>4
<1>9. SizeOf(rest) + size <= n * QuotaBytes + QuotaBytes
  <2>1. A \in SUBSET rest /\ rest \ A \in SUBSET B /\ \A k \in B : lru.entry[k].size \in Nat
    BY <1>6, <1>7
  <2>2. LruSize(lru, rest) = LruSize(lru, A) + LruSize(lru, rest \ A)
    BY <1>7, <2>1, SizeSplit
  <2>3. LruSize(lru, rest \ A) \in Nat /\ LruSize(lru, rest \ A) <= LruSize(lru, B)
    BY <1>5, <2>1, SizeMonotone
  <2>4. LruSize(lru, A) \in Nat
    BY <1>7, <2>1, SizeMonotone
  <2>5. n * QuotaBytes \in Int
    BY <1>1, <1>2
  <2> QED BY <1>2, <1>4, <1>5, <2>2, <2>3, <2>4, <2>5 DEF SizeOf
<1>10. /\ n * QuotaEntries + QuotaEntries <= MaxEntries
       /\ n * QuotaBytes + QuotaBytes <= MaxBytes
  <2>1. /\ (n + 1) * QuotaEntries = n * QuotaEntries + QuotaEntries
        /\ (n + 1) * QuotaBytes = n * QuotaBytes + QuotaBytes
    BY <1>1, <1>2, OneShareMore
  <2> QED BY <1>1, <2>1 DEF QuotasFit
<1>11. /\ n * QuotaEntries \in Int /\ n * QuotaBytes \in Int
       /\ Cardinality(rest) \in Nat /\ SizeOf(rest) \in Int
  <2>1. LruSize(lru, rest) \in Int
    BY <1>7, SizeFacts
  <2> QED BY <1>1, <1>2, <1>7, <2>1, FS_CardinalityType DEF SizeOf
<1>12. Cardinality(rest) + 1 <= MaxEntries /\ SizeOf(rest) + size <= MaxBytes
  BY <1>2, <1>8, <1>9, <1>10, <1>11
<1> QED BY <1>7, <1>12 DEF rest

\* The soft cap isolates the callers: while their quotas fit into the store and
\* no result is larger than its caller's, an insert costs nobody else a result.
THEOREM NeighboursKept == Spec => NeighboursSafe
<1> DEFINE Safe == (/\ SoftCap /\ QuotasFit
                    /\ \A i \in DOMAIN issued' : issued'[i].size <= QuotaBytes)
                   => \A id \in LruKeys(lru) \ LruKeys(lru') :
                        lru.entry[id].value.caller = issued'[Len(issued')].caller
<1>1. IInv /\ Counted /\ [Next]_vars => [Safe]_vars
  <2> SUFFICES ASSUME IInv, Counted, [Next]_vars, SoftCap, QuotasFit,
                      \A i \in DOMAIN issued' : issued'[i].size <= QuotaBytes,
                      NEW id \in LruKeys(lru) \ LruKeys(lru')
               PROVE  lru.entry[id].value.caller = issued'[Len(issued')].caller
    OBVIOUS
  <2>1. PICK c \in Callers, size \in Sizes :
          /\ Insert(c, size)
          /\ id \in Trim(c, size) \cup Gone(c, size)
          /\ issued'[Len(issued')].caller = c /\ issued'[Len(issued')].size = size
    BY OnlyInsertsLose
  <2>2. Trim(c, size) \subseteq Owned(c)
    BY <2>1, OwnedAfter
  <2>3. /\ size <= QuotaBytes
        /\ \A i \in DOMAIN issued : issued[i].size <= QuotaBytes
    <3>1. issued \in Seq(Result) /\ issued' = Append(issued, [caller |-> c, size |-> size, at |-> now])
      BY <2>1 DEF IInv, TypeOK, Insert
    <3>2. Len(issued') \in DOMAIN issued'
      BY <3>1
    <3>3. \A i \in DOMAIN issued : i \in DOMAIN issued' /\ issued'[i] = issued[i]
      BY <3>1
    <3> QED BY <2>1, <3>2, <3>3
  <2> DEFINE rest == LruKeys(lru) \ Trim(c, size)
             since == {e \in LruKeys(lru) : Position(e) >= Position(id)} \ OwnTrim(c, size)
  <2>4. /\ IsFiniteSet(rest)
        /\ Cardinality(rest) + 1 <= MaxEntries
        /\ SizeOf(rest) + size <= MaxBytes
        /\ \A k \in rest : lru.entry[k].size \in Nat
    BY <2>3, TrimSuffices
  <2>5. since \subseteq rest
    BY DEF Trim, OwnTrim, FirstOwn
  <2> HIDE DEF since, rest
  <2>6. Cardinality(since) + 1 <= MaxEntries
    <3>1. IsFiniteSet(since) /\ Cardinality(since) <= Cardinality(rest)
      BY <2>4, <2>5, FS_Subset
    <3>2. Cardinality(since) \in Nat /\ Cardinality(rest) \in Nat
      BY <2>4, <3>1, FS_CardinalityType
    <3> QED BY <2>4, <3>1, <3>2, StoreAssumption
  <2>7. SizeOf(since) + size <= MaxBytes
    <3>1. since \in SUBSET rest
      BY <2>5
    <3>2. LruSize(lru, since) \in Nat /\ LruSize(lru, rest) \in Nat /\ LruSize(lru, since) <= LruSize(lru, rest)
      BY <2>4, <3>1, SizeMonotone
    <3> QED BY <2>4, <3>2, StoreAssumption DEF SizeOf
  <2>8. NeedlessFor(c, size, id)
    BY <2>6, <2>7 DEF NeedlessFor, since
  <2>9. id \notin Gone(c, size)
    BY <2>1, <2>8, GoneInTheWay DEF Counted
  <2> QED BY <2>1, <2>2, <2>9 DEF Owned
<1> QED BY <1>1, Invariance, Counting, PTL DEF Spec, NeighboursSafe
=============================================================================
