-------------------------- MODULE SeqFiltersProofs --------------------------
(***************************************************************************)
(* Facts about the operators of SeqFilters for every sequence.  Induction  *)
(* over the positions of a sequence is done through sets of numbers: the   *)
(* positions for which a claim holds contain 0 and are closed under        *)
(* successor, so they are all the numbers (NatSetInduction).               *)
(***************************************************************************)
EXTENDS SeqFilters, WellFoundedInduction, TLAPS

\* Every non-empty set of natural numbers has a least element.
LEMMA LeastNat ==
  ASSUME NEW T \in SUBSET Nat, T # {}
  PROVE  \E x \in T : \A y \in T : x <= y
<1>1. PICK x \in T : \A y \in T : ~(<<y, x>> \in OpToRel(<, Nat))
  BY WFMin, NatLessThanWellFounded, Zenon
<1>2. ASSUME NEW y \in T PROVE ~(y < x)
  <2>1. <<y, x>> \in Nat \X Nat
    OBVIOUS
  <2>2. ~(<<y, x>> \in {ss \in Nat \X Nat : ss[1] < ss[2]})
    BY <1>1, Zenon DEF OpToRel
  <2> QED BY <2>1, <2>2
<1> QED BY <1>2

\* Induction over the natural numbers, for a set of numbers.
LEMMA NatSetInduction ==
  ASSUME NEW P, 0 \in P, \A n \in Nat : n \in P => n + 1 \in P
  PROVE  Nat \subseteq P
<1> SUFFICES ASSUME Nat \ P # {} PROVE FALSE
  OBVIOUS
<1>1. PICK x \in Nat \ P : \A y \in Nat \ P : x <= y
  BY LeastNat
<1>2. x # 0
  BY <1>1
<1>3. x - 1 \in Nat /\ x - 1 \notin Nat \ P
  BY <1>1, <1>2
<1> QED BY <1>1, <1>3

\* Induction up to a number.
LEMMA UpTo ==
  ASSUME NEW m \in Nat, NEW P, 0 \in P, \A n \in 0..(m-1) : n \in P => n + 1 \in P
  PROVE  \A n \in 0..m : n \in P
<1> DEFINE Q == {n \in Nat : n <= m => n \in P}
<1>1. 0 \in Q
  OBVIOUS
<1>2. \A n \in Nat : n \in Q => n + 1 \in Q
  OBVIOUS
<1>3. Nat \subseteq Q
  <2> HIDE DEF Q
  <2> QED BY <1>1, <1>2, NatSetInduction
<1> QED BY <1>3

\* The recursion that defines Kept, over the positions up to n.
KeptStep(s, T, g, n) ==
  IF n = 0 THEN <<>>
  ELSE IF s[n] \in T THEN Append(g[n-1], s[n]) ELSE g[n-1]

\* Kept is well defined: some function satisfies its recursion.
LEMMA KeptExists ==
  ASSUME NEW S, NEW s \in Seq(S), NEW T
  PROVE  \E f : /\ f = [n \in 0..Len(s) |-> KeptStep(s, T, f, n)]
                /\ Kept(s, T) = f[Len(s)]
<1> DEFINE Good(m, g) == g = [n \in 0..m |-> KeptStep(s, T, g, n)]
           P == {m \in Nat : \E g : Good(m, g)}
<1>1. 0 \in P
  <2> DEFINE g0 == [n \in 0..0 |-> <<>>]
  <2>1. ASSUME NEW n \in 0..0 PROVE g0[n] = KeptStep(s, T, g0, n)
    BY DEF KeptStep
  <2>2. g0 = [n \in 0..0 |-> KeptStep(s, T, g0, n)]
    BY <2>1
  <2> QED BY <2>2
<1>2. ASSUME NEW m \in Nat, m \in P PROVE m + 1 \in P
  <2>1. PICK g : Good(m, g)
    BY <1>2
  <2> DEFINE h == [n \in 0..(m+1) |-> KeptStep(s, T, g, n)]
  <2>2. ASSUME NEW n \in 0..m PROVE h[n] = g[n]
    BY <2>1
  <2>3. ASSUME NEW n \in 0..(m+1) PROVE h[n] = KeptStep(s, T, h, n)
    <3>1. h[n] = KeptStep(s, T, g, n)
      OBVIOUS
    <3>2. n # 0 => n - 1 \in 0..m
      OBVIOUS
    <3>3. n # 0 => h[n-1] = g[n-1]
      BY <2>2, <3>2
    <3> HIDE DEF h
    <3> QED BY <3>1, <3>3 DEF KeptStep
  <2>4. h = [n \in 0..(m+1) |-> KeptStep(s, T, h, n)]
    BY <2>3
  <2> HIDE DEF h
  <2> QED BY <2>4
<1>3. Len(s) \in P
  <2> HIDE DEF P
  <2> QED BY <1>1, <1>2, NatSetInduction
<1>4. PICK g : g = [n \in 0..Len(s) |-> KeptStep(s, T, g, n)]
  BY <1>3
<1> DEFINE f == CHOOSE ff : ff = [n \in 0..Len(s) |-> KeptStep(s, T, ff, n)]
<1>5. f = [n \in 0..Len(s) |-> KeptStep(s, T, f, n)]
  BY <1>4
<1>6. Kept(s, T) = f[Len(s)]
  BY DEF Kept, KeptStep
<1> HIDE DEF f
<1> QED BY <1>5, <1>6

\* The same recursion, one element at a time.
LEMMA KeptRecursion ==
  ASSUME NEW S, NEW s \in Seq(S), NEW T
  PROVE  \E f : /\ f[0] = <<>>
                /\ \A n \in 0..(Len(s)-1) :
                     /\ s[n+1] \in T => f[n+1] = Append(f[n], s[n+1])
                     /\ s[n+1] \notin T => f[n+1] = f[n]
                /\ Kept(s, T) = f[Len(s)]
<1>1. PICK f : /\ f = [n \in 0..Len(s) |-> KeptStep(s, T, f, n)]
               /\ Kept(s, T) = f[Len(s)]
  BY KeptExists
<1>2. f[0] = <<>>
  BY <1>1 DEF KeptStep
<1>3. ASSUME NEW n \in 0..(Len(s)-1) PROVE f[n+1] = KeptStep(s, T, f, n+1)
  BY <1>1
<1>4. ASSUME NEW n \in 0..(Len(s)-1)
      PROVE  f[n+1] = IF s[n+1] \in T THEN Append(f[n], s[n+1]) ELSE f[n]
  <2>1. n + 1 # 0 /\ (n + 1) - 1 = n
    OBVIOUS
  <2> QED BY <1>3, <2>1 DEF KeptStep
<1> QED BY <1>1, <1>2, <1>4

\* The elements of a sequence are of its type; a tail has no others.
LEMMA ElementsType ==
  ASSUME NEW S, NEW s \in Seq(S)
  PROVE  Elements(s) \subseteq S
BY DEF Elements

\* What is left of a sequence without its first n elements.
LEMMA TailElements ==
  ASSUME NEW S, NEW s \in Seq(S), NEW n \in 0..Len(s)
  PROVE  LET t == SubSeq(s, n + 1, Len(s))
         IN  /\ t \in Seq(S)
             /\ Len(t) = Len(s) - n
             /\ \A i \in 1..Len(t) : t[i] = s[n + i]
             /\ Elements(t) = {s[i] : i \in (n+1)..Len(s)}
<1> DEFINE t == SubSeq(s, n + 1, Len(s))
<1>1. /\ t \in Seq(S)
      /\ Len(t) = Len(s) - n
      /\ \A i \in 1..Len(t) : t[i] = s[n + i]
  OBVIOUS
<1> HIDE DEF t
<1>2. Elements(t) \subseteq {s[i] : i \in (n+1)..Len(s)}
  <2> SUFFICES ASSUME NEW i \in 1..Len(t) PROVE t[i] \in {s[j] : j \in (n+1)..Len(s)}
    BY DEF Elements
  <2>1. n + i \in (n+1)..Len(s)
    BY <1>1
  <2> QED BY <1>1, <2>1
<1>3. {s[i] : i \in (n+1)..Len(s)} \subseteq Elements(t)
  <2> SUFFICES ASSUME NEW j \in (n+1)..Len(s) PROVE s[j] \in Elements(t)
    OBVIOUS
  <2>1. j - n \in 1..Len(t) /\ t[j - n] = s[j]
    BY <1>1
  <2> QED BY <2>1 DEF Elements
<1> QED BY <1>1, <1>2, <1>3 DEF t

\* Appending adds one element.
LEMMA AppendElements ==
  ASSUME NEW S, NEW s \in Seq(S), NEW e \in S
  PROVE  /\ Append(s, e) \in Seq(S)
         /\ Elements(Append(s, e)) = Elements(s) \cup {e}
<1>1. /\ Append(s, e) \in Seq(S)
      /\ Len(Append(s, e)) = Len(s) + 1
      /\ \A i \in 1..Len(s) : Append(s, e)[i] = s[i]
      /\ Append(s, e)[Len(s) + 1] = e
  OBVIOUS
<1> DEFINE t == Append(s, e)
<1> HIDE DEF t
<1>2. 1..(Len(s) + 1) = 1..Len(s) \cup {Len(s) + 1}
  OBVIOUS
<1>3. {t[i] : i \in 1..(Len(s) + 1)} = {t[i] : i \in 1..Len(s)} \cup {t[Len(s) + 1]}
  BY <1>2
<1> QED BY <1>1, <1>3 DEF Elements, t

\* Kept keeps exactly the elements that are in T, and nothing else.
LEMMA KeptElements ==
  ASSUME NEW S, NEW s \in Seq(S), NEW T
  PROVE  /\ Kept(s, T) \in Seq(S)
         /\ Elements(Kept(s, T)) = Elements(s) \cap T
<1>1. PICK f : /\ f[0] = <<>>
               /\ \A n \in 0..(Len(s)-1) :
                    /\ s[n+1] \in T => f[n+1] = Append(f[n], s[n+1])
                    /\ s[n+1] \notin T => f[n+1] = f[n]
               /\ Kept(s, T) = f[Len(s)]
  BY KeptRecursion
<1> DEFINE Good(n) == /\ f[n] \in Seq(S)
                      /\ Elements(f[n]) = {s[i] : i \in 1..n} \cap T
           P == {n \in 0..Len(s) : Good(n)}
<1>2. Good(0)
  BY <1>1 DEF Elements
<1>3. ASSUME NEW n \in 0..(Len(s)-1), Good(n) PROVE Good(n + 1)
  <2>1. s[n+1] \in S
    OBVIOUS
  <2>2. {s[i] : i \in 1..(n+1)} = {s[i] : i \in 1..n} \cup {s[n+1]}
    <3>1. 1..(n+1) = 1..n \cup {n+1}
      OBVIOUS
    <3> QED BY <3>1
  <2>3. CASE s[n+1] \in T
    <3>1. f[n+1] = Append(f[n], s[n+1])
      BY <1>1, <2>3
    <3>2. f[n+1] \in Seq(S) /\ Elements(f[n+1]) = Elements(f[n]) \cup {s[n+1]}
      BY <1>3, <2>1, <3>1, AppendElements
    <3> QED BY <1>3, <2>2, <2>3, <3>2
  <2>4. CASE s[n+1] \notin T
    <3>1. f[n+1] = f[n]
      BY <1>1, <2>4
    <3> QED BY <1>3, <2>2, <2>4, <3>1
  <2> QED BY <2>3, <2>4
<1>4. Good(Len(s))
  <2> HIDE DEF Good
  <2>1. 0 \in P /\ \A n \in 0..(Len(s)-1) : n \in P => n + 1 \in P
    BY <1>2, <1>3
  <2>2. Len(s) \in P
    <3> HIDE DEF P
    <3>1. Len(s) \in Nat /\ Len(s) \in 0..Len(s)
      OBVIOUS
    <3> QED BY <2>1, <3>1, UpTo
  <2> QED BY <2>2
<1> QED BY <1>1, <1>4 DEF Elements

\* A number larger than all of an increasing sequence can be appended to it.
LEMMA AppendIncreasing ==
  ASSUME NEW s \in Seq(Int), Increasing(s), NEW e \in Int, \A x \in Elements(s) : x < e
  PROVE  Increasing(Append(s, e))
<1>1. /\ Len(Append(s, e)) = Len(s) + 1
      /\ \A i \in 1..Len(s) : Append(s, e)[i] = s[i]
      /\ Append(s, e)[Len(s) + 1] = e
  OBVIOUS
<1> DEFINE t == Append(s, e)
<1> HIDE DEF t
<1>2. ASSUME NEW i \in 1..(Len(s)+1), NEW j \in 1..(Len(s)+1), i < j PROVE t[i] < t[j]
  <2>1. i \in 1..Len(s) /\ t[i] = s[i] /\ s[i] \in Elements(s)
    BY <1>1, <1>2 DEF t, Elements
  <2>2. CASE j = Len(s) + 1
    BY <1>1, <2>1, <2>2 DEF t
  <2>3. CASE j # Len(s) + 1
    <3>1. j \in 1..Len(s) /\ t[j] = s[j]
      BY <1>1, <2>3 DEF t
    <3> QED BY <1>2, <2>1, <3>1 DEF Increasing
  <2> QED BY <2>2, <2>3
<1> QED BY <1>1, <1>2 DEF Increasing, t

\* Kept keeps the order: what is left of an increasing sequence increases.
LEMMA KeptIncreasing ==
  ASSUME NEW s \in Seq(Int), NEW T, Increasing(s)
  PROVE  Increasing(Kept(s, T))
<1>1. PICK f : /\ f[0] = <<>>
               /\ \A n \in 0..(Len(s)-1) :
                    /\ s[n+1] \in T => f[n+1] = Append(f[n], s[n+1])
                    /\ s[n+1] \notin T => f[n+1] = f[n]
               /\ Kept(s, T) = f[Len(s)]
  BY KeptRecursion
<1> DEFINE Good(n) == /\ f[n] \in Seq(Int)
                      /\ Increasing(f[n])
                      /\ Elements(f[n]) \subseteq {s[j] : j \in 1..n}
           P == {n \in 0..Len(s) : Good(n)}
<1>2. Good(0)
  BY <1>1 DEF Increasing, Elements
<1>3. ASSUME NEW n \in 0..(Len(s)-1), Good(n) PROVE Good(n + 1)
  <2>1. s[n+1] \in Int /\ \A j \in 1..n : s[j] < s[n+1]
    BY DEF Increasing
  <2>2. {s[j] : j \in 1..n} \subseteq {s[j] : j \in 1..(n+1)}
    OBVIOUS
  <2>3. s[n+1] \in {s[j] : j \in 1..(n+1)}
    OBVIOUS
  <2>4. CASE s[n+1] \in T
    <3>1. f[n+1] = Append(f[n], s[n+1])
      BY <1>1, <2>4
    <3>2. f[n+1] \in Seq(Int) /\ Elements(f[n+1]) = Elements(f[n]) \cup {s[n+1]}
      BY <1>3, <2>1, <3>1, AppendElements
    <3>3. \A x \in Elements(f[n]) : x < s[n+1]
      BY <1>3, <2>1
    <3>4. Increasing(f[n+1])
      BY <1>3, <2>1, <3>1, <3>3, AppendIncreasing
    <3> QED BY <1>3, <2>2, <2>3, <3>2, <3>4
  <2>5. CASE s[n+1] \notin T
    <3>1. f[n+1] = f[n]
      BY <1>1, <2>5
    <3> QED BY <1>3, <2>2, <3>1
  <2> QED BY <2>4, <2>5
<1>4. Good(Len(s))
  <2> HIDE DEF Good
  <2>1. 0 \in P /\ \A n \in 0..(Len(s)-1) : n \in P => n + 1 \in P
    BY <1>2, <1>3
  <2>2. Len(s) \in P
    <3> HIDE DEF P
    <3>1. Len(s) \in Nat /\ Len(s) \in 0..Len(s)
      OBVIOUS
    <3> QED BY <2>1, <3>1, UpTo
  <2> QED BY <2>2
<1> QED BY <1>1, <1>4

\* No element occurs twice.
NoRepeats(s) == \A i, j \in 1..Len(s) : s[i] = s[j] => i = j

\* A new element can be appended to a sequence without repetitions.
LEMMA AppendNoRepeats ==
  ASSUME NEW S, NEW s \in Seq(S), NoRepeats(s), NEW e \in S, e \notin Elements(s)
  PROVE  NoRepeats(Append(s, e))
<1> DEFINE t == Append(s, e)
<1>1. /\ Len(t) = Len(s) + 1
      /\ \A i \in 1..Len(s) : t[i] = s[i]
      /\ t[Len(s) + 1] = e
  OBVIOUS
<1> HIDE DEF t
<1>2. ASSUME NEW i \in 1..Len(t), NEW j \in 1..Len(t), t[i] = t[j] PROVE i = j
  <2>1. \A k \in 1..Len(s) : t[k] # e
    BY <1>1 DEF Elements
  <2>2. (i \in 1..Len(s) \/ i = Len(s) + 1) /\ (j \in 1..Len(s) \/ j = Len(s) + 1)
    BY <1>1
  <2> QED BY <1>1, <1>2, <2>1, <2>2 DEF NoRepeats
<1> QED BY <1>2 DEF NoRepeats, t

\* Kept repeats nothing that was not repeated.
LEMMA KeptNoRepeats ==
  ASSUME NEW S, NEW s \in Seq(S), NEW T, NoRepeats(s)
  PROVE  NoRepeats(Kept(s, T))
<1>1. PICK f : /\ f[0] = <<>>
               /\ \A n \in 0..(Len(s)-1) :
                    /\ s[n+1] \in T => f[n+1] = Append(f[n], s[n+1])
                    /\ s[n+1] \notin T => f[n+1] = f[n]
               /\ Kept(s, T) = f[Len(s)]
  BY KeptRecursion
<1> DEFINE Good(n) == /\ f[n] \in Seq(S)
                      /\ NoRepeats(f[n])
                      /\ Elements(f[n]) \subseteq {s[j] : j \in 1..n}
           P == {n \in 0..Len(s) : Good(n)}
<1>2. Good(0)
  BY <1>1 DEF NoRepeats, Elements
<1>3. ASSUME NEW n \in 0..(Len(s)-1), Good(n) PROVE Good(n + 1)
  <2>1. s[n+1] \in S /\ s[n+1] \notin {s[j] : j \in 1..n}
    BY DEF NoRepeats
  <2>2. {s[j] : j \in 1..n} \subseteq {s[j] : j \in 1..(n+1)}
    OBVIOUS
  <2>3. s[n+1] \in {s[j] : j \in 1..(n+1)}
    OBVIOUS
  <2>4. CASE s[n+1] \in T
    <3>1. f[n+1] = Append(f[n], s[n+1])
      BY <1>1, <2>4
    <3>2. f[n+1] \in Seq(S) /\ Elements(f[n+1]) = Elements(f[n]) \cup {s[n+1]}
      BY <1>3, <2>1, <3>1, AppendElements
    <3>3. NoRepeats(f[n+1])
      BY <1>3, <2>1, <3>1, AppendNoRepeats
    <3> QED BY <1>3, <2>2, <2>3, <3>2, <3>3
  <2>5. CASE s[n+1] \notin T
    <3>1. f[n+1] = f[n]
      BY <1>1, <2>5
    <3> QED BY <1>3, <2>2, <3>1
  <2> QED BY <2>4, <2>5
<1>4. Good(Len(s))
  <2> HIDE DEF Good
  <2>1. 0 \in P /\ \A n \in 0..(Len(s)-1) : n \in P => n + 1 \in P
    BY <1>2, <1>3
  <2>2. Len(s) \in P
    <3> HIDE DEF P
    <3>1. Len(s) \in Nat /\ Len(s) \in 0..Len(s)
      OBVIOUS
    <3> QED BY <2>1, <3>1, UpTo
  <2> QED BY <2>2
<1> QED BY <1>1, <1>4

\* Kept is shorter than a sequence of which it drops an element.
LEMMA KeptShorter ==
  ASSUME NEW S, NEW s \in Seq(S), NEW T, NEW e \in Elements(s), e \notin T
  PROVE  Len(Kept(s, T)) < Len(s)
<1>1. PICK f : /\ f[0] = <<>>
               /\ \A n \in 0..(Len(s)-1) :
                    /\ s[n+1] \in T => f[n+1] = Append(f[n], s[n+1])
                    /\ s[n+1] \notin T => f[n+1] = f[n]
               /\ Kept(s, T) = f[Len(s)]
  BY KeptRecursion
<1> DEFINE Drops(n) == \E i \in 1..n : s[i] \notin T
           Good(n) == f[n] \in Seq(S) /\ Len(f[n]) <= n /\ (Drops(n) => Len(f[n]) < n)
           P == {n \in 0..Len(s) : Good(n)}
<1> HIDE DEF Drops
<1>2. Good(0)
  <2>1. ~Drops(0)
    BY DEF Drops
  <2> QED BY <1>1, <2>1
<1>3. ASSUME NEW n \in 0..(Len(s)-1), Good(n) PROVE Good(n + 1)
  <2>1. /\ s[n+1] \in S /\ f[n] \in Seq(S) /\ Len(f[n]) \in Nat /\ Len(f[n]) <= n
        /\ n \in Nat /\ n + 1 \in Nat
    BY <1>3
  <2>2. CASE s[n+1] \in T
    <3>1. f[n+1] = Append(f[n], s[n+1])
      BY <1>1, <2>2
    <3>2. f[n+1] \in Seq(S) /\ Len(f[n+1]) = Len(f[n]) + 1
      <4>1. ASSUME NEW o \in Seq(S), NEW x \in S
            PROVE  Append(o, x) \in Seq(S) /\ Len(Append(o, x)) = Len(o) + 1
        OBVIOUS
      <4> QED BY <2>1, <3>1, <4>1
    <3>3. Drops(n + 1) => Drops(n)
      <4>1. 1..(n+1) = 1..n \cup {n+1}
        OBVIOUS
      <4> QED BY <2>2, <4>1 DEF Drops
    <3> QED BY <1>3, <2>1, <3>2, <3>3
  <2>3. CASE s[n+1] \notin T
    <3>1. f[n+1] = f[n]
      BY <1>1, <2>3
    <3>2. Len(f[n]) <= n + 1 /\ Len(f[n]) < n + 1
      BY <2>1
    <3> QED BY <2>1, <3>1, <3>2
  <2> QED BY <2>2, <2>3
<1>4. Good(Len(s))
  <2> HIDE DEF Good
  <2>1. 0 \in P /\ \A n \in 0..(Len(s)-1) : n \in P => n + 1 \in P
    BY <1>2, <1>3
  <2>2. Len(s) \in P
    <3> HIDE DEF P
    <3>1. Len(s) \in Nat /\ Len(s) \in 0..Len(s)
      OBVIOUS
    <3> QED BY <2>1, <3>1, UpTo
  <2> QED BY <2>2
<1>5. Drops(Len(s))
  <2>1. PICK i \in 1..Len(s) : s[i] = e
    BY DEF Elements
  <2> QED BY <2>1 DEF Drops
<1> QED BY <1>1, <1>4, <1>5

\* The recursion that defines Running, over the positions up to n.
RunningStep(s, g, n) == IF n = 0 THEN 0 ELSE g[n-1] + s[n]

\* Running is well defined, and adds one element at a time.
LEMMA RunningRecursion ==
  ASSUME NEW s, Len(s) \in Nat
  PROVE  /\ Running(s)[0] = 0
         /\ \A n \in 0..(Len(s)-1) : Running(s)[n+1] = Running(s)[n] + s[n+1]
<1> DEFINE Good(m, g) == g = [n \in 0..m |-> RunningStep(s, g, n)]
           P == {m \in Nat : \E g : Good(m, g)}
<1>1. 0 \in P
  <2> DEFINE g0 == [n \in 0..0 |-> 0]
  <2>1. ASSUME NEW n \in 0..0 PROVE g0[n] = RunningStep(s, g0, n)
    BY DEF RunningStep
  <2>2. g0 = [n \in 0..0 |-> RunningStep(s, g0, n)]
    BY <2>1
  <2> QED BY <2>2
<1>2. ASSUME NEW m \in Nat, m \in P PROVE m + 1 \in P
  <2>1. PICK g : Good(m, g)
    BY <1>2
  <2> DEFINE h == [n \in 0..(m+1) |-> RunningStep(s, g, n)]
  <2>2. ASSUME NEW n \in 0..m PROVE h[n] = g[n]
    BY <2>1
  <2>3. ASSUME NEW n \in 0..(m+1) PROVE h[n] = RunningStep(s, h, n)
    <3>1. h[n] = RunningStep(s, g, n)
      OBVIOUS
    <3>2. n # 0 => n - 1 \in 0..m
      OBVIOUS
    <3>3. n # 0 => h[n-1] = g[n-1]
      BY <2>2, <3>2
    <3> HIDE DEF h
    <3> QED BY <3>1, <3>3 DEF RunningStep
  <2>4. h = [n \in 0..(m+1) |-> RunningStep(s, h, n)]
    BY <2>3
  <2> HIDE DEF h
  <2> QED BY <2>4
<1>3. Len(s) \in P
  <2> HIDE DEF P
  <2> QED BY <1>1, <1>2, NatSetInduction
<1>4. PICK g : g = [n \in 0..Len(s) |-> RunningStep(s, g, n)]
  BY <1>3
<1> DEFINE f == CHOOSE ff : ff = [n \in 0..Len(s) |-> RunningStep(s, ff, n)]
<1>5. f = [n \in 0..Len(s) |-> RunningStep(s, f, n)]
  BY <1>4
<1>6. Running(s) = f
  BY DEF Running, RunningStep
<1> HIDE DEF f
<1>7. f[0] = 0
  BY <1>5 DEF RunningStep
<1>8. ASSUME NEW n \in 0..(Len(s)-1) PROVE f[n+1] = f[n] + s[n+1]
  <2>1. f[n+1] = RunningStep(s, f, n+1)
    BY <1>5
  <2>2. n + 1 # 0 /\ (n + 1) - 1 = n
    OBVIOUS
  <2> QED BY <2>1, <2>2 DEF RunningStep
<1> QED BY <1>6, <1>7, <1>8
-----------------------------------------------------------------------------
(* Order *)

\* What comes before what in t does so in s.
SameOrder(t, s) ==
  \A i, j \in 1..Len(t) :
    i < j => \E a, b \in 1..Len(s) : a < b /\ s[a] = t[i] /\ s[b] = t[j]

\* A filter keeps the order.
LEMMA KeptSameOrder ==
  ASSUME NEW S, NEW s \in Seq(S), NEW T
  PROVE  SameOrder(Kept(s, T), s)
<1>1. PICK f : /\ f[0] = <<>>
               /\ \A n \in 0..(Len(s)-1) :
                    /\ s[n+1] \in T => f[n+1] = Append(f[n], s[n+1])
                    /\ s[n+1] \notin T => f[n+1] = f[n]
               /\ Kept(s, T) = f[Len(s)]
  BY KeptRecursion
<1> DEFINE Placed(n, i, j) == \E a, b \in 1..n : a < b /\ s[a] = f[n][i] /\ s[b] = f[n][j]
           There(n) == \A i \in 1..Len(f[n]) : \E a \in 1..n : s[a] = f[n][i]
           Good(n) == /\ f[n] \in Seq(S)
                      /\ There(n)
                      /\ \A i, j \in 1..Len(f[n]) : i < j => Placed(n, i, j)
           P == {n \in 0..Len(s) : Good(n)}
<1>2. Good(0)
  BY <1>1
<1>3. ASSUME NEW n \in 0..(Len(s)-1), Good(n) PROVE Good(n + 1)
  <2>1. s[n+1] \in S /\ n + 1 \in 1..(n+1) /\ 1..n \subseteq 1..(n+1) /\ \A a \in 1..n : a < n + 1
    OBVIOUS
  <2>2. CASE s[n+1] \in T
    <3>1. f[n+1] = Append(f[n], s[n+1])
      BY <1>1, <2>2
    <3>2. /\ f[n+1] \in Seq(S) /\ Len(f[n+1]) = Len(f[n]) + 1 /\ Len(f[n]) \in Nat
          /\ \A i \in 1..Len(f[n]) : f[n+1][i] = f[n][i]
          /\ f[n+1][Len(f[n]) + 1] = s[n+1]
      BY <1>3, <2>1, <3>1
    <3>3. There(n + 1)
      <4> SUFFICES ASSUME NEW i \in 1..Len(f[n+1]) PROVE \E a \in 1..(n+1) : s[a] = f[n+1][i]
        OBVIOUS
      <4>1. CASE i = Len(f[n]) + 1
        BY <2>1, <3>2, <4>1
      <4>2. CASE i \in 1..Len(f[n])
        <5>1. PICK a \in 1..n : s[a] = f[n][i]
          BY <1>3, <4>2
        <5> QED BY <2>1, <3>2, <4>2, <5>1
      <4> QED BY <3>2, <4>1, <4>2
    <3>4. ASSUME NEW i \in 1..Len(f[n+1]), NEW j \in 1..Len(f[n+1]), i < j
          PROVE  Placed(n + 1, i, j)
      <4>1. i \in 1..Len(f[n]) /\ f[n+1][i] = f[n][i]
        BY <3>2, <3>4
      <4>2. CASE j = Len(f[n]) + 1
        <5>1. PICK a \in 1..n : s[a] = f[n][i]
          BY <1>3, <4>1
        <5>2. a \in 1..(n+1) /\ a < n + 1 /\ s[n+1] = f[n+1][j]
          BY <2>1, <3>2, <4>2
        <5> QED BY <2>1, <4>1, <5>1, <5>2
      <4>3. CASE j \in 1..Len(f[n])
        <5>0. Placed(n, i, j)
          <6> HIDE DEF Placed
          <6> QED BY <1>3, <3>4, <4>1, <4>3
        <5>1. PICK a, b \in 1..n : a < b /\ s[a] = f[n][i] /\ s[b] = f[n][j]
          BY <5>0
        <5>2. a \in 1..(n+1) /\ b \in 1..(n+1) /\ f[n+1][j] = f[n][j]
          BY <2>1, <3>2, <4>3
        <5> QED BY <4>1, <5>1, <5>2
      <4> QED BY <3>2, <4>2, <4>3
    <3> QED BY <3>2, <3>3, <3>4
  <2>3. CASE s[n+1] \notin T
    <3>1. f[n+1] = f[n]
      BY <1>1, <2>3
    <3>2. There(n + 1)
      BY <1>3, <2>1, <3>1
    <3>3. ASSUME NEW i \in 1..Len(f[n+1]), NEW j \in 1..Len(f[n+1]), i < j
          PROVE  Placed(n + 1, i, j)
      <4>0. Placed(n, i, j)
        <5> HIDE DEF Placed
        <5> QED BY <1>3, <3>1, <3>3
      <4>1. PICK a, b \in 1..n : a < b /\ s[a] = f[n][i] /\ s[b] = f[n][j]
        BY <4>0
      <4> QED BY <2>1, <3>1, <4>1
    <3> QED BY <1>3, <3>1, <3>2, <3>3
  <2> QED BY <2>2, <2>3
<1>4. Good(Len(s))
  <2> HIDE DEF Good
  <2>1. 0 \in P /\ \A n \in 0..(Len(s)-1) : n \in P => n + 1 \in P
    BY <1>2, <1>3
  <2>2. Len(s) \in P
    <3> HIDE DEF P
    <3>1. Len(s) \in Nat /\ Len(s) \in 0..Len(s)
      OBVIOUS
    <3> QED BY <2>1, <3>1, UpTo
  <2> QED BY <2>2
<1> QED BY <1>1, <1>4 DEF SameOrder

\* One after the other, filters keep the order.
LEMMA SameOrderTransitive ==
  ASSUME NEW u, NEW t, NEW s, SameOrder(u, t), SameOrder(t, s)
  PROVE  SameOrder(u, s)
<1> SUFFICES ASSUME NEW i \in 1..Len(u), NEW j \in 1..Len(u), i < j
             PROVE  \E a, b \in 1..Len(s) : a < b /\ s[a] = u[i] /\ s[b] = u[j]
  BY DEF SameOrder
<1>1. PICK k \in 1..Len(t), m \in 1..Len(t) : k < m /\ t[k] = u[i] /\ t[m] = u[j]
  BY DEF SameOrder
<1>2. PICK a \in 1..Len(s), b \in 1..Len(s) : a < b /\ s[a] = t[k] /\ s[b] = t[m]
  BY <1>1 DEF SameOrder
<1> QED BY <1>1, <1>2
=============================================================================
