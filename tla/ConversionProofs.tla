-------------------------- MODULE ConversionProofs --------------------------
(***************************************************************************)
(* The programs that turn files into text, each proved correct for every  *)
(* input: the command line's batches, CliBatch; the workbooks, XlsxConvert *)
(* with ChartTable; the documents, DocxObjects.                            *)
(*                                                                         *)
(* For every tree of files and every number of arguments, no output of a   *)
(* batch overwrites another, every input is taken once, and the exit code  *)
(* tells what happened.  For every workbook, whatever its sheets, drawings *)
(* and groups of charts and the caches of the charts, every chart that is  *)
(* anchored is shown as often as it is anchored, in its own sheet, with    *)
(* each value in its place.  For every document, however its groups, text  *)
(* boxes and charts are nested, no picture is lost or listed twice, and    *)
(* the object that a marker names is found again.  All rest on what is     *)
(* known of the sequences that the programs join, filter and sort.         *)
(***************************************************************************)
EXTENDS CliBatch, XlsxConvert, DocxObjects, SeqFiltersProofs, FiniteSetTheorems

-----------------------------------------------------------------------------
(* Sequences one after the other *)

\* The recursion that defines FlattenSeq, over the sequences up to n.
FlatStep(ss, g, n) == IF n = 1 THEN ss[n] ELSE g[n-1] \o ss[n]

\* FlattenSeq is well defined, and adds one sequence at a time.
LEMMA FlattenRecursion ==
  ASSUME NEW ss, Len(ss) \in Nat \ {0}
  PROVE  \E f : /\ f[1] = ss[1]
                /\ \A n \in 1..(Len(ss)-1) : f[n+1] = f[n] \o ss[n+1]
                /\ FlattenSeq(ss) = f[Len(ss)]
<1> DEFINE Good(m, g) == g = [n \in 1..m |-> FlatStep(ss, g, n)]
           P == {m \in Nat : \E g : Good(m, g)}
<1>1. 0 \in P
  <2> DEFINE g0 == [n \in 1..0 |-> <<>>]
  <2>1. g0 = [n \in 1..0 |-> FlatStep(ss, g0, n)]
    OBVIOUS
  <2> QED BY <2>1
<1>2. ASSUME NEW m \in Nat, m \in P PROVE m + 1 \in P
  <2>1. PICK g : Good(m, g)
    BY <1>2
  <2> DEFINE h == [n \in 1..(m+1) |-> FlatStep(ss, g, n)]
  <2>2. ASSUME NEW n \in 1..m PROVE h[n] = g[n]
    BY <2>1
  <2>3. ASSUME NEW n \in 1..(m+1) PROVE h[n] = FlatStep(ss, h, n)
    <3>1. h[n] = FlatStep(ss, g, n)
      OBVIOUS
    <3>2. n # 1 => n - 1 \in 1..m
      OBVIOUS
    <3>3. n # 1 => h[n-1] = g[n-1]
      BY <2>2, <3>2
    <3> HIDE DEF h
    <3> QED BY <3>1, <3>3 DEF FlatStep
  <2>4. h = [n \in 1..(m+1) |-> FlatStep(ss, h, n)]
    BY <2>3
  <2> HIDE DEF h
  <2> QED BY <2>4
<1>3. Len(ss) \in P
  <2> HIDE DEF P
  <2> QED BY <1>1, <1>2, NatSetInduction
<1>4. PICK g : g = [n \in 1..Len(ss) |-> FlatStep(ss, g, n)]
  BY <1>3
<1> DEFINE f == CHOOSE ff : ff = [n \in 1..Len(ss) |-> FlatStep(ss, ff, n)]
<1>5. f = [n \in 1..Len(ss) |-> FlatStep(ss, f, n)]
  BY <1>4
<1>6. FlattenSeq(ss) = f[Len(ss)]
  BY DEF FlattenSeq, FlatStep
<1> HIDE DEF f
<1>7. f[1] = ss[1]
  BY <1>5 DEF FlatStep
<1>8. ASSUME NEW n \in 1..(Len(ss)-1) PROVE f[n+1] = f[n] \o ss[n+1]
  <2>1. f[n+1] = FlatStep(ss, f, n+1)
    BY <1>5
  <2>2. n + 1 # 1 /\ (n + 1) - 1 = n
    OBVIOUS
  <2> QED BY <2>1, <2>2 DEF FlatStep
<1> QED BY <1>6, <1>7, <1>8

\* Joining two sequences joins their elements.
LEMMA JoinElements ==
  ASSUME NEW S, NEW s \in Seq(S), NEW t \in Seq(S)
  PROVE  s \o t \in Seq(S) /\ Elements(s \o t) = Elements(s) \cup Elements(t)
<1> DEFINE u == s \o t
<1>1. /\ u \in Seq(S) /\ Len(u) = Len(s) + Len(t)
      /\ Len(s) \in Nat /\ Len(t) \in Nat
      /\ \A i \in 1..Len(s) : u[i] = s[i]
      /\ \A i \in 1..Len(t) : u[Len(s) + i] = t[i]
  OBVIOUS
<1> HIDE DEF u
<1>2. Elements(u) \subseteq Elements(s) \cup Elements(t)
  <2> SUFFICES ASSUME NEW i \in 1..Len(u) PROVE u[i] \in Elements(s) \cup Elements(t)
    BY DEF Elements
  <2>1. CASE i <= Len(s)
    BY <1>1, <2>1 DEF Elements
  <2>2. CASE i > Len(s)
    <3>1. i - Len(s) \in 1..Len(t) /\ Len(s) + (i - Len(s)) = i
      BY <1>1, <2>2
    <3> QED BY <1>1, <3>1 DEF Elements
  <2> QED BY <1>1, <2>1, <2>2
<1>3. Elements(s) \subseteq Elements(u)
  <2> SUFFICES ASSUME NEW i \in 1..Len(s) PROVE s[i] \in Elements(u)
    BY DEF Elements
  <2>1. i \in 1..Len(u) /\ u[i] = s[i]
    BY <1>1
  <2> QED BY <2>1 DEF Elements
<1>4. Elements(t) \subseteq Elements(u)
  <2> SUFFICES ASSUME NEW i \in 1..Len(t) PROVE t[i] \in Elements(u)
    BY DEF Elements
  <2>1. Len(s) + i \in 1..Len(u) /\ u[Len(s) + i] = t[i]
    BY <1>1
  <2> QED BY <2>1 DEF Elements
<1> QED BY <1>1, <1>2, <1>3, <1>4 DEF u

\* FlattenSeq has the elements of its sequences, and no others.
LEMMA FlattenElements ==
  ASSUME NEW S, NEW ss \in Seq(Seq(S))
  PROVE  /\ FlattenSeq(ss) \in Seq(S)
         /\ Elements(FlattenSeq(ss)) = UNION {Elements(ss[i]) : i \in 1..Len(ss)}
<1>1. CASE Len(ss) = 0
  <2>1. FlattenSeq(ss) = ss /\ ss = <<>>
    BY <1>1 DEF FlattenSeq
  <2> QED BY <2>1 DEF Elements
<1>2. CASE Len(ss) # 0
  <2>0. Len(ss) \in Nat \ {0}
    BY <1>2
  <2>1. PICK f : /\ f[1] = ss[1]
                 /\ \A n \in 1..(Len(ss)-1) : f[n+1] = f[n] \o ss[n+1]
                 /\ FlattenSeq(ss) = f[Len(ss)]
    BY <2>0, FlattenRecursion
  <2> DEFINE Good(n) == /\ f[n] \in Seq(S)
                        /\ Elements(f[n]) = UNION {Elements(ss[i]) : i \in 1..n}
             P == {n \in 0..(Len(ss) - 1) : Good(n + 1)}
  <2>2. Good(1)
    <3>1. ss[1] \in Seq(S) /\ 1..1 = {1}
      BY <2>0
    <3> QED BY <2>1, <3>1
  <2>3. ASSUME NEW n \in 1..(Len(ss)-1), Good(n) PROVE Good(n + 1)
    <3>0. n + 1 \in 1..Len(ss)
      BY <2>0
    <3>1. ss[n+1] \in Seq(S) /\ f[n+1] = f[n] \o ss[n+1]
      <4>1. ss[n+1] \in Seq(S)
        BY <3>0
      <4> QED BY <2>1, <4>1
    <3>2. 1..(n+1) = 1..n \cup {n+1}
      OBVIOUS
    <3>3. /\ f[n+1] \in Seq(S)
          /\ Elements(f[n+1]) = Elements(f[n]) \cup Elements(ss[n+1])
      BY <2>3, <3>1, JoinElements
    <3>4. UNION {Elements(ss[i]) : i \in 1..(n+1)}
            = (UNION {Elements(ss[i]) : i \in 1..n}) \cup Elements(ss[n+1])
      BY <3>2
    <3> QED BY <2>3, <3>3, <3>4
  <2>4. Good(Len(ss))
    <3> HIDE DEF Good
    <3>1. 0 \in P
      BY <2>0, <2>2
    <3>2. ASSUME NEW n \in 0..((Len(ss) - 1) - 1), n \in P PROVE n + 1 \in P
      <4>1. n + 1 \in 1..(Len(ss) - 1) /\ n + 1 \in 0..(Len(ss) - 1)
        BY <2>0
      <4> QED BY <2>3, <3>2, <4>1
    <3>3. Len(ss) - 1 \in P
      <4> HIDE DEF P
      <4>1. Len(ss) - 1 \in Nat /\ Len(ss) - 1 \in 0..(Len(ss) - 1)
        BY <2>0
      <4> QED BY <3>1, <3>2, <4>1, UpTo
    <3>4. (Len(ss) - 1) + 1 = Len(ss)
      BY <2>0
    <3> QED BY <3>3, <3>4
  <2> QED BY <2>1, <2>4
<1> QED BY <1>1, <1>2

-----------------------------------------------------------------------------
(* Sequences, one element more at a time *)

\* Induction over the sequences of a set, for a set of sequences.
LEMMA SeqSetInduction ==
  ASSUME NEW S, NEW P, <<>> \in P,
         \A s \in Seq(S), e \in S : s \in P => Append(s, e) \in P
  PROVE  Seq(S) \subseteq P
<1> SUFFICES ASSUME NEW s \in Seq(S) PROVE s \in P
  OBVIOUS
<1> DEFINE pre(n) == SubSeq(s, 1, n)
           Q == {n \in 0..Len(s) : pre(n) \in P}
<1>1. Len(s) \in Nat /\ pre(0) = <<>> /\ pre(Len(s)) = s
  OBVIOUS
<1>2. ASSUME NEW n \in 0..(Len(s)-1), n \in Q PROVE n + 1 \in Q
  <2>1. /\ pre(n) \in Seq(S) /\ s[n+1] \in S
        /\ pre(n + 1) = Append(pre(n), s[n+1])
        /\ n + 1 \in 0..Len(s)
    OBVIOUS
  <2>2. pre(n) \in P
    BY <1>2
  <2> HIDE DEF pre
  <2> QED BY <2>1, <2>2
<1>3. Len(s) \in Q
  <2> HIDE DEF pre
  <2>0. pre(0) \in P
    BY <1>1, Zenon
  <2>1. 0 \in Q /\ Len(s) \in 0..Len(s)
    BY <1>1, <2>0
  <2> HIDE DEF Q
  <2> QED BY <1>1, <1>2, <2>1, UpTo
<1> QED BY <1>1, <1>3

\* Joining, one element more.
LEMMA JoinAppend ==
  ASSUME NEW S, NEW s \in Seq(S), NEW t \in Seq(S), NEW e \in S
  PROVE  s \o Append(t, e) = Append(s \o t, e) /\ s \o <<>> = s /\ <<>> \o s = s
OBVIOUS

\* Joining is associative.
LEMMA JoinAssociative ==
  ASSUME NEW S, NEW s \in Seq(S), NEW t \in Seq(S), NEW u \in Seq(S)
  PROVE  (s \o t) \o u = s \o (t \o u)
OBVIOUS

\* Two functions that obey the same recursion are equal up to a position.
LEMMA FlattenAppend ==
  ASSUME NEW S, NEW ss \in Seq(Seq(S)), NEW s \in Seq(S)
  PROVE  FlattenSeq(Append(ss, s)) = FlattenSeq(ss) \o s
<1> DEFINE t == Append(ss, s)
<1>1. /\ Len(ss) \in Nat /\ t \in Seq(Seq(S)) /\ Len(t) = Len(ss) + 1
      /\ \A n \in 1..Len(ss) : t[n] = ss[n]
      /\ t[Len(ss) + 1] = s
  OBVIOUS
<1> HIDE DEF t
<1>2. PICK g : /\ g[1] = t[1]
               /\ \A n \in 1..(Len(t)-1) : g[n+1] = g[n] \o t[n+1]
               /\ FlattenSeq(t) = g[Len(t)]
  <2>1. Len(t) \in Nat \ {0}
    BY <1>1
  <2> QED BY <2>1, FlattenRecursion
<1>3. CASE Len(ss) = 0
  <2>1. FlattenSeq(ss) = <<>>
    BY <1>3 DEF FlattenSeq
  <2>2. FlattenSeq(t) = s
    BY <1>1, <1>2, <1>3
  <2> QED BY <2>1, <2>2 DEF t
<1>4. CASE Len(ss) # 0
  <2>1. PICK f : /\ f[1] = ss[1]
                 /\ \A n \in 1..(Len(ss)-1) : f[n+1] = f[n] \o ss[n+1]
                 /\ FlattenSeq(ss) = f[Len(ss)]
    <3>1. Len(ss) \in Nat \ {0}
      BY <1>1, <1>4
    <3> QED BY <3>1, FlattenRecursion
  <2> DEFINE P == {n \in 0..(Len(ss)-1) : g[n+1] = f[n+1]}
  <2>2. 0 \in P
    BY <1>1, <1>2, <1>4, <2>1
  <2>3. ASSUME NEW n \in 0..((Len(ss)-1)-1), n \in P PROVE n + 1 \in P
    <3> DEFINE m == n + 1
    <3>1. /\ m \in 1..(Len(ss)-1) /\ m \in 1..(Len(t)-1) /\ m + 1 \in 1..Len(ss)
          /\ m \in 0..(Len(ss)-1)
      BY <1>1
    <3>2. g[m] = f[m]
      BY <2>3
    <3> HIDE DEF m
    <3>3. g[m+1] = g[m] \o t[m+1] /\ f[m+1] = f[m] \o ss[m+1] /\ t[m+1] = ss[m+1]
      BY <1>1, <1>2, <2>1, <3>1
    <3>4. m \in P
      BY <3>1, <3>2, <3>3
    <3> QED BY <3>4 DEF m
  <2>4. Len(ss) - 1 \in P
    <3>1. Len(ss) - 1 \in Nat /\ Len(ss) - 1 \in 0..(Len(ss)-1)
      BY <1>1, <1>4
    <3> HIDE DEF P
    <3> QED BY <2>2, <2>3, <3>1, UpTo
  <2>5. g[Len(ss)] = f[Len(ss)]
    <3>1. (Len(ss) - 1) + 1 = Len(ss)
      BY <1>1
    <3> QED BY <2>4, <3>1
  <2>6. Len(ss) \in 1..(Len(t)-1) /\ Len(ss) + 1 = Len(t)
    BY <1>1, <1>4
  <2>7. FlattenSeq(t) = FlattenSeq(ss) \o s
    BY <1>1, <1>2, <2>1, <2>5, <2>6
  <2> QED BY <2>7 DEF t
<1> QED BY <1>3, <1>4

\* Filtering, one element more.
LEMMA KeptAppend ==
  ASSUME NEW S, NEW s \in Seq(S), NEW e \in S, NEW T
  PROVE  Kept(Append(s, e), T) = IF e \in T THEN Append(Kept(s, T), e) ELSE Kept(s, T)
<1> DEFINE t == Append(s, e)
<1>1. /\ Len(s) \in Nat /\ t \in Seq(S) /\ Len(t) = Len(s) + 1
      /\ \A n \in 1..Len(s) : t[n] = s[n]
      /\ t[Len(s) + 1] = e
  OBVIOUS
<1> HIDE DEF t
<1>2. PICK g : /\ g[0] = <<>>
               /\ \A n \in 0..(Len(t)-1) :
                    /\ t[n+1] \in T => g[n+1] = Append(g[n], t[n+1])
                    /\ t[n+1] \notin T => g[n+1] = g[n]
               /\ Kept(t, T) = g[Len(t)]
  BY <1>1, KeptRecursion
<1>3. PICK f : /\ f[0] = <<>>
               /\ \A n \in 0..(Len(s)-1) :
                    /\ s[n+1] \in T => f[n+1] = Append(f[n], s[n+1])
                    /\ s[n+1] \notin T => f[n+1] = f[n]
               /\ Kept(s, T) = f[Len(s)]
  BY <1>1, KeptRecursion
<1> DEFINE P == {n \in 0..Len(s) : g[n] = f[n]}
<1>4. 0 \in P
  BY <1>1, <1>2, <1>3
<1>5. ASSUME NEW n \in 0..(Len(s)-1), n \in P PROVE n + 1 \in P
  <2>1. n \in 0..(Len(t)-1) /\ n + 1 \in 1..Len(s) /\ n + 1 \in 0..Len(s)
    BY <1>1
  <2>2. t[n+1] = s[n+1] /\ g[n] = f[n]
    BY <1>1, <1>5, <2>1
  <2>3. g[n+1] = f[n+1]
    BY <1>2, <1>3, <2>1, <2>2
  <2> QED BY <2>1, <2>3
<1>6. g[Len(s)] = f[Len(s)]
  <2>1. Len(s) \in 0..Len(s)
    BY <1>1
  <2>2. Len(s) \in P
    <3> HIDE DEF P
    <3> QED BY <1>1, <1>4, <1>5, <2>1, UpTo
  <2> QED BY <2>2
<1>7. Len(s) \in 0..(Len(t)-1)
  BY <1>1
<1>8. Kept(t, T) = IF e \in T THEN Append(Kept(s, T), e) ELSE Kept(s, T)
  BY <1>1, <1>2, <1>3, <1>6, <1>7
<1> QED BY <1>8 DEF t

\* There is nothing to keep of an empty sequence.
LEMMA KeptEmpty ==
  ASSUME NEW T
  PROVE  Kept(<<>>, T) = <<>>
<1> DEFINE s == <<>>
<1>1. s \in Seq({}) /\ Len(s) = 0
  OBVIOUS
<1> HIDE DEF s
<1>2. PICK f : /\ f[0] = <<>>
               /\ \A n \in 0..(Len(s)-1) :
                    /\ s[n+1] \in T => f[n+1] = Append(f[n], s[n+1])
                    /\ s[n+1] \notin T => f[n+1] = f[n]
               /\ Kept(s, T) = f[Len(s)]
  BY <1>1, KeptRecursion
<1> QED BY <1>1, <1>2 DEF s

\* Filtering a joined sequence filters its parts.
LEMMA KeptJoin ==
  ASSUME NEW S, NEW s \in Seq(S), NEW t \in Seq(S), NEW T
  PROVE  Kept(s \o t, T) = Kept(s, T) \o Kept(t, T)
<1> DEFINE P == {u \in Seq(S) : Kept(s \o u, T) = Kept(s, T) \o Kept(u, T)}
<1>1. Kept(s, T) \in Seq(S) /\ \A u \in Seq(S) : Kept(u, T) \in Seq(S)
  BY KeptElements
<1>2. <<>> \in P
  <2>1. s \o <<>> = s /\ Kept(s, T) \o <<>> = Kept(s, T)
    BY <1>1
  <2>2. <<>> \in Seq(S) /\ Kept(s \o <<>>, T) = Kept(s, T)
    BY <2>1
  <2>3. Kept(<<>>, T) = <<>>
    BY KeptEmpty
  <2>4. Kept(s \o <<>>, T) = Kept(s, T) \o Kept(<<>>, T)
    BY <2>1, <2>2, <2>3
  <2> QED BY <2>2, <2>4
<1>3. ASSUME NEW u \in Seq(S), NEW e \in S, u \in P PROVE Append(u, e) \in P
  <2>1. Kept(s \o u, T) = Kept(s, T) \o Kept(u, T)
    BY <1>3
  <2>2. s \o u \in Seq(S) /\ s \o Append(u, e) = Append(s \o u, e) /\ Append(u, e) \in Seq(S)
    OBVIOUS
  <2>3. Kept(Append(s \o u, e), T)
          = IF e \in T THEN Append(Kept(s \o u, T), e) ELSE Kept(s \o u, T)
    BY <2>2, KeptAppend
  <2>4. Kept(Append(u, e), T) = IF e \in T THEN Append(Kept(u, T), e) ELSE Kept(u, T)
    BY KeptAppend
  <2>5. Kept(s, T) \o Append(Kept(u, T), e) = Append(Kept(s, T) \o Kept(u, T), e)
    BY <1>1, JoinAppend
  <2> QED BY <2>1, <2>2, <2>3, <2>4, <2>5
<1>4. Seq(S) \subseteq P
  <2> HIDE DEF P
  <2> QED BY <1>2, <1>3, SeqSetInduction
<1> QED BY <1>4

\* A filter that all elements pass, or none, keeps all of them, or none.
LEMMA KeptAll ==
  ASSUME NEW S, NEW s \in Seq(S), NEW T
  PROVE  /\ Elements(s) \subseteq T => Kept(s, T) = s
         /\ Elements(s) \cap T = {} => Kept(s, T) = <<>>
<1> DEFINE Claim(u) == /\ Elements(u) \subseteq T => Kept(u, T) = u
                       /\ Elements(u) \cap T = {} => Kept(u, T) = <<>>
           P == {u \in Seq(S) : Claim(u)}
<1>1. <<>> \in P
  <2>1. <<>> \in Seq(S)
    OBVIOUS
  <2>2. Kept(<<>>, T) = <<>>
    BY KeptEmpty
  <2>3. Claim(<<>>)
    BY <2>2
  <2> HIDE DEF Claim
  <2> QED BY <2>1, <2>3
<1>2. ASSUME NEW u \in Seq(S), NEW e \in S, u \in P PROVE Append(u, e) \in P
  <2>1. Append(u, e) \in Seq(S) /\ Elements(Append(u, e)) = Elements(u) \cup {e}
    BY AppendElements
  <2>2. Kept(Append(u, e), T) = IF e \in T THEN Append(Kept(u, T), e) ELSE Kept(u, T)
    BY KeptAppend
  <2>3. /\ Elements(u) \subseteq T => Kept(u, T) = u
        /\ Elements(u) \cap T = {} => Kept(u, T) = <<>>
    BY <1>2
  <2> QED BY <2>1, <2>2, <2>3
<1>3. Seq(S) \subseteq P
  <2> HIDE DEF P
  <2> QED BY <1>1, <1>2, SeqSetInduction
<1> QED BY <1>3

\* Appending an element, position by position.
LEMMA AppendByPlace ==
  ASSUME NEW S, NEW s \in Seq(S), NEW e \in S
  PROVE  Append(s, e) = [k \in 1..(Len(s) + 1) |-> IF k = Len(s) + 1 THEN e ELSE s[k]]
<1> DEFINE t == Append(s, e)
<1>1. /\ DOMAIN t = 1..(Len(s) + 1) /\ t \in Seq(S)
      /\ \A k \in 1..(Len(s)+1) : t[k] = IF k = Len(s) + 1 THEN e ELSE s[k]
  OBVIOUS
<1>2. t = [k \in 1..(Len(s)+1) |-> t[k]]
  <2> HIDE DEF t
  <2> QED BY <1>1
<1> HIDE DEF t
<1>3. t = [k \in 1..(Len(s)+1) |-> IF k = Len(s) + 1 THEN e ELSE s[k]]
  BY <1>1, <1>2
<1> QED BY <1>3 DEF t

\* KeptJoin for all sequences of a set.
LEMMA KeptJoins ==
  ASSUME NEW S, NEW T
  PROVE  \A s, t \in Seq(S) : Kept(s \o t, T) = Kept(s, T) \o Kept(t, T)
BY KeptJoin

\* Of sequences one after the other, a filter that all elements of one pass and
\* none of the others keeps that one.
LEMMA KeptOneOf ==
  ASSUME NEW S, NEW ss \in Seq(Seq(S)), NEW T, NEW i \in 1..Len(ss),
         Elements(ss[i]) \subseteq T,
         \A j \in 1..Len(ss) : j # i => Elements(ss[j]) \cap T = {}
  PROVE  Kept(FlattenSeq(ss), T) = ss[i]
<1> DEFINE pre(n) == SubSeq(ss, 1, n)
           Good(n) == Kept(FlattenSeq(pre(n)), T) = IF i <= n THEN ss[i] ELSE <<>>
           P == {n \in 0..Len(ss) : Good(n)}
<1>1. /\ Len(ss) \in Nat /\ pre(0) = <<>> /\ pre(Len(ss)) = ss
      /\ \A n \in 0..Len(ss) : pre(n) \in Seq(Seq(S))
      /\ \A n \in 0..(Len(ss)-1) : pre(n + 1) = Append(pre(n), ss[n+1]) /\ ss[n+1] \in Seq(S)
      /\ ss[i] \in Seq(S)
  OBVIOUS
<1> HIDE DEF pre
<1>0. \A x, y \in Seq(S) : Kept(x \o y, T) = Kept(x, T) \o Kept(y, T)
  BY KeptJoins, Zenon
<1>2. Good(0)
  <2>1. FlattenSeq(<<>>) = <<>>
    <3>1. Len(<<>>) = 0
      OBVIOUS
    <3> QED BY <3>1 DEF FlattenSeq
  <2>2. Kept(FlattenSeq(pre(0)), T) = <<>>
    BY <1>1, <2>1, KeptEmpty, Zenon
  <2> QED BY <2>2
<1>3. ASSUME NEW n \in 0..(Len(ss)-1), Good(n) PROVE Good(n + 1)
  <2> DEFINE t == ss[n+1]
             f == FlattenSeq(pre(n))
  <2>1. /\ n + 1 \in 1..Len(ss) /\ n \in 0..Len(ss) /\ n \in Nat
        /\ t \in Seq(S) /\ pre(n + 1) = Append(pre(n), t) /\ pre(n) \in Seq(Seq(S))
    <3>1. n + 1 \in 1..Len(ss) /\ n \in 0..Len(ss) /\ n \in Nat
      BY <1>1
    <3> QED BY <1>1, <3>1
  <2>2. FlattenSeq(pre(n + 1)) = f \o t /\ f \in Seq(S)
    <3> HIDE DEF t
    <3>1. FlattenSeq(Append(pre(n), t)) = FlattenSeq(pre(n)) \o t
      BY <2>1, FlattenAppend
    <3>2. FlattenSeq(pre(n)) \in Seq(S)
      BY <2>1, FlattenElements
    <3> QED BY <2>1, <3>1, <3>2
  <2>3. Kept(f \o t, T) = Kept(f, T) \o Kept(t, T)
    <3>1. f \in Seq(S) /\ t \in Seq(S)
      BY <2>1, <2>2
    <3> HIDE DEF t, f
    <3> QED BY <1>0, <3>1
  <2>4. Kept(t, T) = IF n + 1 = i THEN ss[i] ELSE <<>>
    <3>1. CASE n + 1 = i
      <4>1. t = ss[i] /\ Elements(t) \subseteq T
        BY <3>1
      <4> HIDE DEF t
      <4> QED BY <2>1, <3>1, <4>1, KeptAll
    <3>2. CASE n + 1 # i
      <4>1. Elements(t) \cap T = {}
        BY <2>1, <3>2
      <4> HIDE DEF t
      <4> QED BY <2>1, <3>2, <4>1, KeptAll
    <3> QED BY <3>1, <3>2
  <2>5. Kept(f, T) = IF i <= n THEN ss[i] ELSE <<>>
    BY <1>3
  <2> HIDE DEF t, f
  <2>6. <<>> \o ss[i] = ss[i] /\ ss[i] \o <<>> = ss[i] /\ <<>> \o <<>> = <<>>
    BY <1>1
  <2>7. i <= n + 1 <=> i <= n \/ n + 1 = i
    BY <2>1
  <2>8. ~(i <= n /\ n + 1 = i)
    BY <2>1
  <2> QED BY <2>2, <2>3, <2>4, <2>5, <2>6, <2>7, <2>8
<1>4. Good(Len(ss))
  <2> HIDE DEF Good
  <2>1. 0 \in P /\ \A n \in 0..(Len(ss)-1) : n \in P => n + 1 \in P
    BY <1>1, <1>2, <1>3
  <2>2. Len(ss) \in P
    <3>1. Len(ss) \in 0..Len(ss)
      BY <1>1
    <3> HIDE DEF P
    <3> QED BY <1>1, <2>1, <3>1, UpTo
  <2> QED BY <2>2
<1> QED BY <1>1, <1>4

\* One more number adds itself to the sum.
LEMMA SumAppend ==
  ASSUME NEW S, NEW s \in Seq(S), NEW e \in S
  PROVE  SeqSum(Append(s, e)) = SeqSum(s) + e
<1> DEFINE t == Append(s, e)
<1>1. /\ Len(s) \in Nat /\ Len(t) = Len(s) + 1 /\ t[Len(s) + 1] = e
      /\ \A n \in 1..Len(s) : t[n] = s[n]
  OBVIOUS
<1> HIDE DEF t
<1>2. Len(t) \in Nat
  BY <1>1
<1>3. /\ Running(s)[0] = 0
      /\ \A n \in 0..(Len(s)-1) : Running(s)[n+1] = Running(s)[n] + s[n+1]
  BY <1>1, RunningRecursion
<1>4. /\ Running(t)[0] = 0
      /\ \A n \in 0..(Len(t)-1) : Running(t)[n+1] = Running(t)[n] + t[n+1]
  BY <1>2, RunningRecursion
<1> DEFINE P == {n \in Nat : Running(t)[n] = Running(s)[n]}
<1>5. 0 \in P
  BY <1>3, <1>4
<1>6. ASSUME NEW n \in 0..(Len(s)-1), n \in P PROVE n + 1 \in P
  <2>1. n + 1 \in 1..Len(s) /\ n \in 0..(Len(t)-1) /\ n + 1 \in Nat
    BY <1>1
  <2>2. t[n+1] = s[n+1]
    BY <1>1, <2>1
  <2>3. /\ Running(s)[n+1] = Running(s)[n] + s[n+1]
        /\ Running(t)[n+1] = Running(t)[n] + t[n+1]
    BY <1>3, <1>4, <2>1
  <2> QED BY <1>6, <2>1, <2>2, <2>3
<1>7. Len(s) \in P
  <2> HIDE DEF P
  <2>1. \A n \in 0..Len(s) : n \in P
    BY <1>1, <1>5, <1>6, UpTo
  <2> QED BY <1>1, <2>1
<1>8. Running(t)[Len(s) + 1] = Running(t)[Len(s)] + t[Len(s) + 1]
  BY <1>1, <1>4
<1> QED BY <1>1, <1>7, <1>8 DEF SeqSum, t

-----------------------------------------------------------------------------
(* How often an element occurs *)

Places(s, e) == {i \in 1..Len(s) : s[i] = e}
Count(s, e) == Cardinality(Places(s, e))

\* An element occurs a finite number of times.
LEMMA PlacesFinite ==
  ASSUME NEW S, NEW s \in Seq(S), NEW e
  PROVE  IsFiniteSet(Places(s, e)) /\ Count(s, e) \in Nat
<1>1. IsFiniteSet(1..Len(s))
  BY FS_Interval
<1>2. Places(s, e) \in SUBSET (1..Len(s))
  BY DEF Places
<1>3. IsFiniteSet(Places(s, e))
  BY <1>1, <1>2, FS_Subset
<1> QED BY <1>3, FS_CardinalityType DEF Count

\* Nothing occurs in an empty sequence.
LEMMA CountEmpty ==
  ASSUME NEW e
  PROVE  Count(<<>>, e) = 0
<1>1. Places(<<>>, e) = {}
  BY DEF Places
<1> QED BY <1>1, FS_EmptySet DEF Count

\* One element more is one occurrence more of that element.
LEMMA CountAppend ==
  ASSUME NEW S, NEW s \in Seq(S), NEW x \in S, NEW e
  PROVE  Count(Append(s, x), e) = Count(s, e) + (IF x = e THEN 1 ELSE 0)
<1> DEFINE t == Append(s, x)
<1>1. /\ Len(s) \in Nat /\ Len(t) = Len(s) + 1
      /\ \A n \in 1..Len(s) : t[n] = s[n]
      /\ t[Len(s) + 1] = x
  OBVIOUS
<1> HIDE DEF t
<1>2. IsFiniteSet(Places(s, e)) /\ Count(s, e) \in Nat
  BY PlacesFinite
<1>3. 1..Len(t) = 1..Len(s) \cup {Len(s) + 1} /\ Len(s) + 1 \notin 1..Len(s)
  BY <1>1
<1>4. CASE x = e
  <2>1. Places(t, e) = Places(s, e) \cup {Len(s) + 1} /\ Len(s) + 1 \notin Places(s, e)
    BY <1>1, <1>3, <1>4 DEF Places
  <2>2. Cardinality(Places(s, e) \cup {Len(s) + 1}) = Cardinality(Places(s, e)) + 1
    BY <1>2, <2>1, FS_AddElement
  <2>3. Count(t, e) = Count(s, e) + 1
    BY <2>1, <2>2 DEF Count
  <2> QED BY <1>4, <2>3 DEF t
<1>5. CASE x # e
  <2>1. Places(t, e) = Places(s, e)
    BY <1>1, <1>3, <1>5 DEF Places
  <2>2. Count(t, e) = Count(s, e)
    BY <2>1 DEF Count
  <2> QED BY <1>2, <1>5, <2>2 DEF t
<1> QED BY <1>4, <1>5

\* Joining adds up the occurrences.
LEMMA CountJoin ==
  ASSUME NEW S, NEW s \in Seq(S), NEW t \in Seq(S), NEW e
  PROVE  Count(s \o t, e) = Count(s, e) + Count(t, e)
<1> DEFINE Claim(u) == Count(s \o u, e) = Count(s, e) + Count(u, e)
           P == {u \in Seq(S) : Claim(u)}
<1>1. Claim(<<>>)
  <2>1. s \o <<>> = s /\ Count(s, e) \in Nat
    BY PlacesFinite
  <2>2. Count(s \o <<>>, e) = Count(s, e)
    BY <2>1
  <2>3. Count(<<>>, e) = 0
    BY CountEmpty
  <2> QED BY <2>1, <2>2, <2>3
<1>2. ASSUME NEW u \in Seq(S), NEW x \in S, Claim(u) PROVE Claim(Append(u, x))
  <2>1. s \o u \in Seq(S) /\ s \o Append(u, x) = Append(s \o u, x)
    OBVIOUS
  <2>2. Count(Append(s \o u, x), e) = Count(s \o u, e) + (IF x = e THEN 1 ELSE 0)
    <3> DEFINE w == s \o u
    <3>1. w \in Seq(S)
      BY <2>1
    <3> HIDE DEF w
    <3>2. Count(Append(w, x), e) = Count(w, e) + (IF x = e THEN 1 ELSE 0)
      BY <3>1, CountAppend
    <3> QED BY <3>2 DEF w
  <2>3. Count(Append(u, x), e) = Count(u, e) + (IF x = e THEN 1 ELSE 0)
    BY CountAppend
  <2>4. Count(s, e) \in Nat /\ Count(u, e) \in Nat
    BY PlacesFinite
  <2>5. Count(s \o Append(u, x), e) = Count(Append(s \o u, x), e)
    BY <2>1
  <2> QED BY <1>2, <2>2, <2>3, <2>4, <2>5
<1>3. Seq(S) \subseteq P
  <2> HIDE DEF Claim
  <2>1. <<>> \in P
    <3>1. <<>> \in Seq(S)
      OBVIOUS
    <3> QED BY <1>1, <3>1
  <2>2. \A u \in Seq(S), x \in S : u \in P => Append(u, x) \in P
    <3>1. \A u \in Seq(S), x \in S : Append(u, x) \in Seq(S)
      OBVIOUS
    <3> QED BY <1>2, <3>1
  <2> HIDE DEF P
  <2> QED BY <2>1, <2>2, SeqSetInduction
<1> QED BY <1>3

\* A filter keeps every occurrence of an element that passes.
LEMMA CountKept ==
  ASSUME NEW S, NEW s \in Seq(S), NEW T, NEW e \in T
  PROVE  Count(Kept(s, T), e) = Count(s, e)
<1> DEFINE Claim(u) == Count(Kept(u, T), e) = Count(u, e)
           P == {u \in Seq(S) : Claim(u)}
<1>1. Claim(<<>>)
  <2>1. Kept(<<>>, T) = <<>>
    BY KeptEmpty
  <2> QED BY <2>1
<1>2. ASSUME NEW u \in Seq(S), NEW x \in S, Claim(u) PROVE Claim(Append(u, x))
  <2>1. Kept(Append(u, x), T) = IF x \in T THEN Append(Kept(u, T), x) ELSE Kept(u, T)
    BY KeptAppend
  <2>2. Kept(u, T) \in Seq(S)
    BY KeptElements
  <2>3. /\ Count(Append(u, x), e) = Count(u, e) + (IF x = e THEN 1 ELSE 0)
        /\ Count(Append(Kept(u, T), x), e) = Count(Kept(u, T), e) + (IF x = e THEN 1 ELSE 0)
    BY <2>2, CountAppend
  <2>4. Count(u, e) \in Nat
    BY PlacesFinite
  <2>5. CASE x \in T
    <3>1. Count(Kept(Append(u, x), T), e) = Count(Append(Kept(u, T), x), e)
      BY <2>1, <2>5
    <3> QED BY <1>2, <2>3, <3>1
  <2>6. CASE x \notin T
    <3>1. Count(Kept(Append(u, x), T), e) = Count(Kept(u, T), e) /\ x # e
      BY <2>1, <2>6
    <3> QED BY <1>2, <2>3, <2>4, <3>1
  <2> QED BY <2>5, <2>6
<1>3. Seq(S) \subseteq P
  <2> HIDE DEF Claim
  <2>1. <<>> \in P
    <3>1. <<>> \in Seq(S)
      OBVIOUS
    <3> QED BY <1>1, <3>1
  <2>2. \A u \in Seq(S), x \in S : u \in P => Append(u, x) \in P
    <3>1. \A u \in Seq(S), x \in S : Append(u, x) \in Seq(S)
      OBVIOUS
    <3> QED BY <1>2, <3>1
  <2> HIDE DEF P
  <2> QED BY <2>1, <2>2, SeqSetInduction
<1> QED BY <1>3

\* Where an element occurs in a sequence of sequences: which, and where in it.
PairPlaces(ss, e) == UNION {{a} \X Places(ss[a], e) : a \in 1..Len(ss)}

\* FlattenSeq keeps every occurrence.
LEMMA CountFlatten ==
  ASSUME NEW S, NEW ss \in Seq(Seq(S)), NEW e
  PROVE  Count(FlattenSeq(ss), e) = Cardinality(PairPlaces(ss, e))
<1> DEFINE Claim(tt) == /\ IsFiniteSet(PairPlaces(tt, e))
                        /\ Count(FlattenSeq(tt), e) = Cardinality(PairPlaces(tt, e))
           P == {tt \in Seq(Seq(S)) : Claim(tt)}
<1>1. Claim(<<>>)
  <2>1. PairPlaces(<<>>, e) = {}
    BY DEF PairPlaces
  <2>2. FlattenSeq(<<>>) = <<>>
    <3>1. Len(<<>>) = 0
      OBVIOUS
    <3> QED BY <3>1 DEF FlattenSeq
  <2>3. Count(<<>>, e) = 0
    BY CountEmpty
  <2> QED BY <2>1, <2>2, <2>3, FS_EmptySet
<1>2. ASSUME NEW tt \in Seq(Seq(S)), NEW t \in Seq(S), Claim(tt) PROVE Claim(Append(tt, t))
  <2> DEFINE uu == Append(tt, t)
             new == {Len(tt) + 1} \X Places(t, e)
             old == PairPlaces(tt, e)
  <2>1. /\ Len(tt) \in Nat /\ Len(uu) = Len(tt) + 1
        /\ \A n \in 1..Len(tt) : uu[n] = tt[n]
        /\ uu[Len(tt) + 1] = t
    OBVIOUS
  <2>2. FlattenSeq(uu) = FlattenSeq(tt) \o t /\ FlattenSeq(tt) \in Seq(S)
    BY FlattenAppend, FlattenElements
  <2> HIDE DEF uu
  <2>3. 1..Len(uu) = 1..Len(tt) \cup {Len(tt) + 1} /\ Len(tt) + 1 \notin 1..Len(tt)
    BY <2>1
  <2>4. PairPlaces(uu, e) = old \cup new
    BY <2>1, <2>3 DEF PairPlaces
  <2>5. old \cap new = {}
    BY <2>3 DEF PairPlaces
  <2>6. IsFiniteSet(new) /\ Cardinality(new) = Count(t, e)
    <3>1. IsFiniteSet({Len(tt) + 1}) /\ Cardinality({Len(tt) + 1}) = 1
      BY FS_Singleton
    <3>2. IsFiniteSet(Places(t, e)) /\ Count(t, e) \in Nat
      BY PlacesFinite
    <3>3. IsFiniteSet(new) /\ Cardinality(new) = 1 * Cardinality(Places(t, e))
      BY <3>1, <3>2, FS_Product
    <3> QED BY <3>2, <3>3 DEF Count
  <2>7. IsFiniteSet(old) /\ Cardinality(old) = Count(FlattenSeq(tt), e) /\ Cardinality(old) \in Nat
    BY <1>2, FS_CardinalityType
  <2> HIDE DEF old, new
  <2>8. /\ IsFiniteSet(old \cup new)
        /\ Cardinality(old \cup new) = Cardinality(old) + Cardinality(new) - Cardinality({})
    <3>1. /\ IsFiniteSet(old \cup new)
          /\ Cardinality(old \cup new) = Cardinality(old) + Cardinality(new) - Cardinality(old \cap new)
      BY <2>6, <2>7, FS_Union
    <3> QED BY <2>5, <3>1
  <2>9. Count(FlattenSeq(tt) \o t, e) = Count(FlattenSeq(tt), e) + Count(t, e)
    BY <2>2, CountJoin
  <2>10. Count(t, e) \in Nat /\ Cardinality({}) = 0
    BY PlacesFinite, FS_EmptySet
  <2>11. IsFiniteSet(PairPlaces(uu, e)) /\ Count(FlattenSeq(uu), e) = Cardinality(PairPlaces(uu, e))
    BY <2>2, <2>4, <2>6, <2>7, <2>8, <2>9, <2>10
  <2> QED BY <2>11 DEF uu
<1>3. Seq(Seq(S)) \subseteq P
  <2> HIDE DEF Claim
  <2>1. <<>> \in P
    <3>1. <<>> \in Seq(Seq(S))
      OBVIOUS
    <3> QED BY <1>1, <3>1
  <2>2. \A tt \in Seq(Seq(S)), t \in Seq(S) : tt \in P => Append(tt, t) \in P
    <3>1. \A tt \in Seq(Seq(S)), t \in Seq(S) : Append(tt, t) \in Seq(Seq(S))
      OBVIOUS
    <3> QED BY <1>2, <3>1
  <2> HIDE DEF P
  <2> QED BY <2>1, <2>2, SeqSetInduction
<1> QED BY <1>3

\* A permutation keeps every occurrence.
LEMMA CountPermuted ==
  ASSUME NEW S, NEW s \in Seq(S), NEW t \in Seq(S), Len(t) = Len(s),
         NEW q \in Bijection(1..Len(s), 1..Len(s)),
         \A n \in 1..Len(s) : t[n] = s[q[n]],
         NEW e
  PROVE  Count(t, e) = Count(s, e)
<1> DEFINE A == Places(t, e)
           B == Places(s, e)
           f == [n \in A |-> q[n]]
<1>1. /\ q \in [1..Len(s) -> 1..Len(s)]
      /\ \A m, n \in 1..Len(s) : q[m] = q[n] => m = n
      /\ \A k \in 1..Len(s) : \E n \in 1..Len(s) : q[n] = k
  BY DEF Bijection, Injection, Surjection, IsInjective
<1>2. /\ A \subseteq 1..Len(s) /\ \A n \in 1..Len(s) : n \in A <=> s[q[n]] = e
      /\ B \subseteq 1..Len(s) /\ \A k \in 1..Len(s) : k \in B <=> s[k] = e
  BY DEF Places
<1> HIDE DEF A, B
<1>3. f \in [A -> B]
  BY <1>1, <1>2
<1>4. \A m, n \in A : f[m] = f[n] => m = n
  BY <1>1, <1>2
<1>5. \A k \in B : \E n \in A : f[n] = k
  <2> SUFFICES ASSUME NEW k \in B PROVE \E n \in A : f[n] = k
    OBVIOUS
  <2>1. PICK n \in 1..Len(s) : q[n] = k
    BY <1>1, <1>2
  <2> QED BY <1>2, <2>1
<1> HIDE DEF f
<1>6. ExistsBijection(A, B)
  BY <1>3, <1>4, <1>5 DEF ExistsBijection, Bijection, Injection, Surjection, IsInjective
<1>7. IsFiniteSet(A)
  BY PlacesFinite DEF A
<1> QED BY <1>6, <1>7, FS_Bijection DEF Count, A, B

-----------------------------------------------------------------------------
(* The largest and the least of finitely many numbers *)

\* Finitely many integers have a largest.
LEMMA MaxOfInts ==
  ASSUME NEW S \in SUBSET Int, IsFiniteSet(S), S # {}
  PROVE  Max(S) \in S /\ \A x \in S : x <= Max(S)
<1>1. Cardinality(S) \in Nat /\ ExistsBijection(1..Cardinality(S), S)
  BY FS_CardinalityType
<1> DEFINE n == Cardinality(S)
<1>2. PICK g \in [1..n -> S] : \A x \in S : \E k \in 1..n : g[k] = x
  BY <1>1 DEF ExistsBijection, Bijection, Surjection
<1> HIDE DEF n
<1> DEFINE Largest(m) == m > 0 => \E k \in 1..m : \A j \in 1..m : g[j] <= g[k]
           P == {m \in 0..n : Largest(m)}
<1>3. n \in Nat /\ n \in 0..n /\ \A j \in 1..n : g[j] \in Int
  <2>1. n \in Nat
    BY <1>1 DEF n
  <2>2. \A j \in 1..n : g[j] \in S
    BY <1>2
  <2>3. \A j \in 1..n : g[j] \in Int
    BY <2>2
  <2>4. n \in 0..n
    BY <2>1
  <2> QED BY <2>1, <2>3, <2>4
<1>4. Largest(0)
  OBVIOUS
<1>5. ASSUME NEW m \in 0..(n-1), Largest(m) PROVE Largest(m + 1)
  <2>0. /\ m + 1 \in 1..n /\ m + 1 \in 1..(m+1)
        /\ \A j \in 1..(m+1) : j \in 1..n
        /\ \A j \in 1..(m+1) : j = m + 1 \/ j \in 1..m
    BY <1>3
  <2>1. CASE m = 0
    <3>1. \A j \in 1..(m+1) : g[j] <= g[m+1]
      BY <1>3, <2>0, <2>1
    <3> QED BY <2>0, <3>1
  <2>2. CASE m # 0
    <3>1. PICK k \in 1..m : \A j \in 1..m : g[j] <= g[k]
      BY <1>5, <2>2
    <3>0. k \in 1..(m+1) /\ g[k] \in Int /\ g[m+1] \in Int
      BY <1>3, <2>0, <3>1
    <3>2. CASE g[k] <= g[m+1]
      <4>0. \A j \in 1..(m+1) : g[j] \in Int
        BY <1>3, <2>0
      <4>1. \A j \in 1..(m+1) : g[j] <= g[m+1]
        BY <2>0, <3>0, <3>1, <3>2, <4>0
      <4> QED BY <2>0, <4>1
    <3>3. CASE g[m+1] <= g[k]
      BY <2>0, <3>0, <3>1, <3>3
    <3>4. g[k] <= g[m+1] \/ g[m+1] <= g[k]
      BY <3>0
    <3> QED BY <3>2, <3>3, <3>4
  <2> QED BY <2>1, <2>2
<1>6. Largest(n)
  <2> HIDE DEF Largest
  <2>1. 0 \in P /\ \A m \in 0..(n-1) : m \in P => m + 1 \in P
    BY <1>3, <1>4, <1>5
  <2>2. n \in P
    <3> HIDE DEF P
    <3> QED BY <1>3, <2>1, UpTo
  <2> QED BY <2>2
<1>7. n > 0
  <2>1. PICK x \in S : TRUE
    OBVIOUS
  <2>2. PICK k \in 1..n : g[k] = x
    BY <1>2, <2>1
  <2> QED BY <1>3, <2>2
<1>8. PICK k \in 1..n : \A j \in 1..n : g[j] <= g[k]
  BY <1>6, <1>7
<1>9. g[k] \in S /\ \A x \in S : x <= g[k]
  BY <1>2, <1>8
<1>10. \E y \in S : \A x \in S : y >= x
  BY <1>9
<1>11. Max(S) \in S /\ \A x \in S : Max(S) >= x
  <2> HIDE <1>9, <1>8, <1>2
  <2> QED BY <1>10, Zenon DEF Max
<1> QED BY <1>11

\* The values of a function on finitely many numbers are finitely many.
LEMMA FiniteValues ==
  ASSUME NEW n \in Nat, NEW g
  PROVE  IsFiniteSet({g[k] : k \in 1..n})
<1> DEFINE T == {g[k] : k \in 1..n}
           f == [k \in 1..n |-> g[k]]
<1>1. f \in Surjection(1..n, T)
  BY DEF Surjection
<1>2. IsFiniteSet(1..n)
  BY FS_Interval
<1> HIDE DEF f, T
<1>3. IsFiniteSet(T)
  BY <1>1, <1>2, FS_Surjection
<1> QED BY <1>3 DEF T

\* The least of some natural numbers.
LEMMA MinOfNats ==
  ASSUME NEW S \in SUBSET Nat, S # {}
  PROVE  Min(S) \in S /\ \A x \in S : Min(S) <= x
<1>1. \E y \in S : \A x \in S : y <= x
  BY LeastNat
<1> QED BY <1>1, Zenon DEF Min

-----------------------------------------------------------------------------
(* The command line: the plan *)

\* The files that a source reaches without following a link.
Contents(s) ==
  IF s.kind = "file" THEN {s.file}
  ELSE {g \in ToSet(s.files) : g.format \in Formats /\ ~g.link}

\* A source contributes what it reaches.
LEMMA EntriesReached ==
  ASSUME NEW s \in Sources, WellFormed(s)
  PROVE  Entries(s) \in Seq(Contents(s)) /\ Elements(Entries(s)) = Contents(s)
<1>1. CASE s.kind = "file"
  <2>1. Entries(s) = <<s.file>> /\ Contents(s) = {s.file}
    BY <1>1 DEF Entries, Contents
  <2> QED BY <2>1 DEF Elements
<1>2. CASE s.kind = "dir"
  <2> DEFINE T == {f \in ToSet(s.files) : f.format \in Formats /\ ~f.link}
  <2>1. Entries(s) = Kept(s.files, T) /\ Contents(s) = T
    BY <1>2 DEF Entries, Contents
  <2>2. s.files \in Seq(ToSet(s.files))
    BY <1>2, CliAssumption
  <2>3. Elements(s.files) = ToSet(s.files)
    BY <2>2 DEF Elements, ToSet
  <2>4. /\ Kept(s.files, T) \in Seq(ToSet(s.files))
        /\ Elements(Kept(s.files, T)) = ToSet(s.files) \cap T
    BY <2>2, <2>3, KeptElements
  <2>5. Elements(Kept(s.files, T)) = T
    BY <2>4
  <2> HIDE DEF T
  <2>6. ASSUME NEW U, NEW t \in Seq(U) PROVE t \in Seq(Elements(t))
    BY DEF Elements
  <2> QED BY <2>1, <2>4, <2>5, <2>6
<1> QED BY <1>1, <1>2 DEF WellFormed

\* A walk meets what its sources reach.
LEMMA WalkReached ==
  ASSUME NEW sources \in Seq(Sources), \A i \in DOMAIN sources : WellFormed(sources[i])
  PROVE  LET files == UNION {Contents(sources[i]) : i \in 1..Len(sources)}
         IN  Walk(sources) \in Seq(files) /\ Elements(Walk(sources)) = files
<1> DEFINE files == UNION {Contents(sources[i]) : i \in 1..Len(sources)}
           ss == [i \in DOMAIN sources |-> Entries(sources[i])]
<1>1. Len(sources) \in Nat /\ DOMAIN sources = 1..Len(sources)
  OBVIOUS
<1>2. ASSUME NEW i \in 1..Len(sources)
      PROVE  /\ Entries(sources[i]) \in Seq(files)
             /\ Elements(Entries(sources[i])) = Contents(sources[i])
  <2>1. sources[i] \in Sources /\ WellFormed(sources[i])
    BY <1>1
  <2>2. Contents(sources[i]) \subseteq files
    OBVIOUS
  <2>3. /\ Entries(sources[i]) \in Seq(Contents(sources[i]))
        /\ Elements(Entries(sources[i])) = Contents(sources[i])
    BY <2>1, EntriesReached
  <2> HIDE DEF files
  <2> QED BY <2>2, <2>3
<1> HIDE DEF files
<1>3. /\ ss \in Seq(Seq(files)) /\ Len(ss) = Len(sources)
      /\ \A i \in 1..Len(sources) : ss[i] = Entries(sources[i])
  BY <1>1, <1>2
<1> HIDE DEF ss
<1>4. /\ FlattenSeq(ss) \in Seq(files)
      /\ Elements(FlattenSeq(ss)) = UNION {Elements(ss[i]) : i \in 1..Len(ss)}
  BY <1>3, FlattenElements
<1>5. UNION {Elements(ss[i]) : i \in 1..Len(ss)} = files
  BY <1>2, <1>3 DEF files
<1>6. Walk(sources) = FlattenSeq(ss)
  BY DEF Walk, ss
<1> QED BY <1>4, <1>5, <1>6 DEF files

\* The plan takes from the walk every input once.
LEMMA PlanTakesOnce ==
  ASSUME NEW sources, NEW F, Walk(sources) \in Seq(F)
  PROVE  /\ Plan(sources) \in Seq(F)
         /\ \A i, j \in DOMAIN Plan(sources) :
              Plan(sources)[i].real = Plan(sources)[j].real => i = j
         /\ {Plan(sources)[i].real : i \in DOMAIN Plan(sources)}
              = {f.real : f \in Elements(Walk(sources))}
<1> DEFINE walk == Walk(sources)
           all == [i \in DOMAIN walk |-> i]
           firsts == Kept(all, Unseen(walk))
           plan0 == [k \in DOMAIN firsts |-> walk[firsts[k]]]
<1>1. /\ walk \in Seq(F) /\ Len(walk) \in Nat /\ DOMAIN walk = 1..Len(walk)
      /\ \A i \in 1..Len(walk) : walk[i] \in F
  OBVIOUS
<1>2. Plan(sources) = plan0 /\ Walk(sources) = walk
  BY DEF Plan
<1> HIDE DEF walk
<1>3. /\ all \in Seq(1..Len(walk)) /\ Len(all) = Len(walk)
      /\ \A i \in 1..Len(walk) : all[i] = i
  BY <1>1
<1> HIDE DEF all
<1>4. Elements(all) = 1..Len(walk) /\ NoRepeats(all)
  BY <1>3 DEF Elements, NoRepeats
<1>5. /\ firsts \in Seq(1..Len(walk))
      /\ Elements(firsts) = Elements(all) \cap Unseen(walk)
      /\ NoRepeats(firsts)
  BY <1>3, <1>4, KeptElements, KeptNoRepeats
<1> HIDE DEF firsts
<1>6. /\ DOMAIN firsts = 1..Len(firsts) /\ Len(firsts) \in Nat
      /\ \A k \in 1..Len(firsts) : firsts[k] \in 1..Len(walk)
  BY <1>5
<1>7. /\ plan0 \in Seq(F) /\ DOMAIN plan0 = 1..Len(firsts)
      /\ \A k \in 1..Len(firsts) : plan0[k] = walk[firsts[k]]
  BY <1>1, <1>6
<1> HIDE DEF plan0
<1>8. ASSUME NEW k \in 1..Len(firsts)
      PROVE  \A j \in 1..(firsts[k] - 1) : walk[j].real # walk[firsts[k]].real
  <2>1. firsts[k] \in Unseen(walk)
    BY <1>5 DEF Elements
  <2> QED BY <2>1 DEF Unseen
<1>9. ASSUME NEW i \in 1..Len(firsts), NEW j \in 1..Len(firsts), plan0[i].real = plan0[j].real
      PROVE  i = j
  <2>1. walk[firsts[i]].real = walk[firsts[j]].real
    BY <1>7, <1>9
  <2>2. firsts[i] \in 1..Len(walk) /\ firsts[j] \in 1..Len(walk)
    BY <1>6
  <2>3. ~(firsts[i] < firsts[j])
    <3> SUFFICES ASSUME firsts[i] < firsts[j] PROVE FALSE
      OBVIOUS
    <3>1. firsts[i] \in 1..(firsts[j] - 1)
      BY <2>2
    <3> QED BY <1>8, <2>1, <3>1
  <2>4. ~(firsts[j] < firsts[i])
    <3> SUFFICES ASSUME firsts[j] < firsts[i] PROVE FALSE
      OBVIOUS
    <3>1. firsts[j] \in 1..(firsts[i] - 1)
      BY <2>2
    <3> QED BY <1>8, <2>1, <3>1
  <2>5. firsts[i] = firsts[j]
    BY <2>2, <2>3, <2>4
  <2> QED BY <1>5, <2>5 DEF NoRepeats
<1>10. ASSUME NEW k \in 1..Len(firsts)
       PROVE  plan0[k].real \in {f.real : f \in Elements(walk)}
  BY <1>1, <1>6, <1>7 DEF Elements
<1>11. ASSUME NEW i \in 1..Len(walk)
       PROVE  \E k \in 1..Len(firsts) : plan0[k].real = walk[i].real
  <2> DEFINE same == {j \in 1..Len(walk) : walk[j].real = walk[i].real}
  <2>1. PICK j \in same : \A m \in same : j <= m
    <3>1. same \in SUBSET Nat /\ same # {}
      OBVIOUS
    <3> HIDE DEF same
    <3> QED BY <3>1, LeastNat
  <2>2. j \in Unseen(walk)
    <3> SUFFICES ASSUME NEW m \in 1..(j - 1), walk[m].real = walk[j].real PROVE FALSE
      BY <1>1 DEF Unseen
    <3>1. m \in same
      BY <1>1
    <3> QED BY <2>1, <3>1
  <2>3. j \in Elements(firsts)
    BY <1>4, <1>5, <2>2
  <2>4. PICK k \in 1..Len(firsts) : firsts[k] = j
    BY <2>3 DEF Elements
  <2> QED BY <1>7, <2>4
<1>12. {plan0[k].real : k \in DOMAIN plan0} = {f.real : f \in Elements(walk)}
  <2>1. ASSUME NEW f \in Elements(walk) PROVE f.real \in {plan0[k].real : k \in DOMAIN plan0}
    <3>1. PICK i \in 1..Len(walk) : f = walk[i]
      BY DEF Elements
    <3>2. PICK k \in 1..Len(firsts) : plan0[k].real = walk[i].real
      BY <1>11
    <3> QED BY <1>7, <3>1, <3>2
  <2> QED BY <1>7, <1>10, <2>1
<1>13. \A i, j \in DOMAIN plan0 : plan0[i].real = plan0[j].real => i = j
  BY <1>7, <1>9
<1>14. Plan(sources) \in Seq(F)
  BY <1>2, <1>7, Zenon
<1>15. \A i, j \in DOMAIN Plan(sources) : Plan(sources)[i].real = Plan(sources)[j].real => i = j
  BY <1>2, <1>13, Zenon
<1>16. {Plan(sources)[i].real : i \in DOMAIN Plan(sources)} = {f.real : f \in Elements(Walk(sources))}
  BY <1>2, <1>12, Zenon
<1> QED BY <1>14, <1>15, <1>16, Zenon
-----------------------------------------------------------------------------
(* The command line: the invariant *)

\* Where an entry of the plan goes, and what is written there.
Output(entry) == <<entry.out, entry.real>>

\* A plan was made from sound arguments, and no two of its outputs collide.
Planned ==
  /\ args \in Seq(Sources)
  /\ plan \in Seq(Elements(plan))
  /\ plan # <<>> => /\ plan = Plan(args) /\ ~Collide(plan)
                    /\ \A i \in DOMAIN args : WellFormed(args[i])
  /\ pc = "batch" => plan # <<>>
  /\ pc = "start" => plan = <<>>

\* Each turn of the loop wrote an output or recorded a failure.
Looped ==
  /\ at \in 1..(Len(plan) + 1)
  /\ written \in Seq({Output(e) : e \in Elements(plan)})
  /\ failed \in Seq(Elements(plan))
  /\ Len(written) + Len(failed) = at - 1
  /\ \A k \in 1..Len(written) : \E i \in 1..(at - 1) : written[k] = Output(plan[i])
  /\ failed = <<>> => \A k \in 1..Len(written) : written[k] = Output(plan[k])
  /\ failFast => failed = <<>>

\* How the run ends.
Ended ==
  /\ pc \in {"start", "batch", "done", "raised"}
  /\ code \in 0..7
  /\ summary = None \/ summary \in [converted : Nat, total : Nat, failed : Nat]
  /\ (plan # <<>> /\ pc = "done") =>
       \/ code = 0 /\ at = Len(plan) + 1 /\ failed = <<>>
       \/ /\ code = 1 /\ at = Len(plan) + 1 /\ failed # <<>>
          /\ summary = [converted |-> Len(written), total |-> Len(plan), failed |-> Len(failed)]
       \/ code >= 2 /\ failFast /\ failed = <<>> /\ at <= Len(plan)
  /\ pc \in {"start", "batch"} => code = 0

BatchInv == Planned /\ Looped /\ NoOverwrite /\ Ended

\* At the start nothing is planned or done.
LEMMA InitBatch == Init => BatchInv
<1> SUFFICES ASSUME Init PROVE BatchInv
  OBVIOUS
<1>1. args \in Seq(Sources)
  <2>1. PICK n \in 0..MaxArgs : args \in [1..n -> Sources]
    BY DEF Init
  <2> QED BY <2>1, CliAssumption
<1>2. plan = <<>> /\ written = <<>> /\ failed = <<>> /\ at = 1 /\ pc = "start"
      /\ code = 0 /\ summary = None
  BY DEF Init
<1>3. Planned
  BY <1>1, <1>2 DEF Planned
<1>4. Looped
  BY <1>2 DEF Looped
<1>5. NoOverwrite
  BY <1>2 DEF NoOverwrite
<1>6. Ended
  BY <1>2 DEF Ended
<1> QED BY <1>3, <1>4, <1>5, <1>6 DEF BatchInv

\* An exit changes nothing but the program counter and the code.
LEMMA ExitBatch ==
  ASSUME BatchInv, NEW status \in 0..7, Exit(status),
         plan # <<>> => status >= 2 /\ failFast /\ failed = <<>> /\ at <= Len(plan)
  PROVE  BatchInv'
<1>1. /\ UNCHANGED <<args, failFast, plan, at, written, failed, summary>>
      /\ pc' = "done" /\ code' = status
  BY DEF Exit, options
<1>2. Planned'
  BY <1>1 DEF BatchInv, Planned, Collide
<1>3. Looped' /\ NoOverwrite'
  BY <1>1 DEF BatchInv, Looped, NoOverwrite
<1>4. Ended'
  BY <1>1 DEF BatchInv, Ended, None
<1> QED BY <1>2, <1>3, <1>4 DEF BatchInv

\* An exception that leaves main() changes nothing but the program counter and
\* the status of the process.
LEMMA RaiseBatch ==
  ASSUME BatchInv, pc' = "raised", code' = Raised,
         UNCHANGED <<options, plan, at, written, failed, summary>>
  PROVE  BatchInv'
<1>1. /\ UNCHANGED <<args, failFast, plan, at, written, failed, summary>>
      /\ pc' = "raised" /\ code' = 1
  BY DEF options, Raised
<1>2. Planned'
  BY <1>1 DEF BatchInv, Planned, Collide
<1>3. Looped' /\ NoOverwrite'
  BY <1>1 DEF BatchInv, Looped, NoOverwrite
<1>4. Ended'
  BY <1>1 DEF BatchInv, Ended, None
<1> QED BY <1>2, <1>3, <1>4 DEF BatchInv

\* The batch begins with a plan whose outputs do not collide.
LEMMA StartBatchKeeps ==
  ASSUME BatchInv, StartBatch
  PROVE  BatchInv'
<1>1. plan = <<>> /\ pc = "start"
  BY DEF BatchInv, Planned, StartBatch
<1>2. CASE Exit(2)
  BY <1>1, <1>2, ExitBatch
<1>3. CASE ~Exit(2)
  <2> DEFINE files == UNION {Contents(args[i]) : i \in 1..Len(args)}
  <2>1. /\ plan' = Plan(args) /\ Plan(args) # <<>> /\ ~Collide(Plan(args))
        /\ \A i \in DOMAIN args : WellFormed(args[i])
        /\ UNCHANGED <<args, failFast, at, written, failed, summary, code>> /\ pc' = "batch"
    BY <1>3 DEF StartBatch, options
  <2>2. args \in Seq(Sources)
    BY DEF BatchInv, Planned
  <2>3. Walk(args) \in Seq(files)
    BY <2>1, <2>2, WalkReached
  <2>4. Plan(args) \in Seq(files)
    BY <2>3, PlanTakesOnce
  <2> HIDE DEF files
  <2>5. plan' \in Seq(files) /\ plan' \in Seq(Elements(plan'))
    BY <2>1, <2>4 DEF Elements
  <2>6. written = <<>> /\ failed = <<>> /\ at = 1
    <3>1. at \in 1..(Len(plan) + 1) /\ Len(plan) = 0 /\ Len(written) + Len(failed) = at - 1
      BY <1>1 DEF BatchInv, Looped
    <3>2. /\ written \in Seq({Output(e) : e \in Elements(plan)})
          /\ failed \in Seq(Elements(plan))
      BY DEF BatchInv, Looped
    <3>3. at = 1 /\ Len(written) = 0 /\ Len(failed) = 0
      BY <3>1, <3>2
    <3> QED BY <3>2, <3>3
  <2>7. Planned'
    BY <2>1, <2>2, <2>5 DEF Planned, Collide
  <2>8. Looped'
    BY <2>1, <2>5, <2>6 DEF Looped
  <2>9. NoOverwrite'
    BY <2>1, <2>6 DEF NoOverwrite
  <2>10. Ended'
    BY <1>1, <2>1 DEF BatchInv, Ended, None
  <2> QED BY <2>7, <2>8, <2>9, <2>10 DEF BatchInv
<1> QED BY <1>2, <1>3

\* A conversion writes where no earlier one wrote.
LEMMA ConvertKeeps ==
  ASSUME BatchInv, Convert
  PROVE  BatchInv'
<1>1. /\ pc = "batch" /\ at <= Len(plan) /\ at' = at + 1
      /\ written' = Append(written, Output(plan[at]))
      /\ UNCHANGED <<args, failFast, pc, plan, failed, summary, code>>
  BY DEF Convert, InLoop, options, Output
<1>2. plan # <<>> /\ ~Collide(plan) /\ plan \in Seq(Elements(plan))
  BY <1>1 DEF BatchInv, Planned
<1> DEFINE outputs == {Output(e) : e \in Elements(plan)}
           n == Len(written)
<1>3. /\ at \in 1..Len(plan) /\ Len(plan) \in Nat
      /\ written \in Seq(outputs) /\ failed \in Seq(Elements(plan))
      /\ n \in Nat /\ Len(failed) \in Nat
      /\ n + Len(failed) = at - 1
      /\ \A k \in 1..n : \E i \in 1..(at - 1) : written[k] = Output(plan[i])
      /\ failed = <<>> => \A k \in 1..n : written[k] = Output(plan[k])
      /\ failFast => failed = <<>>
  <2>1. /\ at \in 1..(Len(plan) + 1) /\ written \in Seq(outputs) /\ failed \in Seq(Elements(plan))
        /\ n + Len(failed) = at - 1
    BY DEF BatchInv, Looped
  <2>2. Len(plan) \in Nat /\ n \in Nat /\ Len(failed) \in Nat
    BY <1>2, <2>1
  <2> QED BY <1>1, <2>1, <2>2 DEF BatchInv, Looped
<1>4. Output(plan[at]) \in outputs
  BY <1>3 DEF Elements
<1> HIDE DEF outputs
<1>5. /\ written' \in Seq(outputs) /\ Len(written') = n + 1 /\ written'[n + 1] = Output(plan[at])
      /\ \A k \in 1..n : written'[k] = written[k]
  BY <1>1, <1>3, <1>4
<1> HIDE DEF n
<1>6. ASSUME NEW k \in 1..(n + 1)
      PROVE  \E i \in 1..at : written'[k] = Output(plan[i])
  <2>1. CASE k = n + 1
    BY <1>3, <1>5, <2>1
  <2>2. CASE k \in 1..n
    <3>1. PICK i \in 1..(at - 1) : written[k] = Output(plan[i])
      BY <1>3, <2>2
    <3>2. i \in 1..at
      BY <1>3
    <3> QED BY <1>5, <2>2, <3>1, <3>2
  <2> QED BY <1>3, <2>1, <2>2
<1>7. failed = <<>> => \A k \in 1..(n + 1) : written'[k] = Output(plan[k])
  <2> SUFFICES ASSUME failed = <<>>, NEW k \in 1..(n + 1) PROVE written'[k] = Output(plan[k])
    OBVIOUS
  <2>1. n + 1 = at
    BY <1>3
  <2>2. CASE k = n + 1
    BY <1>5, <2>1, <2>2
  <2>3. CASE k \in 1..n
    BY <1>3, <1>5, <2>3
  <2> QED BY <1>3, <2>2, <2>3
<1>8. Planned'
  BY <1>1 DEF BatchInv, Planned, Collide
<1>9. Looped'
  <2>1. at' \in 1..(Len(plan) + 1) /\ at' - 1 = at
    BY <1>1, <1>3
  <2>2. Len(written') + Len(failed) = at' - 1
    <3>1. n \in Nat /\ Len(failed) \in Nat /\ at \in Nat /\ n + Len(failed) = at - 1
      BY <1>3
    <3>2. Len(written') = n + 1
      BY <1>5
    <3>3. at' = at + 1
      BY <1>1
    <3>4. ASSUME NEW a \in Nat, NEW b \in Nat, NEW c \in Nat, a + b = c - 1
          PROVE  (a + 1) + b = (c + 1) - 1
      BY <3>4
    <3> QED BY <3>1, <3>2, <3>3, <3>4
  <2>3. written' \in Seq({Output(e) : e \in Elements(plan)})
    BY <1>5 DEF outputs
  <2>4. \A k \in 1..Len(written') : \E i \in 1..(at' - 1) : written'[k] = Output(plan[i])
    BY <1>5, <1>6, <2>1
  <2>5. failed = <<>> => \A k \in 1..Len(written') : written'[k] = Output(plan[k])
    BY <1>5, <1>7
  <2>6. failed \in Seq(Elements(plan)) /\ (failFast => failed = <<>>)
    BY <1>3
  <2> QED BY <1>1, <2>1, <2>2, <2>3, <2>4, <2>5, <2>6 DEF Looped
<1>10. ASSUME NEW k \in 1..n PROVE written'[k][1] # written'[n + 1][1]
  <2>1. PICK i \in 1..(at - 1) : written[k] = Output(plan[i])
    BY <1>3
  <2>2. i \in DOMAIN plan /\ at \in DOMAIN plan /\ i # at
    BY <1>2, <1>3
  <2>3. plan[i].out # plan[at].out
    BY <1>2, <2>2 DEF Collide
  <2>4. Output(plan[i])[1] = plan[i].out /\ Output(plan[at])[1] = plan[at].out
    BY DEF Output
  <2> QED BY <1>5, <2>1, <2>3, <2>4
<1>11. NoOverwrite'
  <2>1. DOMAIN written' = 1..(n + 1) /\ DOMAIN written = 1..n
    BY <1>3, <1>5 DEF n
  <2>2. \A i, j \in 1..n : written[i][1] = written[j][1] => i = j
    BY <2>1 DEF BatchInv, NoOverwrite
  <2> SUFFICES ASSUME NEW i \in 1..(n + 1), NEW j \in 1..(n + 1), written'[i][1] = written'[j][1]
               PROVE  i = j
    BY <2>1 DEF NoOverwrite
  <2>3. CASE i \in 1..n /\ j \in 1..n
    BY <1>5, <2>2, <2>3
  <2>4. CASE i \in 1..n /\ j = n + 1
    BY <1>10, <2>4
  <2>5. CASE i = n + 1 /\ j \in 1..n
    BY <1>10, <2>5
  <2>6. CASE i = n + 1 /\ j = n + 1
    BY <2>6
  <2> QED BY <1>3, <2>3, <2>4, <2>5, <2>6
<1>12. Ended'
  BY <1>1 DEF BatchInv, Ended, None
<1> QED BY <1>8, <1>9, <1>11, <1>12 DEF BatchInv

\* A failure is recorded, or ends the run.
LEMMA FailKeeps ==
  ASSUME BatchInv, Fail
  PROVE  BatchInv'
<1>1. pc = "batch" /\ at <= Len(plan) /\ plan # <<>> /\ plan \in Seq(Elements(plan))
  BY DEF Fail, InLoop, BatchInv, Planned
<1>2. CASE failFast
  <2>1. PICK f \in Failures : Exit(ExitCode[f])
    BY <1>2 DEF Fail
  <2>2. ExitCode[f] \in 2..7
    BY DEF Failures, ExitCode
  <2>3. failed = <<>>
    BY <1>2 DEF BatchInv, Looped
  <2> HIDE DEF Failures, ExitCode
  <2>4. ExitCode[f] \in 0..7 /\ ExitCode[f] >= 2
    BY <2>2
  <2> QED BY <1>1, <1>2, <2>1, <2>3, <2>4, ExitBatch
<1>3. CASE ~failFast
  <2>1. /\ failed' = Append(failed, plan[at]) /\ at' = at + 1
        /\ UNCHANGED <<args, failFast, pc, plan, written, summary, code>>
    BY <1>3 DEF Fail, options
  <2>2. /\ at \in 1..Len(plan) /\ Len(plan) \in Nat
        /\ written \in Seq({Output(e) : e \in Elements(plan)}) /\ failed \in Seq(Elements(plan))
        /\ Len(written) \in Nat /\ Len(failed) \in Nat
        /\ Len(written) + Len(failed) = at - 1
        /\ \A k \in 1..Len(written) : \E i \in 1..(at - 1) : written[k] = Output(plan[i])
    <3>1. /\ at \in 1..(Len(plan) + 1) /\ failed \in Seq(Elements(plan))
          /\ written \in Seq({Output(e) : e \in Elements(plan)})
          /\ Len(written) + Len(failed) = at - 1
      BY DEF BatchInv, Looped
    <3>2. Len(plan) \in Nat /\ Len(written) \in Nat /\ Len(failed) \in Nat
      BY <1>1, <3>1
    <3> QED BY <1>1, <3>1, <3>2 DEF BatchInv, Looped
  <2>3. plan[at] \in Elements(plan)
    BY <2>2 DEF Elements
  <2>4. failed' \in Seq(Elements(plan)) /\ Len(failed') = Len(failed) + 1 /\ failed' # <<>>
    BY <2>1, <2>2, <2>3
  <2>5. Planned'
    BY <2>1 DEF BatchInv, Planned, Collide
  <2>6. ASSUME NEW k \in 1..Len(written) PROVE \E i \in 1..at : written[k] = Output(plan[i])
    <3>1. PICK i \in 1..(at - 1) : written[k] = Output(plan[i])
      BY <2>2
    <3>2. i \in 1..at
      BY <2>2
    <3> QED BY <3>1, <3>2
  <2>7. at' \in 1..(Len(plan) + 1) /\ at' - 1 = at /\ Len(written) + Len(failed') = at' - 1
    BY <2>1, <2>2, <2>4
  <2>8. Looped'
    BY <1>3, <2>1, <2>2, <2>4, <2>6, <2>7 DEF Looped
  <2>9. NoOverwrite'
    BY <2>1 DEF BatchInv, NoOverwrite
  <2>10. Ended'
    BY <1>1, <2>1 DEF BatchInv, Ended, None
  <2> QED BY <2>5, <2>8, <2>9, <2>10 DEF BatchInv
<1> QED BY <1>2, <1>3

\* The summary counts what was written and what failed.
LEMMA SummariseKeeps ==
  ASSUME BatchInv, Summarise
  PROVE  BatchInv'
<1>1. /\ pc = "batch" /\ at > Len(plan) /\ pc' = "done"
      /\ summary' = [converted |-> Len(written), total |-> Len(plan), failed |-> Len(failed)]
      /\ code' = IF failed = <<>> THEN 0 ELSE 1
      /\ UNCHANGED <<args, failFast, plan, at, written, failed>>
  BY DEF Summarise, options
<1>2. Planned'
  BY <1>1 DEF BatchInv, Planned, Collide
<1>3. Looped' /\ NoOverwrite'
  BY <1>1 DEF BatchInv, Looped, NoOverwrite
<1>4. Len(plan) \in Nat /\ Len(written) \in Nat /\ Len(failed) \in Nat /\ at = Len(plan) + 1
  <2>1. /\ plan \in Seq(Elements(plan)) /\ failed \in Seq(Elements(plan))
        /\ written \in Seq({Output(e) : e \in Elements(plan)})
        /\ at \in 1..(Len(plan) + 1)
    BY DEF BatchInv, Planned, Looped
  <2>2. Len(plan) \in Nat /\ Len(written) \in Nat /\ Len(failed) \in Nat
    BY <2>1
  <2> QED BY <1>1, <2>1, <2>2
<1>5. Ended'
  BY <1>1, <1>4 DEF Ended
<1> QED BY <1>2, <1>3, <1>5 DEF BatchInv

\* The invariant holds of every reachable state.
LEMMA Batching == Spec => []BatchInv
<1>1. BatchInv /\ [Next]_vars => BatchInv'
  <2> SUFFICES ASSUME BatchInv, [Next]_vars PROVE BatchInv'
    OBVIOUS
  <2>1. ASSUME pc = "start" PROVE plan = <<>>
    BY <2>1 DEF BatchInv, Planned
  <2>2. CASE BadConfig
    <3>1. PICK status \in {2, 5, 6} : Exit(status)
      BY <2>2 DEF BadConfig
    <3>2. status \in 0..7 /\ plan = <<>>
      BY <2>1, <2>2 DEF BadConfig
    <3> QED BY <3>1, <3>2, ExitBatch
  <2>3. CASE BadSource
    <3>1. Exit(2) /\ plan = <<>>
      BY <2>1, <2>3 DEF BadSource
    <3> QED BY <3>1, ExitBatch
  <2>4. CASE ConvertOne
    <3>1. plan = <<>>
      BY <2>1, <2>4 DEF ConvertOne
    <3>2. CASE Exit(0)
      BY <3>1, <3>2, ExitBatch
    <3>3. ASSUME NEW f \in Failures, Exit(ExitCode[f]) PROVE BatchInv'
      <4>1. ExitCode[f] \in 0..7
        BY DEF Failures, ExitCode
      <4> QED BY <3>1, <3>3, <4>1, ExitBatch
    <3>4. CASE /\ pc' = "raised" /\ code' = Raised
               /\ UNCHANGED <<options, plan, at, written, failed, summary>>
      BY <3>4, RaiseBatch
    <3> QED BY <2>4, <3>2, <3>3, <3>4 DEF ConvertOne
  <2>5. CASE StartBatch
    BY <2>5, StartBatchKeeps
  <2>6. CASE Convert
    BY <2>6, ConvertKeeps
  <2>7. CASE Fail
    BY <2>7, FailKeeps
  <2>8. CASE WriteFails
    BY <2>8, RaiseBatch DEF WriteFails
  <2>9. CASE Summarise
    BY <2>9, SummariseKeeps
  <2>10. CASE UNCHANGED vars
    <3>1. UNCHANGED <<args, failFast, pc, plan, at, written, failed, summary, code>>
      BY <2>10 DEF vars, options
    <3>2. Planned'
      BY <3>1 DEF BatchInv, Planned, Collide
    <3>3. Looped' /\ NoOverwrite' /\ Ended'
      BY <3>1 DEF BatchInv, Looped, NoOverwrite, Ended, None
    <3> QED BY <3>2, <3>3 DEF BatchInv
  <2> QED BY <2>2, <2>3, <2>4, <2>5, <2>6, <2>7, <2>8, <2>9, <2>10 DEF Next
<1> QED BY <1>1, InitBatch, PTL DEF Spec

-----------------------------------------------------------------------------
(* The command line: the theorems *)

\* cli.py, _detect_collisions() and the loop of _run_batch(): in no run does an
\* output overwrite another.
THEOREM OutputsKept == Spec => []NoOverwrite
<1>1. BatchInv => NoOverwrite
  BY DEF BatchInv
<1> QED BY <1>1, Batching, PTL

\* cli.py, _plan_batch(): the inputs of a batch are exactly the files its
\* arguments reach, each of them once; no link is followed unless it is itself
\* an argument.
THEOREM InputsTakenOnce == Spec => []InputsOnce
<1>1. BatchInv => InputsOnce
  <2> SUFFICES ASSUME BatchInv, pc = "batch" PROVE InputsOnce
    BY DEF InputsOnce
  <2> DEFINE files == UNION {Contents(args[i]) : i \in 1..Len(args)}
             reals == UNION {IF s.kind = "file" THEN {s.file.real}
                             ELSE {f.real : f \in {g \in ToSet(s.files) : g.format \in Formats /\ ~g.link}}
                             : s \in ToSet(args)}
  <2>1. /\ plan = Plan(args) /\ args \in Seq(Sources)
        /\ \A i \in DOMAIN args : WellFormed(args[i])
    BY DEF BatchInv, Planned
  <2>2. Walk(args) \in Seq(files) /\ Elements(Walk(args)) = files
    BY <2>1, WalkReached
  <2>3. reals = {f.real : f \in files}
    <3>1. ToSet(args) = {args[i] : i \in 1..Len(args)}
      BY <2>1 DEF ToSet
    <3>2. ASSUME NEW s
          PROVE  (IF s.kind = "file" THEN {s.file.real}
                  ELSE {f.real : f \in {g \in ToSet(s.files) : g.format \in Formats /\ ~g.link}})
                    = {f.real : f \in Contents(s)}
      BY DEF Contents
    <3>3. reals = UNION {{f.real : f \in Contents(s)} : s \in ToSet(args)}
      BY <3>2
    <3> HIDE DEF reals
    <3> QED BY <3>1, <3>3
  <2> HIDE DEF files, reals
  <2>4. /\ \A i, j \in DOMAIN plan : plan[i].real = plan[j].real => i = j
        /\ {plan[i].real : i \in DOMAIN plan} = {f.real : f \in files}
    BY <2>1, <2>2, PlanTakesOnce
  <2>5. {plan[i].real : i \in DOMAIN plan} = reals
    BY <2>3, <2>4
  <2> QED BY <2>4, <2>5 DEF InputsOnce, reals
<1> QED BY <1>1, Batching, PTL

\* cli.py, _run_batch(): the types of the state, the accounting of the loop,
\* and what each exit code says of the outputs.
THEOREM ExitCodesTrue == Spec => []ExitTellsTruth
<1>1. BatchInv => ExitTellsTruth
  <2> SUFFICES ASSUME BatchInv PROVE ExitTellsTruth
    OBVIOUS
  <2>1. TypeOK
    BY DEF BatchInv, Looped, Ended, TypeOK
  <2>2. /\ plan \in Seq(Elements(plan)) /\ Len(plan) \in Nat /\ DOMAIN plan = 1..Len(plan)
        /\ written \in Seq({Output(e) : e \in Elements(plan)}) /\ Len(written) \in Nat
        /\ DOMAIN written = 1..Len(written)
        /\ failed \in Seq(Elements(plan)) /\ Len(failed) \in Nat
        /\ Len(written) + Len(failed) = at - 1 /\ at \in Nat
    <3>1. /\ plan \in Seq(Elements(plan)) /\ failed \in Seq(Elements(plan))
          /\ written \in Seq({Output(e) : e \in Elements(plan)})
          /\ Len(written) + Len(failed) = at - 1 /\ at \in 1..(Len(plan) + 1)
      BY DEF BatchInv, Planned, Looped
    <3>2. Len(plan) \in Nat
      BY <3>1
    <3> QED BY <3>1, <3>2
  <2> SUFFICES ASSUME plan # <<>>, pc = "done"
               PROVE  /\ code = 0 =>
                           ToSet(written) = {<<plan[i].out, plan[i].real>> : i \in DOMAIN plan}
                      /\ code = 1 => /\ Len(written) < Len(plan)
                                     /\ summary.converted + summary.failed = summary.total
                      /\ code >= 2 => failFast /\ failed = <<>> /\ Len(written) < Len(plan)
    BY <2>1 DEF ExitTellsTruth
  <2>3. \/ code = 0 /\ at = Len(plan) + 1 /\ failed = <<>>
        \/ /\ code = 1 /\ at = Len(plan) + 1 /\ failed # <<>>
           /\ summary = [converted |-> Len(written), total |-> Len(plan), failed |-> Len(failed)]
        \/ code >= 2 /\ failFast /\ failed = <<>> /\ at <= Len(plan)
    BY DEF BatchInv, Ended
  <2>4. ASSUME code = 0
        PROVE  ToSet(written) = {<<plan[i].out, plan[i].real>> : i \in DOMAIN plan}
    <3>0. at = Len(plan) + 1 /\ failed = <<>>
      BY <2>3, <2>4
    <3>1. failed = <<>> /\ Len(written) = Len(plan)
      <4>1. Len(failed) = 0
        BY <3>0
      <4>2. Len(written) + Len(failed) = at - 1 /\ Len(written) \in Nat /\ Len(plan) \in Nat
        BY <2>2
      <4> QED BY <3>0, <4>1, <4>2
    <3>2. \A k \in 1..Len(plan) : written[k] = <<plan[k].out, plan[k].real>>
      BY <3>1 DEF BatchInv, Looped, Output
    <3> QED BY <2>2, <3>1, <3>2 DEF ToSet
  <2>5. ASSUME code = 1
        PROVE  /\ Len(written) < Len(plan)
               /\ summary.converted + summary.failed = summary.total
    <3>1. /\ at = Len(plan) + 1 /\ failed # <<>>
          /\ summary.converted = Len(written) /\ summary.failed = Len(failed)
          /\ summary.total = Len(plan)
      BY <2>3, <2>5
    <3>2. Len(failed) # 0
      BY <2>2, <3>1
    <3>3. /\ Len(written) \in Nat /\ Len(failed) \in Nat /\ Len(plan) \in Nat
          /\ Len(written) + Len(failed) = at - 1
      BY <2>2
    <3>4. Len(written) + Len(failed) = Len(plan)
      BY <3>1, <3>3
    <3> QED BY <3>1, <3>2, <3>3, <3>4
  <2>6. ASSUME code >= 2
        PROVE  failFast /\ failed = <<>> /\ Len(written) < Len(plan)
    <3>1. failFast /\ failed = <<>> /\ at <= Len(plan)
      BY <2>3, <2>6
    <3> QED BY <2>2, <3>1
  <2> QED BY <2>4, <2>5, <2>6
<1> QED BY <1>1, Batching, PTL

-----------------------------------------------------------------------------
(* Workbooks: the caches *)

\* A cache has a count, and its points are a sequence of that length.
LEMMA PointsType ==
  ASSUME NEW cache, IsCache(cache)
  PROVE  /\ DOMAIN Points(cache) = 1..Len(Points(cache))
         /\ Len(Points(cache)) \in Nat
         /\ Points(cache) \in Seq(Range(Points(cache)))
         /\ cache # NoCache => /\ PtCount(cache) \in Int
                               /\ \A i \in DOMAIN Points(cache) : i \in 1..PtCount(cache)
<1>1. CASE cache = NoCache
  <2>1. Points(cache) = <<>>
    BY <1>1 DEF Points
  <2> QED BY <1>1, <2>1
<1>2. CASE cache # NoCache
  <2>1. /\ cache.count \in Int \cup {NoCount}
        /\ cache.pts \in Seq(Range(cache.pts))
        /\ \A k \in DOMAIN cache.pts : cache.pts[k].idx \in Int \cup {Bad}
    BY <1>2 DEF IsCache, IsSequence, Range
  <2>2. DOMAIN cache.pts = 1..Len(cache.pts) /\ Len(cache.pts) \in Nat
    BY <2>1
  <2>3. Indices(cache) \subseteq Int
    BY <2>1 DEF Indices
  <2>4. IsFiniteSet(Indices(cache))
    <3> DEFINE g == [k \in DOMAIN cache.pts |-> cache.pts[k].idx]
               all == {g[k] : k \in 1..Len(cache.pts)}
    <3>1. Indices(cache) \in SUBSET all
      BY <2>2 DEF Indices
    <3>2. IsFiniteSet(all)
      <4> HIDE DEF g
      <4> QED BY <2>2, FiniteValues
    <3> HIDE DEF all
    <3> QED BY <3>1, <3>2, FS_Subset
  <2>5. PtCount(cache) \in Int
    <3>1. CASE cache.count # NoCount
      BY <2>1, <3>1 DEF PtCount
    <3>2. CASE cache.count = NoCount /\ Indices(cache) = {}
      BY <3>2 DEF PtCount
    <3>3. CASE cache.count = NoCount /\ Indices(cache) # {}
      <4>1. Max(Indices(cache)) \in Int
        BY <2>3, <2>4, <3>3, MaxOfInts
      <4>2. PtCount(cache) = Max(Indices(cache)) + 1
        BY <3>3 DEF PtCount
      <4> QED BY <4>1, <4>2
    <3> QED BY <3>1, <3>2, <3>3
  <2>6. Points(cache) = Materialize(cache)
    BY <1>2 DEF Points
  <2> DEFINE c == PtCount(cache)
             value(i) == IF Writers(cache, i - 1) = {} THEN Gap
                         ELSE cache.pts[Max(Writers(cache, i - 1))].v
             t == [i \in 1..c |-> value(i)]
  <2>7. Materialize(cache) = t
    BY DEF Materialize
  <2> HIDE DEF value, c
  <2>8. c \in Int
    BY <2>5 DEF c
  <2>9. /\ DOMAIN t = 1..Len(t) /\ Len(t) \in Nat /\ \A i \in DOMAIN t : i \in 1..c
        /\ t \in Seq(Range(t))
    <3> DEFINE m == IF c < 0 THEN 0 ELSE c
    <3>1. 1..c = 1..m /\ m \in Nat
      BY <2>8
    <3>2. t = [i \in 1..m |-> value(i)]
      BY <3>1
    <3> HIDE DEF m
    <3>3. DOMAIN t = 1..m /\ \A i \in 1..m : t[i] \in Range(t)
      BY <3>2 DEF Range
    <3>4. t \in Seq(Range(t)) /\ Len(t) = m
      <4>1. t = [i \in 1..m |-> t[i]]
        BY <3>2
      <4> HIDE DEF t
      <4> QED BY <3>1, <3>3, <4>1
    <3> QED BY <3>1, <3>3, <3>4
  <2> HIDE DEF t
  <2>10. Points(cache) = t
    BY <2>6, <2>7
  <2> QED BY <1>2, <2>5, <2>9, <2>10 DEF c
<1> QED BY <1>1, <1>2

\* Of each place, the points have the value in force there, and no other.
LEMMA PointInForce ==
  ASSUME NEW cache, IsCache(cache), NEW i \in Nat \ {0}
  PROVE  {Cell(Points(cache), i)} \ {Gap} = AtPlace(cache, i) \ {Gap}
<1> DEFINE points == Points(cache)
           writers == Writers(cache, i - 1)
           forced == {n \in DOMAIN cache.pts : InForce(cache, n) /\ cache.pts[n].idx = i - 1}
<1>1. CASE cache = NoCache
  <2>1. points = <<>> /\ AtPlace(cache, i) = {}
    BY <1>1 DEF Points, AtPlace
  <2>2. Len(points) = 0
    BY <2>1
  <2> HIDE DEF points
  <2>3. Cell(points, i) = Gap
    BY <2>2 DEF Cell
  <2> QED BY <2>1, <2>3 DEF points
<1>2. CASE cache # NoCache
  <2>1. /\ cache.pts \in Seq(Range(cache.pts))
        /\ DOMAIN cache.pts = 1..Len(cache.pts) /\ Len(cache.pts) \in Nat
    BY <1>2 DEF IsCache, IsSequence
  <2>2. /\ PtCount(cache) \in Int
        /\ DOMAIN points = 1..Len(points) /\ Len(points) \in Nat
    BY <1>2, PointsType
  <2>3. /\ DOMAIN points = 1..PtCount(cache)
        /\ i \in 1..PtCount(cache) =>
             points[i] = IF writers = {} THEN Gap ELSE cache.pts[Max(writers)].v
    BY <1>2 DEF Points, Materialize
  <2>4. AtPlace(cache, i) = {cache.pts[n].v : n \in forced}
    BY <1>2 DEF AtPlace
  <2>5. forced \subseteq writers /\ (forced # {} => i \in 1..PtCount(cache))
    BY <2>2 DEF InForce, Writers
  <2> HIDE DEF points, forced
  <2>6. Cell(points, i) = IF i \in DOMAIN points THEN points[i] ELSE Gap
    BY <2>2 DEF Cell
  <2>7. CASE i \notin DOMAIN points \/ writers = {}
    <3>1. Cell(points, i) = Gap
      BY <2>3, <2>6, <2>7
    <3>2. forced = {}
      BY <2>3, <2>5, <2>7
    <3> QED BY <2>4, <3>1, <3>2 DEF points
  <2>8. CASE i \in DOMAIN points /\ writers # {}
    <3>1. writers \in SUBSET Int /\ IsFiniteSet(writers)
      <4>1. writers \in SUBSET (1..Len(cache.pts)) /\ 1..Len(cache.pts) \subseteq Int
        BY <2>1 DEF Writers
      <4>2. IsFiniteSet(1..Len(cache.pts))
        BY <2>1, FS_Interval
      <4> HIDE DEF writers
      <4> QED BY <4>1, <4>2, FS_Subset
    <3> DEFINE k == Max(writers)
    <3>2. k \in writers /\ \A n \in writers : n <= k
      <4> HIDE DEF writers
      <4> QED BY <2>8, <3>1, MaxOfInts
    <3>3. k \in DOMAIN cache.pts /\ k \in Int /\ cache.pts[k].idx = i - 1
      BY <2>1, <3>2 DEF Writers
    <3>4. Cell(points, i) = cache.pts[k].v
      BY <2>3, <2>6, <2>8
    <3> HIDE DEF k
    <3>5. ASSUME NEW n \in DOMAIN cache.pts, n > k PROVE cache.pts[n].idx # cache.pts[k].idx
      <4>1. n \in Int /\ ~(n <= k)
        BY <2>1, <3>3, <3>5
      <4>2. n \notin writers
        BY <3>2, <4>1
      <4> QED BY <3>3, <4>2 DEF Writers
    <3>6. i - 1 \in 0..(PtCount(cache) - 1) /\ i - 1 # Bad
      BY <2>2, <2>3, <2>8, BadIsNoIndex
    <3>7. k \in forced
      BY <3>3, <3>5, <3>6 DEF forced, InForce
    <3>8. ASSUME NEW n \in forced PROVE n = k
      <4>1. n \in writers /\ n \in Int /\ n <= k
        BY <2>5, <3>1, <3>2
      <4>2. ~(k > n)
        BY <3>3, <3>8 DEF forced, InForce
      <4> QED BY <3>3, <4>1, <4>2
    <3>9. forced = {k}
      BY <3>7, <3>8
    <3> QED BY <2>4, <3>4, <3>9 DEF points
  <2> QED BY <2>7, <2>8
<1> QED BY <1>1, <1>2

-----------------------------------------------------------------------------
(* Workbooks: what is shown of a chart *)

\* The series of a chart are a sequence, and their caches are caches.
LEMMA SeriesType ==
  ASSUME NEW chart, IsChart(chart)
  PROVE  /\ AllSeries(chart) \in Seq(Elements(AllSeries(chart)))
         /\ DOMAIN AllSeries(chart) = 1..Len(AllSeries(chart))
         /\ Len(AllSeries(chart)) \in Nat
         /\ \A s \in DOMAIN AllSeries(chart) :
              IsCache(AllSeries(chart)[s].cat) /\ IsCache(AllSeries(chart)[s].val)
<1> DEFINE S == UNION {Range(chart[e].series) : e \in DOMAIN chart}
           ss == [e \in DOMAIN chart |-> chart[e].series]
           all == AllSeries(chart)
<1>1. /\ chart \in Seq(Range(chart))
      /\ \A e \in DOMAIN chart : chart[e].series \in Seq(Range(chart[e].series))
      /\ \A s \in S : IsCache(s.cat) /\ IsCache(s.val)
  BY DEF IsChart, IsSequence
<1>2. DOMAIN chart = 1..Len(chart) /\ Len(chart) \in Nat
  BY <1>1
<1>3. \A e \in DOMAIN chart : chart[e].series \in Seq(S)
  <2> SUFFICES ASSUME NEW e \in DOMAIN chart PROVE chart[e].series \in Seq(S)
    OBVIOUS
  <2>1. Range(chart[e].series) \subseteq S
    OBVIOUS
  <2> HIDE DEF S
  <2> QED BY <1>1, <2>1
<1> HIDE DEF S
<1>4. ss \in Seq(Seq(S))
  BY <1>2, <1>3
<1> HIDE DEF ss
<1>5. FlattenSeq(ss) \in Seq(S)
  BY <1>4, FlattenElements
<1>6. all \in Seq(S)
  BY <1>5 DEF AllSeries, ss
<1> HIDE DEF all
<1>7. DOMAIN all = 1..Len(all) /\ Len(all) \in Nat /\ \A s \in DOMAIN all : all[s] \in S
  BY <1>6
<1>8. all \in Seq(Elements(all))
  BY <1>6 DEF Elements
<1> QED BY <1>1, <1>7, <1>8 DEF all

\* What the table of a chart holds: the cells are the points, a gap where a
\* series has none, and the labels are those of the first series with labels.
LEMMA TableOfPoints ==
  ASSUME NEW chart, IsChart(chart)
  PROVE  LET data == ParseChart(chart)
             all == AllSeries(chart)
             rows == Table(data)
             labelled == {r \in DOMAIN all : Points(all[r].cat) # <<>>}
         IN  /\ DOMAIN rows \subseteq Nat \ {0}
             /\ \A i \in DOMAIN rows :
                  /\ rows[i].cells = [s \in DOMAIN all |-> Cell(Points(all[s].val), i)]
                  /\ labelled # {} => rows[i].label = Points(all[Min(labelled)].cat)[i]
             /\ data.cats # <<>> => DOMAIN rows = DOMAIN data.cats
             /\ data.series = [s \in DOMAIN all |-> Points(all[s].val)]
<1> DEFINE data == ParseChart(chart)
           all == AllSeries(chart)
           labels == RowLabels(data)
           labelled == {r \in DOMAIN all : Points(all[r].cat) # <<>>}
           points == [s \in DOMAIN all |-> Points(all[s].val)]
<1>1. data.cats = Categories(all) /\ data.series = points
  BY DEF ParseChart
<1>2. /\ DOMAIN all = 1..Len(all) /\ Len(all) \in Nat
      /\ \A s \in DOMAIN all : IsCache(all[s].cat) /\ IsCache(all[s].val)
  BY SeriesType
<1>3. Table(data) = [i \in DOMAIN labels |->
         [label |-> labels[i], cells |-> [s \in DOMAIN data.series |-> Cell(data.series[s], i)]]]
  BY DEF Table
<1> DEFINE rows == Table(data)
<1>9. /\ DOMAIN rows = DOMAIN labels
       /\ \A i \in DOMAIN rows :
            /\ rows[i].cells = [s \in DOMAIN all |-> Cell(Points(all[s].val), i)]
            /\ rows[i].label = labels[i]
  <2>1. \A i : [s \in DOMAIN points |-> Cell(points[s], i)]
                = [s \in DOMAIN all |-> Cell(Points(all[s].val), i)]
    OBVIOUS
  <2> HIDE DEF labels, data, all, points
  <2> QED BY <1>1, <1>3, <2>1
<1> DEFINE Goal == /\ DOMAIN rows \subseteq Nat \ {0}
                   /\ \A i \in DOMAIN rows :
                        labelled # {} => rows[i].label = Points(all[Min(labelled)].cat)[i]
                   /\ data.cats # <<>> => DOMAIN rows = DOMAIN data.cats
<1>4. ASSUME labelled # {} PROVE Goal
  <2>1. Min(labelled) \in labelled
    <3>1. labelled \in SUBSET Nat
      BY <1>2
    <3> HIDE DEF labelled, all
    <3> QED BY <1>4, <3>1, MinOfNats
  <2>2. Categories(all) = Points(all[Min(labelled)].cat)
    BY <1>4 DEF Categories
  <2>3. Categories(all) # <<>> /\ DOMAIN Categories(all) \subseteq Nat \ {0}
    <3> DEFINE m == Min(labelled)
    <3>1. m \in DOMAIN all /\ Points(all[m].cat) # <<>>
      BY <2>1
    <3> HIDE DEF m, all, labelled
    <3>2. IsCache(all[m].cat)
      BY <1>2, <3>1
    <3>3. DOMAIN Points(all[m].cat) \subseteq Nat \ {0}
      BY <3>2, PointsType
    <3> QED BY <2>2, <3>1, <3>3 DEF m
  <2>4. labels = Categories(all)
    BY <1>1, <2>3 DEF RowLabels
  <2> HIDE DEF labels, labelled, data, all, rows
  <2> QED BY <1>1, <1>9, <2>2, <2>3, <2>4
<1>5. ASSUME labelled = {} PROVE Goal
  <2>1. Categories(all) = <<>>
    BY <1>5 DEF Categories
  <2> DEFINE lengths == {Len(points[s]) : s \in 1..Len(all)}
             M == Max({0} \cup lengths)
  <2>2. M \in Nat
    <3>1. lengths \in SUBSET Nat
      <4> SUFFICES ASSUME NEW s \in 1..Len(all) PROVE Len(points[s]) \in Nat
        OBVIOUS
      <4> HIDE DEF all
      <4>1. points[s] = Points(all[s].val) /\ IsCache(all[s].val)
        BY <1>2
      <4> QED BY <4>1, PointsType
    <3>2. IsFiniteSet(lengths)
      <4> DEFINE g == [s \in 1..Len(all) |-> Len(points[s])]
      <4>1. lengths = {g[s] : s \in 1..Len(all)}
        OBVIOUS
      <4> HIDE DEF g, lengths, all
      <4> QED BY <1>2, <4>1, FiniteValues
    <3> HIDE DEF lengths, all
    <3>3. IsFiniteSet({0} \cup lengths) /\ {0} \cup lengths \subseteq Int /\ {0} \cup lengths # {}
      <4>1. IsFiniteSet(lengths \cup {0})
        BY <3>2, FS_AddElement
      <4>2. lengths \cup {0} = {0} \cup lengths
        OBVIOUS
      <4> QED BY <3>1, <4>1, <4>2
    <3>4. Max({0} \cup lengths) \in {0} \cup lengths
      BY <3>3, MaxOfInts
    <3>5. {0} \cup lengths \subseteq Nat
      BY <3>1
    <3> QED BY <3>4, <3>5, Zenon
  <2>3. labels = [i \in 1..M |-> i]
    <3>1. {Len(data.series[s]) : s \in DOMAIN data.series} = lengths
      BY <1>1, <1>2
    <3>2. data.cats = <<>>
      BY <1>1, <2>1
    <3> HIDE DEF data, lengths, all
    <3> QED BY <3>1, <3>2 DEF RowLabels
  <2>4. DOMAIN labels \subseteq Nat \ {0}
    <3> HIDE DEF M
    <3> QED BY <2>2, <2>3
  <2> HIDE DEF labels, labelled, data, all, rows
  <2> QED BY <1>1, <1>9, <1>5, <2>1, <2>4
<1>6. Goal
  BY <1>4, <1>5
<1>7. /\ DOMAIN rows \subseteq Nat \ {0}
      /\ \A i \in DOMAIN rows :
           /\ rows[i].cells = [s \in DOMAIN all |-> Cell(Points(all[s].val), i)]
           /\ labelled # {} => rows[i].label = Points(all[Min(labelled)].cat)[i]
      /\ data.cats # <<>> => DOMAIN rows = DOMAIN data.cats
      /\ data.series = points
  <2> HIDE DEF labels, labelled, data, all, rows, points
  <2> QED BY <1>1, <1>9, <1>6
<1> QED BY <1>7, Zenon

\* What ValuesInPlace and DiagramSaysTheTable say of a block with data.
ValuesOf(b) ==
  \A i \in DOMAIN b.shown.rows :
    LET all == SeriesOf(b.part)
        row == b.shown.rows[i]
    IN  /\ \A s \in DOMAIN all : {row.cells[s]} \ {Gap} = AtPlace(all[s].val, i) \ {Gap}
        /\ SharedCategories(all) =>
             \A s \in Labelled(all) : {row.label} \ {Gap} = AtPlace(all[s].cat, i) \ {Gap}

DiagramOf(b) == b.shown.diagram # {} => DiagramTrue(b)

\* The block of a chart shows its values in place.
LEMMA BlockValues ==
  ASSUME NEW chart, IsChart(file.charts[chart.part]), NEW renders, ~Block(chart, renders).marker
  PROVE  ValuesOf(Block(chart, renders))
<1> DEFINE c == file.charts[chart.part]
           b == Block(chart, renders)
           all == AllSeries(c)
           data == ParseChart(c)
           rows == Table(data)
           labelled == {r \in DOMAIN all : Points(all[r].cat) # <<>>}
<1>1. b.part = chart.part /\ SeriesOf(b.part) = all /\ b.shown.rows = rows
  BY DEF Block, RenderChart, SeriesOf
<1>2. /\ DOMAIN rows \subseteq Nat \ {0}
      /\ \A i \in DOMAIN rows :
           /\ rows[i].cells = [s \in DOMAIN all |-> Cell(Points(all[s].val), i)]
           /\ labelled # {} => rows[i].label = Points(all[Min(labelled)].cat)[i]
      /\ data.cats # <<>> => DOMAIN rows = DOMAIN data.cats
  BY TableOfPoints, Zenon
<1>3. /\ DOMAIN all = 1..Len(all) /\ Len(all) \in Nat
      /\ \A s \in DOMAIN all : IsCache(all[s].val) /\ IsCache(all[s].cat)
  BY SeriesType
<1>4. data.cats = Categories(all)
  BY DEF ParseChart
<1> HIDE DEF c, b, all, data, rows
<1>5. ASSUME NEW i \in DOMAIN rows, NEW s \in DOMAIN all
      PROVE  {rows[i].cells[s]} \ {Gap} = AtPlace(all[s].val, i) \ {Gap}
  <2>1. rows[i].cells[s] = Cell(Points(all[s].val), i)
    BY <1>2
  <2> QED BY <1>2, <1>3, <2>1, PointInForce
<1>6. ASSUME SharedCategories(all), NEW s \in Labelled(all), NEW i \in DOMAIN rows
      PROVE  {rows[i].label} \ {Gap} = AtPlace(all[s].cat, i) \ {Gap}
  <2> DEFINE m == Min(labelled)
             p == Points(all[s].cat)
  <2>1. labelled = Labelled(all) /\ s \in labelled
    BY DEF Labelled
  <2>2. m \in labelled
    <3>1. labelled \in SUBSET Nat
      BY <1>3
    <3> HIDE DEF labelled
    <3> QED BY <2>1, <3>1, MinOfNats
  <2>3. Categories(all) = Points(all[m].cat)
    BY <2>1 DEF Categories
  <2>4. rows[i].label = Points(all[m].cat)[i]
    BY <1>2, <2>1
  <2>5. Points(all[m].cat) = p /\ p # <<>> /\ IsCache(all[s].cat)
    BY <1>3, <1>6, <2>1, <2>2 DEF SharedCategories
  <2>6. DOMAIN p = 1..Len(p) /\ Len(p) \in Nat
    BY <2>5, PointsType
  <2> HIDE DEF p, m, labelled
  <2>7. i \in DOMAIN p /\ rows[i].label = p[i]
    BY <1>2, <1>4, <2>3, <2>4, <2>5
  <2>8. rows[i].label = Cell(p, i) /\ i \in Nat \ {0}
    BY <1>2, <2>6, <2>7 DEF Cell
  <2> QED BY <2>5, <2>8, PointInForce DEF p
<1>7. ASSUME NEW i \in DOMAIN b.shown.rows, NEW s \in DOMAIN SeriesOf(b.part)
      PROVE  {b.shown.rows[i].cells[s]} \ {Gap} = AtPlace(SeriesOf(b.part)[s].val, i) \ {Gap}
  BY <1>1, <1>5
<1>8. ASSUME SharedCategories(SeriesOf(b.part)),
             NEW s \in Labelled(SeriesOf(b.part)), NEW i \in DOMAIN b.shown.rows
      PROVE  {b.shown.rows[i].label} \ {Gap} = AtPlace(SeriesOf(b.part)[s].cat, i) \ {Gap}
  BY <1>1, <1>6, <1>8
<1>9. ValuesOf(b)
  BY <1>7, <1>8, Zenon DEF ValuesOf
<1> QED BY <1>9 DEF b

\* A chart that can be drawn has no stacked bars, lines or areas, and if it is
\* a lone pie it has one series, of shares.
LEMMA DrawableCharts ==
  ASSUME NEW chart, Drawable(ParseChart(chart))
  PROVE  LET data == ParseChart(chart)
             known == {e \in DOMAIN chart : chart[e].tag \in KnownTags}
         IN  /\ \A e \in known : chart[e].tag \in Stackable => ~chart[e].stacked
             /\ \A e \in known : (known = {e} /\ chart[e].tag \in PieLike) =>
                  /\ Len(data.series) = 1
                  /\ \A v \in Range(data.series[1]) : v # NaN => v >= 0
<1> DEFINE data == ParseChart(chart)
           known == {e \in DOMAIN chart : chart[e].tag \in KnownTags}
<1>1. data.type = ChartType(chart) /\ data.stacked = IsStacked(chart)
  BY DEF ParseChart
<1>2. \/ /\ data.type \in PieLike
         /\ Len(data.series) = 1
         /\ \A v \in Range(data.series[1]) : v # NaN => v >= 0
      \/ data.type \in XyLike /\ ~data.stacked
      \/ data.type = "radar"
  BY DEF Drawable
<1> HIDE DEF data
<1>3. ASSUME NEW e \in known, known = {e} PROVE data.type = chart[e].tag
  <2>1. known # {}
    OBVIOUS
  <2>2. ~\E f \in known : known # {f}
    BY <1>3
  <2>3. ChartType(chart) = chart[CHOOSE f \in known : TRUE].tag
    BY <2>1, <2>2 DEF ChartType
  <2>4. (CHOOSE f \in known : TRUE) = e
    BY <1>3
  <2> QED BY <1>1, <2>3, <2>4
<1>4. ASSUME NEW e \in known, known # {e} PROVE data.type = "combo"
  <2>1. known # {} /\ \E f \in known : known # {f}
    BY <1>4
  <2>2. ChartType(chart) = "combo"
    BY <2>1 DEF ChartType
  <2> QED BY <1>1, <2>2
<1>5. ASSUME NEW e \in known, chart[e].tag \in Stackable, chart[e].stacked PROVE FALSE
  <2>1. data.stacked
    BY <1>1, <1>5 DEF IsStacked
  <2>2. data.type \in PieLike \/ data.type = "radar"
    BY <1>2, <2>1
  <2>3. known = {e}
    BY <1>4, <2>2 DEF PieLike
  <2> QED BY <1>3, <1>5, <2>2, <2>3 DEF PieLike, Stackable
<1>6. ASSUME NEW e \in known, known = {e}, chart[e].tag \in PieLike
      PROVE  /\ Len(data.series) = 1
             /\ \A v \in Range(data.series[1]) : v # NaN => v >= 0
  <2>1. data.type \in PieLike
    BY <1>3, <1>6
  <2>2. data.type \notin XyLike /\ data.type # "radar"
    BY <2>1 DEF PieLike, XyLike
  <2> QED BY <1>2, <2>2
<1> QED BY <1>5, <1>6 DEF data

\* The diagram of a chart says what its table says.
LEMMA BlockDiagram ==
  ASSUME NEW chart, IsChart(file.charts[chart.part]), NEW renders, ~Block(chart, renders).marker
  PROVE  DiagramOf(Block(chart, renders))
<1> DEFINE c == file.charts[chart.part]
           data == ParseChart(c)
           b == Block(chart, renders)
           all == AllSeries(c)
           rows == Table(data)
           known == {e \in DOMAIN c : c[e].tag \in KnownTags}
<1>1. /\ b.part = chart.part /\ SeriesOf(b.part) = all /\ b.shown.rows = rows
      /\ b.shown.diagram = IF Drawable(data) /\ renders THEN Diagram(data) ELSE {}
  BY DEF Block, RenderChart, SeriesOf
<1>2. /\ DOMAIN rows \subseteq Nat \ {0}
      /\ \A i \in DOMAIN rows : rows[i].cells = [s \in DOMAIN all |-> Cell(Points(all[s].val), i)]
      /\ data.cats # <<>> => DOMAIN rows = DOMAIN data.cats
      /\ data.series = [s \in DOMAIN all |-> Points(all[s].val)]
  BY TableOfPoints, Zenon
<1>3. /\ DOMAIN all = 1..Len(all) /\ Len(all) \in Nat
      /\ \A s \in DOMAIN all : IsCache(all[s].val) /\ IsCache(all[s].cat)
  BY SeriesType
<1>4. DOMAIN data.cats = 1..Len(data.cats) /\ Len(data.cats) \in Nat
  <2>1. data.cats = Categories(all)
    BY DEF ParseChart
  <2> DEFINE found == {s \in DOMAIN all : Points(all[s].cat) # <<>>}
  <2>2. CASE found = {}
    <3>1. data.cats = <<>>
      BY <2>1, <2>2, Zenon DEF Categories
    <3> HIDE DEF data
    <3> QED BY <3>1
  <2>3. CASE found # {}
    <3>1. Min(found) \in found
      <4>1. found \in SUBSET Nat
        BY SeriesType
      <4> HIDE DEF found, all
      <4> QED BY <2>3, <4>1, MinOfNats
    <3>2. data.cats = Points(all[Min(found)].cat)
      BY <2>1, <2>3 DEF Categories
    <3> DEFINE m == Min(found)
    <3>3. m \in DOMAIN all
      BY <3>1
    <3> HIDE DEF m, found, all
    <3>4. IsCache(all[m].cat)
      BY <1>3, <3>3
    <3>5. data.cats = Points(all[m].cat)
      BY <3>2 DEF m
    <3> HIDE DEF data
    <3> QED BY <3>4, <3>5, PointsType
  <2> QED BY <2>2, <2>3
<1>9. Drawable(data) =>
        /\ \A e \in known : c[e].tag \in Stackable => ~c[e].stacked
        /\ \A e \in known : (known = {e} /\ c[e].tag \in PieLike) =>
             /\ Len(data.series) = 1
             /\ \A v \in Range(data.series[1]) : v # NaN => v >= 0
  BY DrawableCharts
<1> HIDE DEF c, b, all, rows, data, known
<1>5. ASSUME b.shown.diagram # {}
      PROVE  /\ b.shown.diagram = {<<i, s, rows[i].cells[s]>> : i \in DOMAIN rows, s \in DOMAIN all}
             /\ \A i \in DOMAIN rows : Gap \notin Range(rows[i].cells)
             /\ \A e \in known : c[e].tag \in Stackable => ~c[e].stacked
             /\ \A e \in known : (known = {e} /\ c[e].tag \in PieLike) =>
                  /\ Len(all) = 1
                  /\ \A i \in DOMAIN rows : rows[i].cells[1] # NaN => rows[i].cells[1] >= 0
  <2>1. Drawable(data) /\ SeriesShapeOk(data) /\ b.shown.diagram = Diagram(data)
    BY <1>1, <1>5 DEF Drawable
  <2>2. /\ data.cats # <<>>
        /\ DOMAIN data.series = DOMAIN all
        /\ \A s \in DOMAIN all : /\ data.series[s] = Points(all[s].val)
                                 /\ Len(data.series[s]) = Len(data.cats)
                                 /\ Gap \notin Range(data.series[s])
    BY <1>2, <2>1 DEF SeriesShapeOk
  <2>3. ASSUME NEW i \in DOMAIN data.cats, NEW s \in DOMAIN all
        PROVE  /\ rows[i].cells[s] = data.series[s][i] /\ rows[i].cells[s] # Gap
               /\ data.series[s][i] \in Range(data.series[s])
    <3> DEFINE p == Points(all[s].val)
    <3>1. DOMAIN p = 1..Len(p) /\ Len(p) \in Nat
      BY <1>3, PointsType
    <3>2. p = data.series[s] /\ Len(p) = Len(data.cats) /\ Gap \notin Range(p)
      BY <2>2
    <3>3. rows[i].cells[s] = Cell(p, i)
      <4>1. i \in DOMAIN rows
        BY <1>2, <2>2
      <4>2. rows[i].cells = [t \in DOMAIN all |-> Cell(Points(all[t].val), i)]
        BY <1>2, <4>1
      <4> QED BY <4>2
    <3> HIDE DEF p
    <3>4. i \in DOMAIN p /\ i <= Len(p)
      BY <1>4, <3>1, <3>2
    <3> QED BY <3>2, <3>3, <3>4 DEF Cell, Range
  <2>4. b.shown.diagram = {<<i, s, rows[i].cells[s]>> : i \in DOMAIN rows, s \in DOMAIN all}
    <3>1. b.shown.diagram = {<<i, s, data.series[s][i]>> : i \in DOMAIN data.cats, s \in DOMAIN all}
      BY <2>1, <2>2 DEF Diagram
    <3> QED BY <1>2, <2>2, <2>3, <3>1
  <2>5. \A i \in DOMAIN rows : Gap \notin Range(rows[i].cells)
    <3> SUFFICES ASSUME NEW i \in DOMAIN rows, Gap \in Range(rows[i].cells) PROVE FALSE
      OBVIOUS
    <3>1. PICK s \in DOMAIN all : rows[i].cells[s] = Gap
      BY <1>2 DEF Range
    <3> QED BY <1>2, <2>2, <2>3, <3>1
  <2>6. ASSUME NEW e \in known, known = {e}, c[e].tag \in PieLike
        PROVE  /\ Len(all) = 1
               /\ \A i \in DOMAIN rows : rows[i].cells[1] # NaN => rows[i].cells[1] >= 0
    <3>1. Len(data.series) = 1 /\ \A v \in Range(data.series[1]) : v # NaN => v >= 0
      BY <1>9, <2>1, <2>6
    <3>2. Len(all) = 1
      <4> DEFINE n == Len(all)
                 points == data.series
      <4>1. points = [s \in 1..n |-> Points(all[s].val)] /\ n \in Nat
        BY <1>2, <1>3
      <4> HIDE DEF n, points
      <4>2. Len(points) = n
        BY <4>1
      <4> QED BY <3>1, <4>2 DEF n, points
    <3>3. 1 \in DOMAIN all
      BY <1>3, <3>2
    <3> QED BY <1>2, <2>2, <2>3, <3>1, <3>2, <3>3
  <2> QED BY <1>9, <2>1, <2>4, <2>5, <2>6
<1>6. c = file.charts[b.part]
  BY <1>1 DEF c
<1>7. ASSUME b.shown.diagram # {} PROVE DiagramTrue(b)
  <2>1. /\ b.shown.diagram = Tabled(b)
        /\ \A i \in DOMAIN b.shown.rows : Gap \notin Range(b.shown.rows[i].cells)
    BY <1>1, <1>5, <1>7 DEF Tabled
  <2> DEFINE drawn == file.charts[b.part]
             those == {e \in DOMAIN drawn : drawn[e].tag \in KnownTags}
  <2>2. drawn = c /\ those = known
    BY <1>6 DEF known
  <2> HIDE DEF drawn, those
  <2>3. \A e \in those : drawn[e].tag \in Stackable => ~drawn[e].stacked
    BY <1>5, <1>7, <2>2
  <2>4. \A e \in those : (those = {e} /\ drawn[e].tag \in PieLike) =>
          /\ Len(SeriesOf(b.part)) = 1
          /\ \A i \in DOMAIN b.shown.rows :
               b.shown.rows[i].cells[1] # NaN => b.shown.rows[i].cells[1] >= 0
    BY <1>1, <1>5, <1>7, <2>2
  <2> USE DEF drawn, those
  <2> QED BY <2>1, <2>3, <2>4, Zenon DEF DiagramTrue
<1>8. DiagramOf(b)
  BY <1>7 DEF DiagramOf
<1> QED BY <1>8 DEF b

-----------------------------------------------------------------------------
(* Workbooks: sorting *)

\* Before is a strict total order of the positions.
LEMMA BeforeOrders ==
  ASSUME NEW S, NEW list \in Seq(S), \A e \in S : e.cell \in Int \X Int
  PROVE  \A i, j, k \in 1..Len(list) :
           /\ ~Before(list, i, i)
           /\ Before(list, i, j) /\ Before(list, j, k) => Before(list, i, k)
           /\ i # j => Before(list, i, j) \/ Before(list, j, i)
<1> SUFFICES ASSUME NEW i \in 1..Len(list), NEW j \in 1..Len(list), NEW k \in 1..Len(list)
             PROVE  /\ ~Before(list, i, i)
                    /\ Before(list, i, j) /\ Before(list, j, k) => Before(list, i, k)
                    /\ i # j => Before(list, i, j) \/ Before(list, j, i)
  OBVIOUS
<1> DEFINE c == list[i].cell
           d == list[j].cell
           e == list[k].cell
<1>1. c \in Int \X Int /\ d \in Int \X Int /\ e \in Int \X Int
  BY DEF CellBefore
<1>2. /\ Before(list, i, i) <=> CellBefore(c, c) \/ (c = c /\ i < i)
      /\ Before(list, i, j) <=> CellBefore(c, d) \/ (c = d /\ i < j)
      /\ Before(list, j, i) <=> CellBefore(d, c) \/ (d = c /\ j < i)
      /\ Before(list, j, k) <=> CellBefore(d, e) \/ (d = e /\ j < k)
      /\ Before(list, i, k) <=> CellBefore(c, e) \/ (c = e /\ i < k)
  BY DEF Before
<1> HIDE DEF c, d, e
<1>3. i \in Int /\ j \in Int /\ k \in Int
  OBVIOUS
<1>4. /\ c = <<c[1], c[2]>> /\ c[1] \in Int /\ c[2] \in Int
      /\ d = <<d[1], d[2]>> /\ d[1] \in Int /\ d[2] \in Int
      /\ e = <<e[1], e[2]>> /\ e[1] \in Int /\ e[2] \in Int
  BY <1>1
<1>5. /\ c = d <=> c[1] = d[1] /\ c[2] = d[2]
      /\ d = e <=> d[1] = e[1] /\ d[2] = e[2]
      /\ c = e <=> c[1] = e[1] /\ c[2] = e[2]
  BY <1>4
<1> QED BY <1>2, <1>3, <1>4, <1>5 DEF CellBefore

\* Sorting permutes a list, and what is at an earlier cell comes earlier.
LEMMA SortedPermutes ==
  ASSUME NEW S, NEW list \in Seq(S), \A e \in S : e.cell \in Int \X Int
  PROVE  /\ Sorted(list) \in Seq(S) /\ Len(Sorted(list)) = Len(list)
         /\ \E q \in Bijection(1..Len(list), 1..Len(list)) :
              \A n \in 1..Len(list) : Sorted(list)[n] = list[q[n]]
         /\ \A m, n \in 1..Len(list) :
              CellBefore(Sorted(list)[m].cell, Sorted(list)[n].cell) => m < n
<1> DEFINE N == Len(list)
           D == 1..N
           Less(i) == {k \in D : Before(list, k, i)}
           rank == [i \in D |-> Cardinality(Less(i)) + 1]
<1>1. N \in Nat /\ DOMAIN list = D /\ \A i \in D : list[i] \in S
  OBVIOUS
<1>2. \A i, j, k \in D : /\ ~Before(list, i, i)
                         /\ Before(list, i, j) /\ Before(list, j, k) => Before(list, i, k)
                         /\ i # j => Before(list, i, j) \/ Before(list, j, i)
  BY BeforeOrders
<1> HIDE DEF N
<1>3. IsFiniteSet(D) /\ Cardinality(D) = N
  BY <1>1, FS_Interval
<1> HIDE DEF D
<1>4. ASSUME NEW i \in D
      PROVE  IsFiniteSet(Less(i)) /\ Cardinality(Less(i)) \in Nat /\ Cardinality(Less(i)) < N
  <2>1. Less(i) \in SUBSET D /\ Less(i) # D
    BY <1>2
  <2> HIDE DEF Less
  <2>2. /\ IsFiniteSet(Less(i)) /\ Cardinality(Less(i)) <= Cardinality(D)
        /\ Cardinality(D) # Cardinality(Less(i))
    BY <1>3, <2>1, FS_Subset
  <2>3. Cardinality(Less(i)) \in Nat
    BY <2>2, FS_CardinalityType
  <2> QED BY <1>1, <1>3, <2>2, <2>3
<1>5. ASSUME NEW i \in D, NEW j \in D, Before(list, i, j) PROVE rank[i] < rank[j]
  <2>1. Less(i) \in SUBSET Less(j) /\ Less(i) # Less(j)
    <3>1. \A k \in D : Before(list, k, i) => Before(list, k, j)
      BY <1>2, <1>5
    <3>2. i \in Less(j) /\ i \notin Less(i)
      BY <1>2, <1>5
    <3> QED BY <3>1, <3>2
  <2> HIDE DEF Less
  <2>2. Cardinality(Less(i)) <= Cardinality(Less(j)) /\ Cardinality(Less(j)) # Cardinality(Less(i))
    BY <1>4, <2>1, FS_Subset
  <2>3. Cardinality(Less(i)) \in Nat /\ Cardinality(Less(j)) \in Nat
    BY <1>4
  <2> QED BY <2>2, <2>3
<1>6. rank \in [D -> D] /\ \A i \in D : rank[i] = Cardinality(Less(i)) + 1 /\ rank[i] \in Nat
  <2> HIDE DEF Less
  <2>1. \A i \in D : Cardinality(Less(i)) + 1 \in D /\ Cardinality(Less(i)) + 1 \in Nat
    BY <1>1, <1>4 DEF D
  <2> QED BY <2>1
<1>7. \A i, j \in D : rank[i] = rank[j] => i = j
  <2> SUFFICES ASSUME NEW i \in D, NEW j \in D, i # j PROVE rank[i] # rank[j]
    OBVIOUS
  <2>1. rank[i] < rank[j] \/ rank[j] < rank[i]
    <3> HIDE DEF rank
    <3> QED BY <1>2, <1>5
  <2>2. rank[i] \in Nat /\ rank[j] \in Nat
    BY <1>6
  <2> HIDE DEF rank
  <2> QED BY <2>1, <2>2
<1>8. ASSUME NEW n \in D PROVE \E i \in D : rank[i] = n
  <2>1. rank \in Injection(D, D)
    <3> HIDE DEF rank
    <3> QED BY <1>6, <1>7 DEF Injection, IsInjective
  <2>2. rank \in Surjection(D, D)
    <3> HIDE DEF rank
    <3> QED BY <1>3, <2>1, FS_Injection
  <2> HIDE DEF rank
  <2> QED BY <2>2 DEF Surjection
<1> DEFINE q == [n \in D |-> CHOOSE i \in D : rank[i] = n]
<1>9. ASSUME NEW n \in D PROVE q[n] \in D /\ rank[q[n]] = n
  <2> HIDE DEF rank
  <2> QED BY <1>8
<1>10. Sorted(list) = [n \in D |-> list[q[n]]]
  <2>1. \A n \in D : (CHOOSE i \in D : rank[i] = n)
                       = (CHOOSE i \in D : Cardinality(Less(i)) + 1 = n)
    <3> SUFFICES ASSUME NEW n \in D
                 PROVE  (CHOOSE i \in D : rank[i] = n)
                           = (CHOOSE i \in D : Cardinality(Less(i)) + 1 = n)
      OBVIOUS
    <3>1. \A i : (i \in D /\ rank[i] = n) <=> (i \in D /\ Cardinality(Less(i)) + 1 = n)
      <4> HIDE DEF Less
      <4> QED OBVIOUS
    <3> HIDE DEF rank, Less
    <3> QED BY <3>1
  <2>2. Sorted(list)
          = [n \in D |-> list[CHOOSE i \in D : Cardinality(Less(i)) + 1 = n]]
    <3> DEFINE By(X) == [n \in X |-> list[CHOOSE i \in X :
                           Cardinality({k \in X : Before(list, k, i)}) + 1 = n]]
    <3>1. Sorted(list) = By(DOMAIN list)
      BY DEF Sorted
    <3>2. By(DOMAIN list) = By(D)
      <4> HIDE DEF By
      <4> QED BY <1>1
    <3> QED BY <3>1, <3>2
  <2> HIDE DEF rank, Less
  <2> QED BY <2>1, <2>2
<1> HIDE DEF q
<1>11. q \in Bijection(D, D)
  <2> HIDE DEF rank
  <2>1. q \in [D -> D]
    BY <1>9 DEF q
  <2>2. \A m, n \in D : q[m] = q[n] => m = n
    BY <1>9
  <2>3. \A i \in D : \E n \in D : q[n] = i
    <3> SUFFICES ASSUME NEW i \in D PROVE \E n \in D : q[n] = i
      OBVIOUS
    <3>1. rank[i] \in D
      BY <1>6
    <3>2. q[rank[i]] \in D /\ rank[q[rank[i]]] = rank[i]
      BY <1>9, <3>1
    <3>3. q[rank[i]] = i
      BY <1>7, <3>2
    <3> QED BY <3>1, <3>3
  <2> QED BY <2>1, <2>2, <2>3 DEF Bijection, Injection, Surjection, IsInjective
<1> HIDE DEF rank
<1>12. Sorted(list) \in Seq(S) /\ Len(Sorted(list)) = N
  <2>1. \A n \in D : list[q[n]] \in S
    BY <1>1, <1>9
  <2> QED BY <1>1, <1>10, <2>1 DEF D
<1>13. \A n \in D : Sorted(list)[n] = list[q[n]]
  BY <1>10
<1>14. ASSUME NEW m \in D, NEW n \in D, CellBefore(Sorted(list)[m].cell, Sorted(list)[n].cell)
       PROVE  m < n
  <2>1. Before(list, q[m], q[n])
    BY <1>13, <1>14 DEF Before
  <2>2. q[m] \in D /\ q[n] \in D /\ rank[q[m]] = m /\ rank[q[n]] = n
    BY <1>9
  <2> QED BY <1>5, <2>1, <2>2
<1> QED BY <1>11, <1>12, <1>13, <1>14 DEF N, D

-----------------------------------------------------------------------------
(* Workbooks: the charts of a sheet *)

ChartParts == DOMAIN file.charts

\* What iter_chart_entries() may yield for a sheet.
EntriesAt(s) == [sheet : {s}, cell : Cells, part : ChartParts \cap Parts]
AnyEntries == [sheet : Sheets, cell : Cells, part : ChartParts \cap Parts]

\* What a drawing refers to: where, and what.
Pointed(d) == UNION {Range(Anchors(d)[a].refs) : a \in DOMAIN Anchors(d)}
Refs(d) == [cell : Cells, part : Pointed(d)]
RefLists(d) ==
  [a \in DOMAIN Anchors(d) |->
    [r \in DOMAIN Anchors(d)[a].refs |->
       [cell |-> Anchors(d)[a].cell, part |-> Anchors(d)[a].refs[r]]]]

\* The sheets of a package are a sequence, and so are the anchors of a drawing.
LEMMA PackageType ==
  ASSUME file \in Packages
  PROVE  /\ IsPackage(file)
         /\ Len(file.sheets) \in Nat /\ Sheets = 1..Len(file.sheets)
         /\ file.actual \in [Parts -> Nat]
         /\ \A s \in Sheets : file.sheets[s].part \in Parts
         /\ \A c \in ChartParts : IsChart(file.charts[c])
<1>1. IsPackage(file)
  BY XlsxAssumption
<1>2. file.sheets \in Seq(Range(file.sheets))
  BY <1>1 DEF IsPackage, IsSequence
<1>3. Len(file.sheets) \in Nat /\ Sheets = 1..Len(file.sheets)
  BY <1>2 DEF Sheets
<1>4. \A s \in Sheets : file.sheets[s].part \in Parts
  BY <1>1 DEF IsPackage, Sheets, Parts, Range
<1> QED BY <1>1, <1>3, <1>4 DEF IsPackage, Parts, ChartParts

\* The anchors of a drawing, and the references of each, are sequences; those
\* of its references that are parts are charts.
LEMMA AnchorsType ==
  ASSUME file \in Packages, NEW s \in Sheets, file.sheets[s].drawing \in Parts
  PROVE  LET d == file.sheets[s].drawing
         IN  /\ Len(Anchors(d)) \in Nat /\ DOMAIN Anchors(d) = 1..Len(Anchors(d))
             /\ RefLists(d) \in Seq(Seq(Refs(d))) /\ Len(RefLists(d)) = Len(Anchors(d))
             /\ \A a \in DOMAIN Anchors(d) :
                  /\ Anchors(d)[a].cell \in Cells
                  /\ DOMAIN Anchors(d)[a].refs = 1..Len(Anchors(d)[a].refs)
                  /\ Len(Anchors(d)[a].refs) \in Nat
                  /\ Len(RefLists(d)[a]) = Len(Anchors(d)[a].refs)
             /\ Pointed(d) \cap Parts \subseteq ChartParts
<1> DEFINE d == file.sheets[s].drawing
           drawing == file.drawings[d]
           all == Anchors(d)
           S == Range(drawing.one) \cup Range(drawing.two)
<1>1. IsDrawing(drawing, Parts, ChartParts)
  <2>1. \A sheet \in Range(file.sheets) : sheet.drawing \in DOMAIN file.declared =>
          IsDrawing(file.drawings[sheet.drawing], DOMAIN file.declared, DOMAIN file.charts)
    BY PackageType DEF IsPackage
  <2>2. file.sheets[s] \in Range(file.sheets)
    BY DEF Sheets, Range
  <2> QED BY <2>1, <2>2 DEF Parts, ChartParts
<1>2. /\ drawing.one \in Seq(Range(drawing.one)) /\ drawing.two \in Seq(Range(drawing.two))
      /\ \A anchor \in S : /\ anchor.cell \in Cells
                           /\ anchor.refs \in Seq(Range(anchor.refs))
                           /\ Range(anchor.refs) \cap Parts \subseteq ChartParts
  BY <1>1 DEF IsDrawing, IsSequence
<1>3. drawing.one \in Seq(S) /\ drawing.two \in Seq(S)
  <2>1. ASSUME NEW A, NEW B, A \subseteq B, NEW t \in Seq(A) PROVE t \in Seq(B)
    BY <2>1
  <2>2. Range(drawing.one) \subseteq S /\ Range(drawing.two) \subseteq S
    OBVIOUS
  <2> HIDE DEF S, drawing
  <2> QED BY <1>2, <2>1, <2>2
<1>4. all = drawing.one \o drawing.two
  BY DEF Anchors
<1> HIDE DEF drawing, S, all
<1>5. all \in Seq(S)
  BY <1>3, <1>4
<1>6. Len(all) \in Nat /\ DOMAIN all = 1..Len(all) /\ \A a \in DOMAIN all : all[a] \in S
  BY <1>5
<1>7. \A a \in DOMAIN all : /\ all[a].cell \in Cells
                            /\ all[a].refs \in Seq(Range(all[a].refs))
                            /\ Range(all[a].refs) \cap Parts \subseteq ChartParts
  BY <1>2, <1>6
<1>8. \A a \in DOMAIN all : /\ DOMAIN all[a].refs = 1..Len(all[a].refs)
                            /\ Len(all[a].refs) \in Nat
  BY <1>7
<1> DEFINE lists == RefLists(d)
<1>9. lists = [a \in DOMAIN all |->
                 [r \in DOMAIN all[a].refs |-> [cell |-> all[a].cell, part |-> all[a].refs[r]]]]
  BY DEF RefLists, all
<1>10. Pointed(d) = UNION {Range(all[a].refs) : a \in DOMAIN all}
  BY DEF Pointed, all
<1>11. ASSUME NEW a \in DOMAIN all
       PROVE  lists[a] \in Seq(Refs(d)) /\ Len(lists[a]) = Len(all[a].refs)
  <2> DEFINE t == lists[a]
             n == Len(all[a].refs)
  <2>1. t = [r \in 1..n |-> [cell |-> all[a].cell, part |-> all[a].refs[r]]]
    <3>1. t = [r \in DOMAIN all[a].refs |-> [cell |-> all[a].cell, part |-> all[a].refs[r]]]
      BY <1>9
    <3> HIDE DEF t
    <3> QED BY <1>8, <3>1
  <2>2. \A r \in 1..n : [cell |-> all[a].cell, part |-> all[a].refs[r]] \in Refs(d)
    <3>1. \A r \in 1..n : all[a].refs[r] \in Pointed(d)
      BY <1>8, <1>10 DEF Range
    <3> QED BY <1>7, <3>1 DEF Refs
  <2>3. n \in Nat
    BY <1>8
  <2> HIDE DEF t, n
  <2>4. t \in Seq(Refs(d)) /\ Len(t) = n
    BY <2>1, <2>2, <2>3
  <2> QED BY <2>4 DEF t, n
<1>12. lists \in Seq(Seq(Refs(d))) /\ Len(lists) = Len(all)
  <2>1. lists = [a \in 1..Len(all) |-> lists[a]]
    BY <1>6, <1>9
  <2>2. \A a \in 1..Len(all) : lists[a] \in Seq(Refs(d))
    BY <1>6, <1>11
  <2> HIDE DEF lists
  <2> QED BY <1>6, <2>1, <2>2
<1>13. Pointed(d) \cap Parts \subseteq ChartParts
  BY <1>7, <1>10
<1> QED BY <1>6, <1>7, <1>8, <1>11, <1>12, <1>13 DEF all

\* The charts reached from a sheet: entries of that sheet, each as often as it
\* is anchored.
LEMMA ReachedType ==
  ASSUME file \in Packages, NEW s \in Sheets
  PROVE  Reached(s) \in Seq(EntriesAt(s))
<1> DEFINE d == file.sheets[s].drawing
           refs == ChartRefs(d)
           there == Kept(refs, {c \in Range(refs) : Present(c.part)})
           found == [k \in DOMAIN there |->
                       [sheet |-> s, cell |-> there[k].cell, part |-> there[k].part]]
<1>1. CASE ~Present(d)
  <2>1. Reached(s) = <<>>
    BY <1>1 DEF Reached
  <2> QED BY <2>1
<1>2. CASE Present(d)
  <2>1. RefLists(d) \in Seq(Seq(Refs(d))) /\ Pointed(d) \cap Parts \subseteq ChartParts
    BY <1>2, AnchorsType DEF Present
  <2>2. refs = FlattenSeq(RefLists(d))
    BY DEF ChartRefs, RefLists
  <2>3. refs \in Seq(Refs(d))
    BY <2>1, <2>2, FlattenElements
  <2>4. Reached(s) = found
    BY <1>2 DEF Reached
  <2> HIDE DEF refs, d
  <2>5. /\ there \in Seq(Refs(d))
        /\ Elements(there) \subseteq {c \in Refs(d) : Present(c.part)}
    <3>1. Elements(refs) \subseteq Refs(d)
      BY <2>3, ElementsType
    <3> QED BY <2>3, <3>1, KeptElements
  <2> HIDE DEF there
  <2>6. DOMAIN there = 1..Len(there) /\ Len(there) \in Nat
    BY <2>5
  <2>7. ASSUME NEW k \in 1..Len(there)
        PROVE  [sheet |-> s, cell |-> there[k].cell, part |-> there[k].part] \in EntriesAt(s)
    <3>1. there[k] \in Refs(d) /\ there[k].part \in Parts
      BY <2>5 DEF Elements, Present
    <3> QED BY <2>1, <3>1 DEF Refs, EntriesAt
  <2>8. found \in Seq(EntriesAt(s))
    BY <2>6, <2>7
  <2> QED BY <2>4, <2>8
<1> QED BY <1>1, <1>2

\* A chart that the package holds is reached from a sheet as often as it is
\* anchored there.
LEMMA ReachedAsAnchored ==
  ASSUME file \in Packages, NEW s \in Sheets, NEW cell, NEW part \in Parts
  PROVE  Count(Reached(s), [sheet |-> s, cell |-> cell, part |-> part]) = Anchored(s, cell, part)
<1> DEFINE d == file.sheets[s].drawing
           refs == ChartRefs(d)
           T == {c \in Range(refs) : Present(c.part)}
           there == Kept(refs, T)
           found == [k \in DOMAIN there |->
                       [sheet |-> s, cell |-> there[k].cell, part |-> there[k].part]]
           ref == [cell |-> cell, part |-> part]
           entry == [sheet |-> s, cell |-> cell, part |-> part]
<1>0. Present(part)
  BY DEF Present
<1>1. CASE ~Present(d)
  <2>1. Reached(s) = <<>>
    BY <1>1 DEF Reached
  <2>2. Count(Reached(s), entry) = 0
    <3> HIDE DEF entry
    <3> QED BY <2>1, CountEmpty
  <2>3. Anchored(s, cell, part) = Cardinality({})
    BY <1>0, <1>1 DEF Anchored
  <2> QED BY <2>2, <2>3, FS_EmptySet
<1>2. CASE Present(d)
  <2>1. /\ RefLists(d) \in Seq(Seq(Refs(d))) /\ Len(RefLists(d)) = Len(Anchors(d))
        /\ DOMAIN Anchors(d) = 1..Len(Anchors(d)) /\ Len(Anchors(d)) \in Nat
        /\ \A a \in DOMAIN Anchors(d) :
             /\ DOMAIN Anchors(d)[a].refs = 1..Len(Anchors(d)[a].refs)
             /\ Len(RefLists(d)[a]) = Len(Anchors(d)[a].refs)
    BY <1>2, AnchorsType DEF Present
  <2>2. refs = FlattenSeq(RefLists(d))
    BY DEF ChartRefs, RefLists
  <2>3. refs \in Seq(Refs(d))
    BY <2>1, <2>2, FlattenElements
  <2>4. Reached(s) = found
    BY <1>2 DEF Reached
  <2>5. Count(refs, ref) = Cardinality(PairPlaces(RefLists(d), ref))
    <3> HIDE DEF ref, refs
    <3> QED BY <2>1, <2>2, CountFlatten
  <2>6. there \in Seq(Refs(d)) /\ Elements(there) = Elements(refs) \cap T
    <3> HIDE DEF refs, T
    <3> QED BY <2>3, KeptElements
  <2>7. Count(there, ref) = Count(refs, ref)
    <3>1. CASE ref \in T
      <4> HIDE DEF refs, T, ref
      <4> QED BY <2>3, <3>1, CountKept
    <3>2. CASE ref \notin T
      <4>1. ref \notin Elements(refs)
        <5>1. ref.part = part
          OBVIOUS
        <5>2. Elements(refs) = Range(refs)
          BY <2>3 DEF Elements, Range
        <5> HIDE DEF refs, ref
        <5> QED BY <1>0, <3>2, <5>1, <5>2
      <4> HIDE DEF refs, T, ref, there
      <4>2. Places(refs, ref) = {} /\ Places(there, ref) = {}
        BY <2>6, <4>1 DEF Places, Elements
      <4> QED BY <4>2 DEF Count
    <3> QED BY <3>1, <3>2
  <2>8. Count(found, entry) = Count(there, ref)
    <3> HIDE DEF refs, T, there
    <3>1. DOMAIN there = 1..Len(there) /\ Len(there) \in Nat
      BY <2>6
    <3>2. Len(found) = Len(there)
      BY <3>1
    <3>3. ASSUME NEW k \in 1..Len(there) PROVE found[k] = entry <=> there[k] = ref
      <4>1. there[k] \in Refs(d)
        BY <2>6, <3>1
      <4>2. there[k] = [cell |-> there[k].cell, part |-> there[k].part]
        BY <4>1 DEF Refs
      <4>3. found[k] = [sheet |-> s, cell |-> there[k].cell, part |-> there[k].part]
        BY <3>1
      <4>4. found[k] = entry <=> there[k].cell = cell /\ there[k].part = part
        BY <4>3
      <4>5. there[k] = ref <=> there[k].cell = cell /\ there[k].part = part
        BY <4>2
      <4> QED BY <4>4, <4>5
    <3>4. Places(found, entry) = Places(there, ref)
      <4> HIDE DEF found, entry, ref
      <4> QED BY <3>2, <3>3 DEF Places
    <3> QED BY <3>4 DEF Count
  <2>9. Cardinality(PairPlaces(RefLists(d), ref)) = Anchored(s, cell, part)
    <3> DEFINE anchors == Anchors(d)
               here == {a \in DOMAIN anchors : anchors[a].cell = cell}
               refsTo(a) == {r \in DOMAIN anchors[a].refs : anchors[a].refs[r] = part}
    <3>1. Anchored(s, cell, part) = Cardinality(UNION {{a} \X refsTo(a) : a \in here})
      BY <1>0, <1>2 DEF Anchored
    <3>2. ASSUME NEW a \in DOMAIN anchors
          PROVE  Places(RefLists(d)[a], ref) = IF a \in here THEN refsTo(a) ELSE {}
      <4> DEFINE t == RefLists(d)[a]
      <4>1. t = [r \in DOMAIN anchors[a].refs |-> [cell |-> anchors[a].cell, part |-> anchors[a].refs[r]]]
        BY DEF RefLists
      <4>2. 1..Len(t) = DOMAIN anchors[a].refs
        BY <2>1
      <4> HIDE DEF t
      <4>3. ASSUME NEW r \in DOMAIN anchors[a].refs
            PROVE  t[r] = ref <=> anchors[a].cell = cell /\ anchors[a].refs[r] = part
        BY <4>1
      <4> HIDE DEF ref, anchors
      <4>4. Places(t, ref) = IF a \in here THEN refsTo(a) ELSE {}
        BY <4>2, <4>3 DEF Places
      <4> QED BY <4>4 DEF t
    <3> DEFINE pairs == PairPlaces(RefLists(d), ref)
    <3>3. pairs = UNION {{a} \X Places(RefLists(d)[a], ref) : a \in DOMAIN anchors}
      BY <2>1 DEF PairPlaces
    <3> HIDE DEF refsTo, ref
    <3>4. pairs = UNION {{a} \X refsTo(a) : a \in here}
      <4> HIDE DEF pairs, anchors
      <4>0. here \subseteq DOMAIN anchors
        OBVIOUS
      <4>1. \A a \in DOMAIN anchors : a \in here => Places(RefLists(d)[a], ref) = refsTo(a)
        BY <3>2
      <4>2. \A a \in DOMAIN anchors : a \notin here => Places(RefLists(d)[a], ref) = {}
        BY <3>2
      <4> HIDE DEF here
      <4>3. ASSUME NEW p \in pairs PROVE p \in UNION {{a} \X refsTo(a) : a \in here}
        <5>1. PICK a \in DOMAIN anchors : p \in {a} \X Places(RefLists(d)[a], ref)
          BY <3>3
        <5> QED BY <4>1, <4>2, <5>1
      <4>4. ASSUME NEW p \in UNION {{a} \X refsTo(a) : a \in here} PROVE p \in pairs
        <5>1. PICK a \in here : p \in {a} \X refsTo(a)
          BY <4>4
        <5> QED BY <3>3, <4>0, <4>1, <5>1
      <4> QED BY <4>3, <4>4
    <3> QED BY <3>1, <3>4
  <2> HIDE DEF refs, T, there, ref, entry, found
  <2> QED BY <2>4, <2>5, <2>7, <2>8, <2>9 DEF entry
<1> QED BY <1>1, <1>2

\* An anchored chart is anchored at least once.
LEMMA AnchoredThere ==
  ASSUME file \in Packages, NEW s \in Sheets, file.sheets[s].drawing \in Parts,
         NEW a \in DOMAIN Anchors(file.sheets[s].drawing),
         NEW part \in Range(Anchors(file.sheets[s].drawing)[a].refs), part \in Parts
  PROVE  Anchored(s, Anchors(file.sheets[s].drawing)[a].cell, part) > 0
<1> DEFINE d == file.sheets[s].drawing
           cell == Anchors(d)[a].cell
           entry == [sheet |-> s, cell |-> cell, part |-> part]
           here == {b \in DOMAIN Anchors(d) : Anchors(d)[b].cell = cell}
           refsTo(b) == {r \in DOMAIN Anchors(d)[b].refs : Anchors(d)[b].refs[r] = part}
           pairs == UNION {{b} \X refsTo(b) : b \in here}
<1>1. PICK r \in DOMAIN Anchors(d)[a].refs : Anchors(d)[a].refs[r] = part
  BY DEF Range
<1>2. <<a, r>> \in pairs
  BY <1>1
<1>3. Anchored(s, cell, part) = Cardinality(pairs)
  BY DEF Anchored, Present
<1>4. IsFiniteSet(pairs)
  <2>1. /\ Len(Anchors(d)) \in Nat /\ DOMAIN Anchors(d) = 1..Len(Anchors(d))
        /\ \A b \in DOMAIN Anchors(d) : /\ DOMAIN Anchors(d)[b].refs = 1..Len(Anchors(d)[b].refs)
                                        /\ Len(Anchors(d)[b].refs) \in Nat
    BY AnchorsType
  <2> DEFINE g == [b \in 1..Len(Anchors(d)) |-> {b} \X refsTo(b)]
             G == {g[b] : b \in 1..Len(Anchors(d))}
  <2>2. IsFiniteSet(G)
    <3> HIDE DEF g
    <3> QED BY <2>1, FiniteValues
  <2>3. ASSUME NEW b \in 1..Len(Anchors(d)) PROVE IsFiniteSet(g[b])
    <3>1. IsFiniteSet({b})
      BY FS_Singleton
    <3>2. IsFiniteSet(DOMAIN Anchors(d)[b].refs)
      <4> DEFINE n == Len(Anchors(d)[b].refs)
      <4>1. n \in Nat /\ DOMAIN Anchors(d)[b].refs = 1..n
        BY <2>1
      <4> HIDE DEF n
      <4> QED BY <4>1, FS_Interval
    <3>3. IsFiniteSet(refsTo(b))
      <4>1. refsTo(b) \in SUBSET (DOMAIN Anchors(d)[b].refs)
        OBVIOUS
      <4> HIDE DEF refsTo
      <4> QED BY <3>2, <4>1, FS_Subset
    <3> HIDE DEF refsTo
    <3> QED BY <3>1, <3>3, FS_Product
  <2>4. \A h \in G : IsFiniteSet(h)
    <3> HIDE DEF g
    <3> QED BY <2>3
  <2>5. IsFiniteSet(UNION G)
    <3> HIDE DEF G
    <3> QED BY <2>2, <2>4, FS_UNION
  <2>6. pairs \in SUBSET (UNION G)
    <3> HIDE DEF refsTo
    <3> QED BY <2>1
  <2> HIDE DEF pairs, G
  <2> QED BY <2>5, <2>6, FS_Subset
<1> HIDE DEF pairs
<1>5. Cardinality(pairs) \in Nat /\ Cardinality(pairs) # 0
  BY <1>2, <1>4, FS_CardinalityType, FS_EmptySet
<1> QED BY <1>3, <1>5

-----------------------------------------------------------------------------
(* Workbooks: the charts of all sheets *)

\* What a list of reads yields.
Yields(rs) == FlattenSeq([k \in DOMAIN rs |-> rs[k].yields])
AllReads == FlattenSeq([s \in Sheets |-> SheetReads(s)])
AllEntries == FlattenSeq([s \in Sheets |-> Reached(s)])

\* A read yields entries for the part that it reads, or nothing.
ReadSteps == {r \in [part : Parts, yields : Seq(AnyEntries)] :
                \A e \in Elements(r.yields) : e.part = r.part}

\* One read more yields its entry after those of the others.
LEMMA YieldsAppend ==
  ASSUME NEW rs \in Seq(ReadSteps), NEW r \in ReadSteps
  PROVE  /\ Yields(rs) \in Seq(AnyEntries)
         /\ Yields(Append(rs, r)) = Yields(rs) \o r.yields
         /\ Elements(Yields(rs)) = UNION {Elements(rs[k].yields) : k \in 1..Len(rs)}
<1> DEFINE lists == [k \in DOMAIN rs |-> rs[k].yields]
           more == [k \in DOMAIN Append(rs, r) |-> Append(rs, r)[k].yields]
<1>1. /\ Len(rs) \in Nat /\ DOMAIN rs = 1..Len(rs)
      /\ \A k \in 1..Len(rs) : rs[k].yields \in Seq(AnyEntries)
      /\ r.yields \in Seq(AnyEntries)
  BY DEF ReadSteps
<1>2. lists \in Seq(Seq(AnyEntries)) /\ Len(lists) = Len(rs)
      /\ \A k \in 1..Len(rs) : lists[k] = rs[k].yields
  BY <1>1
<1>3. more = Append(lists, r.yields)
  <2>1. DOMAIN Append(rs, r) = 1..(Len(rs) + 1)
    BY <1>1
  <2>2. \A k \in 1..(Len(rs)+1) : Append(rs, r)[k] = IF k = Len(rs) + 1 THEN r ELSE rs[k]
    BY <1>1
  <2>3. \A k \in 1..(Len(rs)+1) : more[k] = IF k = Len(rs) + 1 THEN r.yields ELSE lists[k]
    BY <1>1, <2>1, <2>2
  <2>4. more = [k \in 1..(Len(rs)+1) |-> IF k = Len(rs) + 1 THEN r.yields ELSE lists[k]]
    <3>1. more = [k \in 1..(Len(rs)+1) |-> more[k]]
      BY <2>1
    <3> HIDE DEF more, lists
    <3> QED BY <2>3, <3>1
  <2> HIDE DEF more, lists
  <2>5. Append(lists, r.yields) = [k \in 1..(Len(rs)+1) |-> IF k = Len(rs) + 1 THEN r.yields ELSE lists[k]]
    BY <1>1, <1>2
  <2> QED BY <2>4, <2>5
<1> HIDE DEF lists, more
<1>4. FlattenSeq(Append(lists, r.yields)) = FlattenSeq(lists) \o r.yields
  BY <1>1, <1>2, FlattenAppend
<1>5. /\ FlattenSeq(lists) \in Seq(AnyEntries)
      /\ Elements(FlattenSeq(lists)) = UNION {Elements(lists[i]) : i \in 1..Len(lists)}
  BY <1>2, FlattenElements
<1>6. Yields(rs) = FlattenSeq(lists) /\ Yields(Append(rs, r)) = FlattenSeq(more)
  BY DEF Yields, lists, more
<1>7. UNION {Elements(lists[i]) : i \in 1..Len(lists)} = UNION {Elements(rs[k].yields) : k \in 1..Len(rs)}
  BY <1>2
<1> QED BY <1>3, <1>4, <1>5, <1>6, <1>7

\* Nothing read, nothing found.
LEMMA YieldsEmpty == Yields(<<>>) = <<>>
<1>1. [k \in DOMAIN <<>> |-> <<>>[k].yields] = <<>>
  OBVIOUS
<1>2. Len(<<>>) = 0
  OBVIOUS
<1> QED BY <1>1, <1>2 DEF Yields, FlattenSeq

\* What reads yield are entries.
LEMMA YieldsType ==
  ASSUME NEW rs \in Seq(ReadSteps)
  PROVE  Yields(rs) \in Seq(AnyEntries)
<1> DEFINE lists == [k \in DOMAIN rs |-> rs[k].yields]
<1>1. /\ Len(rs) \in Nat /\ DOMAIN rs = 1..Len(rs)
      /\ \A k \in 1..Len(rs) : rs[k].yields \in Seq(AnyEntries)
  BY DEF ReadSteps
<1>2. lists \in Seq(Seq(AnyEntries))
  BY <1>1
<1> HIDE DEF lists
<1>3. FlattenSeq(lists) \in Seq(AnyEntries)
  BY <1>2, FlattenElements
<1> QED BY <1>3 DEF Yields, lists

\* What is read later is found later.
LEMMA YieldsJoin ==
  ASSUME NEW a \in Seq(ReadSteps), NEW b \in Seq(ReadSteps)
  PROVE  Yields(a \o b) = Yields(a) \o Yields(b)
<1> DEFINE Claim(u) == Yields(a \o u) = Yields(a) \o Yields(u)
           P == {u \in Seq(ReadSteps) : Claim(u)}
<1>0. \A u \in Seq(ReadSteps) : Yields(u) \in Seq(AnyEntries)
  BY YieldsType
<1>1. Claim(<<>>)
  <2>1. a \o <<>> = a /\ Yields(a) \in Seq(AnyEntries)
    BY <1>0
  <2>2. Yields(<<>>) = <<>>
    BY YieldsEmpty
  <2>3. Yields(a) \o <<>> = Yields(a)
    BY <2>1
  <2> QED BY <2>1, <2>2, <2>3
<1>2. ASSUME NEW u \in Seq(ReadSteps), NEW r \in ReadSteps, Claim(u) PROVE Claim(Append(u, r))
  <2> DEFINE w == a \o u
  <2>1. w \in Seq(ReadSteps) /\ a \o Append(u, r) = Append(w, r)
    OBVIOUS
  <2>2. Yields(w) = Yields(a) \o Yields(u)
    BY <1>2
  <2> HIDE DEF w
  <2>3. Yields(Append(w, r)) = Yields(w) \o r.yields
    BY <2>1, YieldsAppend
  <2>4. Yields(Append(u, r)) = Yields(u) \o r.yields
    BY YieldsAppend
  <2>5. (Yields(a) \o Yields(u)) \o r.yields = Yields(a) \o (Yields(u) \o r.yields)
    <3>1. Yields(a) \in Seq(AnyEntries) /\ Yields(u) \in Seq(AnyEntries) /\ r.yields \in Seq(AnyEntries)
      BY <1>0 DEF ReadSteps
    <3> DEFINE x == Yields(a)
               y == Yields(u)
               z == r.yields
    <3> HIDE DEF x, y, z
    <3>2. x \in Seq(AnyEntries) /\ y \in Seq(AnyEntries) /\ z \in Seq(AnyEntries)
      BY <3>1 DEF x, y, z
    <3>3. (x \o y) \o z = x \o (y \o z)
      BY <3>2, JoinAssociative, SMTT(30)
    <3> QED BY <3>3 DEF x, y, z
  <2> QED BY <2>1, <2>2, <2>3, <2>4, <2>5
<1>3. Seq(ReadSteps) \subseteq P
  <2> HIDE DEF Claim
  <2>1. <<>> \in P
    <3>1. <<>> \in Seq(ReadSteps)
      OBVIOUS
    <3> QED BY <1>1, <3>1
  <2>2. \A u \in Seq(ReadSteps), r \in ReadSteps : u \in P => Append(u, r) \in P
    <3>1. \A u \in Seq(ReadSteps), r \in ReadSteps : Append(u, r) \in Seq(ReadSteps)
      OBVIOUS
    <3> QED BY <1>2, <3>1
  <2> HIDE DEF P
  <2> QED BY <2>1, <2>2, SeqSetInduction
<1> QED BY <1>3

\* The reads of the charts of a list yield the list.
ChartReads(found) == [k \in DOMAIN found |-> [part |-> found[k].part, yields |-> <<found[k]>>]]

\* The reads of a list of charts yield that list.
LEMMA ChartReadsYield ==
  ASSUME NEW found \in Seq(AnyEntries)
  PROVE  ChartReads(found) \in Seq(ReadSteps) /\ Yields(ChartReads(found)) = found
<1> DEFINE Claim(u) == ChartReads(u) \in Seq(ReadSteps) /\ Yields(ChartReads(u)) = u
           P == {u \in Seq(AnyEntries) : Claim(u)}
<1>1. Claim(<<>>)
  <2>1. ChartReads(<<>>) = <<>>
    BY DEF ChartReads
  <2>2. Yields(<<>>) = <<>> /\ <<>> \in Seq(ReadSteps)
    BY YieldsEmpty
  <2> QED BY <2>1, <2>2
<1>2. ASSUME NEW u \in Seq(AnyEntries), NEW e \in AnyEntries, Claim(u) PROVE Claim(Append(u, e))
  <2> DEFINE r == [part |-> e.part, yields |-> <<e>>]
  <2>1. r \in ReadSteps /\ r.yields = <<e>>
    <3>1. <<e>> \in Seq(AnyEntries) /\ Elements(<<e>>) = {e}
      BY DEF Elements
    <3>2. e.part \in Parts
      BY DEF AnyEntries
    <3> QED BY <3>1, <3>2 DEF ReadSteps
  <2>2. ChartReads(Append(u, e)) = Append(ChartReads(u), r)
    <3> DEFINE t == Append(u, e)
               b == ChartReads(u)
               R(x) == [part |-> x.part, yields |-> <<x>>]
    <3>1. /\ Len(u) \in Nat /\ DOMAIN u = 1..Len(u) /\ DOMAIN t = 1..(Len(u) + 1)
          /\ \A k \in 1..(Len(u)+1) : t[k] = IF k = Len(u) + 1 THEN e ELSE u[k]
      OBVIOUS
    <3>2. ChartReads(t) = [k \in 1..(Len(u)+1) |-> R(t[k])] /\ b = [k \in 1..Len(u) |-> R(u[k])]
      BY <3>1 DEF ChartReads
    <3>3. b \in Seq(ReadSteps) /\ R(e) \in ReadSteps
      BY <1>2, <2>1
    <3> HIDE DEF t, b, R
    <3>4. Len(b) = Len(u) /\ \A k \in 1..Len(u) : b[k] = R(u[k])
      BY <3>1, <3>2, <3>3
    <3>5. Append(b, R(e)) = [k \in 1..(Len(u)+1) |-> IF k = Len(u) + 1 THEN R(e) ELSE b[k]]
      BY <3>3, <3>4, AppendByPlace
    <3>6. \A k \in 1..(Len(u)+1) : R(t[k]) = IF k = Len(u) + 1 THEN R(e) ELSE b[k]
      BY <3>1, <3>4
    <3>7. ChartReads(t) = Append(b, R(e))
      BY <3>2, <3>5, <3>6
    <3> QED BY <3>7 DEF t, b, R
  <2>3. ChartReads(u) \in Seq(ReadSteps) /\ Yields(ChartReads(u)) = u
    BY <1>2
  <2> HIDE DEF r
  <2>4. Append(ChartReads(u), r) \in Seq(ReadSteps)
    BY <2>1, <2>3
  <2>5. Yields(Append(ChartReads(u), r)) = Yields(ChartReads(u)) \o r.yields
    BY <2>1, <2>3, YieldsAppend
  <2>6. u \o <<e>> = Append(u, e)
    OBVIOUS
  <2> QED BY <2>1, <2>2, <2>3, <2>4, <2>5, <2>6
<1>3. Seq(AnyEntries) \subseteq P
  <2> HIDE DEF Claim
  <2>1. <<>> \in P
    <3>1. <<>> \in Seq(AnyEntries)
      OBVIOUS
    <3> QED BY <1>1, <3>1
  <2>2. \A u \in Seq(AnyEntries), e \in AnyEntries : u \in P => Append(u, e) \in P
    <3>1. \A u \in Seq(AnyEntries), e \in AnyEntries : Append(u, e) \in Seq(AnyEntries)
      OBVIOUS
    <3> QED BY <1>2, <3>1
  <2> HIDE DEF P
  <2> QED BY <2>1, <2>2, SeqSetInduction
<1> QED BY <1>3

\* The reads of a sheet yield the charts reached from it.
LEMMA SheetReadsYield ==
  ASSUME file \in Packages, NEW s \in Sheets
  PROVE  /\ SheetReads(s) \in Seq(ReadSteps)
         /\ Yields(SheetReads(s)) = Reached(s)
<1> DEFINE sheet == file.sheets[s]
           own == [part |-> sheet.part, yields |-> <<>>]
           drawn == [part |-> sheet.drawing, yields |-> <<>>]
           head == IF Present(sheet.drawing) THEN <<drawn>> ELSE <<>>
           found == Reached(s)
           rest == ChartReads(found)
<1>1. found \in Seq(AnyEntries)
  <2>1. found \in Seq(EntriesAt(s)) /\ EntriesAt(s) \subseteq AnyEntries
    BY ReachedType DEF EntriesAt, AnyEntries
  <2> HIDE DEF found
  <2> QED BY <2>1
<1>2. rest \in Seq(ReadSteps) /\ Yields(rest) = found
  <2> HIDE DEF found
  <2> QED BY <1>1, ChartReadsYield
<1>3. ASSUME NEW part \in Parts
      PROVE  LET r == [part |-> part, yields |-> <<>>]
             IN  r \in ReadSteps /\ <<r>> \in Seq(ReadSteps) /\ Yields(<<r>>) = <<>>
  <2> DEFINE r == [part |-> part, yields |-> <<>>]
  <2>1. r \in ReadSteps /\ r.yields = <<>>
    <3>1. <<>> \in Seq(AnyEntries) /\ Elements(<<>>) = {}
      BY DEF Elements
    <3> QED BY <3>1 DEF ReadSteps
  <2> HIDE DEF r
  <2>2. <<>> \in Seq(ReadSteps) /\ Append(<<>>, r) = <<r>> /\ <<r>> \in Seq(ReadSteps)
    BY <2>1
  <2>3. Yields(Append(<<>>, r)) = Yields(<<>>) \o r.yields
    BY <2>1, <2>2, YieldsAppend
  <2>4. Yields(<<>>) = <<>>
    BY YieldsEmpty
  <2>5. Yields(<<r>>) = <<>>
    BY <2>1, <2>2, <2>3, <2>4
  <2> QED BY <2>1, <2>2, <2>5 DEF r
<1>4. own \in ReadSteps /\ <<own>> \in Seq(ReadSteps) /\ Yields(<<own>>) = <<>>
  <2>1. sheet.part \in Parts
    BY PackageType
  <2> QED BY <1>3, <2>1, Zenon
<1>5. head \in Seq(ReadSteps) /\ Yields(head) = <<>>
  <2>1. CASE Present(sheet.drawing)
    <3>1. <<drawn>> \in Seq(ReadSteps) /\ Yields(<<drawn>>) = <<>>
      BY <1>3, <2>1, Zenon DEF Present
    <3>2. head = <<drawn>>
      BY <2>1
    <3> HIDE DEF drawn, head
    <3> QED BY <3>1, <3>2
  <2>2. CASE ~Present(sheet.drawing)
    <3>2. <<>> \in Seq(ReadSteps)
      OBVIOUS
    <3>3. Yields(<<>>) = <<>>
      BY YieldsEmpty
    <3>4. head = <<>>
      BY <2>2
    <3> HIDE DEF head
    <3> QED BY <3>2, <3>3, <3>4
  <2> QED BY <2>1, <2>2
<1>6. SheetReads(s) = (<<own>> \o head) \o rest
  <2>1. SheetReads(s) = <<own>> \o head \o rest
    BY DEF SheetReads, ChartReads
  <2> QED BY <2>1, Zenon
<1> HIDE DEF own, head, rest, found
<1> DEFINE front == <<own>> \o head
<1>7. front \in Seq(ReadSteps)
  BY <1>4, <1>5
<1>8. Yields(front) = <<>>
  <2>1. Yields(<<own>> \o head) = Yields(<<own>>) \o Yields(head)
    BY <1>4, <1>5, YieldsJoin
  <2> QED BY <1>4, <1>5, <2>1
<1> HIDE DEF front
<1>9. SheetReads(s) = front \o rest
  BY <1>6 DEF front
<1>10. Yields(SheetReads(s)) = found
  <2>1. Yields(front \o rest) = Yields(front) \o Yields(rest)
    BY <1>2, <1>7, YieldsJoin
  <2>2. <<>> \o found = found
    BY <1>1
  <2> QED BY <1>2, <1>8, <1>9, <2>1, <2>2
<1>11. front \o rest \in Seq(ReadSteps)
  BY <1>2, <1>7
<1> QED BY <1>9, <1>10, <1>11 DEF found

\* What lists of reads yield one after the other, they yield together.
LEMMA YieldsFlatten ==
  ASSUME NEW ss \in Seq(Seq(ReadSteps))
  PROVE  Yields(FlattenSeq(ss)) = FlattenSeq([i \in DOMAIN ss |-> Yields(ss[i])])
<1> DEFINE Each(tt) == [i \in DOMAIN tt |-> Yields(tt[i])]
           Claim(tt) == Yields(FlattenSeq(tt)) = FlattenSeq(Each(tt))
           P == {tt \in Seq(Seq(ReadSteps)) : Claim(tt)}
<1>0. ASSUME NEW tt \in Seq(Seq(ReadSteps)) PROVE Each(tt) \in Seq(Seq(AnyEntries)) /\ Len(Each(tt)) = Len(tt)
  <2>1. Len(tt) \in Nat /\ DOMAIN tt = 1..Len(tt) /\ \A i \in 1..Len(tt) : tt[i] \in Seq(ReadSteps)
    OBVIOUS
  <2>2. \A i \in 1..Len(tt) : Yields(tt[i]) \in Seq(AnyEntries)
    BY <2>1, YieldsType
  <2> QED BY <2>1, <2>2
<1>1. Claim(<<>>)
  <2>1. FlattenSeq(<<>>) = <<>>
    <3>1. Len(<<>>) = 0
      OBVIOUS
    <3> QED BY <3>1 DEF FlattenSeq
  <2>2. Each(<<>>) = <<>>
    OBVIOUS
  <2> QED BY <2>1, <2>2, YieldsEmpty
<1>2. ASSUME NEW tt \in Seq(Seq(ReadSteps)), NEW t \in Seq(ReadSteps), Claim(tt)
      PROVE  Claim(Append(tt, t))
  <2> DEFINE uu == Append(tt, t)
  <2>1. /\ Len(tt) \in Nat /\ DOMAIN tt = 1..Len(tt) /\ uu \in Seq(Seq(ReadSteps))
        /\ DOMAIN uu = 1..(Len(tt) + 1)
        /\ \A i \in 1..(Len(tt)+1) : uu[i] = IF i = Len(tt) + 1 THEN t ELSE tt[i]
    OBVIOUS
  <2>2. FlattenSeq(uu) = FlattenSeq(tt) \o t /\ FlattenSeq(tt) \in Seq(ReadSteps)
    BY FlattenAppend, FlattenElements
  <2>3. Each(tt) \in Seq(Seq(AnyEntries)) /\ Len(Each(tt)) = Len(tt) /\ Yields(t) \in Seq(AnyEntries)
    BY <1>0, YieldsType
  <2> HIDE DEF uu
  <2>4. Each(uu) = Append(Each(tt), Yields(t))
    <3>1. Append(Each(tt), Yields(t))
            = [k \in 1..(Len(tt)+1) |-> IF k = Len(tt) + 1 THEN Yields(t) ELSE Each(tt)[k]]
      <4> DEFINE g == Each(tt)
                 y == Yields(t)
      <4>0. \A x \in Seq(Seq(AnyEntries)) : \A e \in Seq(AnyEntries) :
              Append(x, e) = [k \in 1..(Len(x)+1) |-> IF k = Len(x) + 1 THEN e ELSE x[k]]
        BY AppendByPlace
      <4>1. g \in Seq(Seq(AnyEntries)) /\ Len(g) = Len(tt) /\ y \in Seq(AnyEntries)
        BY <2>3
      <4> HIDE DEF g, y
      <4>2. Append(g, y) = [k \in 1..(Len(g)+1) |-> IF k = Len(g) + 1 THEN y ELSE g[k]]
        BY <4>0, <4>1, Zenon
      <4> QED BY <4>1, <4>2 DEF g, y
    <3>2. \A k \in 1..(Len(tt)+1) :
            Yields(uu[k]) = IF k = Len(tt) + 1 THEN Yields(t) ELSE Each(tt)[k]
      BY <2>1
    <3>3. Each(uu) = [k \in 1..(Len(tt)+1) |-> Yields(uu[k])]
      BY <2>1
    <3> HIDE DEF Each
    <3> QED BY <3>1, <3>2, <3>3
  <2> HIDE DEF Each
  <2>5. FlattenSeq(Append(Each(tt), Yields(t))) = FlattenSeq(Each(tt)) \o Yields(t)
    BY <2>3, FlattenAppend
  <2>6. Yields(FlattenSeq(tt) \o t) = Yields(FlattenSeq(tt)) \o Yields(t)
    BY <2>2, YieldsJoin
  <2>7. Claim(uu)
    BY <1>2, <2>2, <2>4, <2>5, <2>6
  <2> QED BY <2>7 DEF uu
<1>3. Seq(Seq(ReadSteps)) \subseteq P
  <2> HIDE DEF Claim
  <2>1. <<>> \in P
    <3>1. <<>> \in Seq(Seq(ReadSteps))
      OBVIOUS
    <3> QED BY <1>1, <3>1
  <2>2. \A tt \in Seq(Seq(ReadSteps)), t \in Seq(ReadSteps) : tt \in P => Append(tt, t) \in P
    <3>1. \A tt \in Seq(Seq(ReadSteps)), t \in Seq(ReadSteps) : Append(tt, t) \in Seq(Seq(ReadSteps))
      OBVIOUS
    <3> QED BY <1>2, <3>1
  <2> HIDE DEF P
  <2> QED BY <2>1, <2>2, SeqSetInduction
<1> QED BY <1>3

\* All reads together yield all charts, and what a sheet has read is among them.
LEMMA AllReadsYield ==
  ASSUME file \in Packages
  PROVE  /\ AllReads \in Seq(ReadSteps)
         /\ Yields(AllReads) = AllEntries
         /\ AllEntries \in Seq(AnyEntries)
         /\ \A s \in Sheets : Elements(Reached(s)) \subseteq Elements(AllEntries)
         /\ \A s \in Sheets : Range(SheetReads(s)) \subseteq Elements(AllReads)
<1> DEFINE n == Len(file.sheets)
           ss == [s \in Sheets |-> SheetReads(s)]
           es == [s \in Sheets |-> Reached(s)]
<1>1. Sheets = 1..n /\ n \in Nat
  BY PackageType
<1>2. /\ \A s \in Sheets : SheetReads(s) \in Seq(ReadSteps)
      /\ \A s \in Sheets : Yields(SheetReads(s)) = Reached(s)
  BY SheetReadsYield
<1> HIDE DEF n
<1>3. ss \in Seq(Seq(ReadSteps)) /\ Len(ss) = n /\ DOMAIN ss = Sheets
      /\ \A s \in Sheets : ss[s] = SheetReads(s)
  BY <1>1, <1>2
<1>4. \A s \in Sheets : Reached(s) \in Seq(AnyEntries)
  <2> SUFFICES ASSUME NEW s \in Sheets PROVE Reached(s) \in Seq(AnyEntries)
    OBVIOUS
  <2>1. Reached(s) \in Seq(EntriesAt(s)) /\ EntriesAt(s) \subseteq AnyEntries
    BY ReachedType DEF EntriesAt, AnyEntries
  <2> QED BY <2>1
<1>5. es \in Seq(Seq(AnyEntries)) /\ Len(es) = n /\ \A s \in 1..n : es[s] = Reached(s)
  BY <1>1, <1>4
<1>6. [s \in DOMAIN ss |-> Yields(ss[s])] = es
  BY <1>2, <1>3
<1> HIDE DEF ss, es
<1>7. /\ FlattenSeq(ss) \in Seq(ReadSteps)
      /\ Elements(FlattenSeq(ss)) = UNION {Elements(ss[i]) : i \in 1..Len(ss)}
  BY <1>3, FlattenElements
<1>8. /\ FlattenSeq(es) \in Seq(AnyEntries)
      /\ Elements(FlattenSeq(es)) = UNION {Elements(es[i]) : i \in 1..Len(es)}
  BY <1>5, FlattenElements
<1>9. AllReads = FlattenSeq(ss) /\ AllEntries = FlattenSeq(es)
  BY DEF AllReads, AllEntries, ss, es
<1>10. Yields(AllReads) = AllEntries
  BY <1>3, <1>6, <1>9, YieldsFlatten
<1>11. \A s \in Sheets : Elements(Reached(s)) \subseteq Elements(AllEntries)
  BY <1>1, <1>5, <1>8, <1>9
<1>12. ASSUME NEW s \in Sheets, NEW r \in Range(SheetReads(s)) PROVE r \in Elements(AllReads)
  <2>1. r \in Elements(ss[s])
    <3> DEFINE t == SheetReads(s)
    <3>1. t \in Seq(ReadSteps) /\ r \in Range(t)
      BY <1>2
    <3> HIDE DEF t
    <3>2. r \in Elements(t)
      BY <3>1 DEF Elements, Range
    <3> QED BY <1>3, <3>2 DEF t
  <2> QED BY <1>1, <1>3, <1>7, <1>9, <2>1
<1> QED BY <1>7, <1>8, <1>9, <1>10, <1>11, <1>12

\* Of all charts, those of a sheet are the ones reached from it.
LEMMA ChartsOfSheet ==
  ASSUME file \in Packages, entries = AllEntries, NEW s \in Sheets
  PROVE  ChartsOf(s) = Sorted(Reached(s))
<1> DEFINE n == Len(file.sheets)
           es == [t \in Sheets |-> Reached(t)]
           T == {c \in Range(entries) : c.sheet = s}
<1>1. Sheets = 1..n /\ n \in Nat
  BY PackageType
<1> HIDE DEF n
<1>2. ASSUME NEW t \in Sheets
      PROVE  Reached(t) \in Seq(AnyEntries) /\ \A e \in Elements(Reached(t)) : e.sheet = t
  <2>1. Reached(t) \in Seq(EntriesAt(t)) /\ EntriesAt(t) \subseteq AnyEntries
    BY ReachedType DEF EntriesAt, AnyEntries
  <2>2. Elements(Reached(t)) \subseteq EntriesAt(t)
    BY <2>1, ElementsType
  <2>3. \A e \in EntriesAt(t) : e.sheet = t
    BY DEF EntriesAt
  <2>4. Reached(t) \in Seq(AnyEntries)
    BY <2>1
  <2> QED BY <2>2, <2>3, <2>4
<1>3. es \in Seq(Seq(AnyEntries)) /\ Len(es) = n /\ \A t \in 1..n : es[t] = Reached(t)
  BY <1>1, <1>2
<1>4. entries = FlattenSeq(es)
  BY DEF AllEntries
<1>5. Range(entries) = Elements(AllEntries)
  <2>1. entries \in Seq(AnyEntries)
    BY AllReadsYield
  <2> QED BY <2>1 DEF Range, Elements
<1>6. Elements(es[s]) \subseteq T
  <2>1. Elements(Reached(s)) \subseteq Range(entries)
    BY <1>5, AllReadsYield
  <2> QED BY <1>1, <1>2, <1>3, <2>1
<1>7. \A t \in 1..Len(es) : t # s => Elements(es[t]) \cap T = {}
  BY <1>1, <1>2, <1>3
<1> HIDE DEF es, T
<1>8. Kept(FlattenSeq(es), T) = es[s]
  BY <1>1, <1>3, <1>6, <1>7, KeptOneOf
<1>9. Kept(entries, T) = Reached(s)
  BY <1>1, <1>3, <1>4, <1>8
<1> QED BY <1>9 DEF ChartsOf, T

-----------------------------------------------------------------------------
(* Workbooks: the inductive invariant *)

\* Every chart found has a cell with a row and a column.
CellsRead == \A e \in Range(entries) : Readable(e.cell)

\* The scan has read some first part of all that there is to read, each within
\* the ceiling, and has found what that yields, at cells that could be read.
Scanned ==
  /\ CellsRead
  /\ \E past \in Seq(ReadSteps) :
       /\ AllReads = past \o reads
       /\ entries = Yields(past)
       /\ \A k \in 1..Len(past) : file.actual[past[k].part] <= MaxMember

\* The scan is over: everything was read and found.
AllFound ==
  /\ entries = AllEntries /\ CellsRead
  /\ \A k \in 1..Len(AllReads) : file.actual[AllReads[k].part] <= MaxMember

\* The section of a sheet.
Written(s, renders) ==
  [blank  |-> file.sheets[s].empty /\ Blocks(s, renders) = <<>>,
   table  |-> ~file.sheets[s].empty,
   blocks |-> Blocks(s, renders)]

Sizes == [s \in 1..Len(sections) |-> Len(sections[s].blocks)]

XlsxInv ==
  /\ file \in Packages
  /\ stage \in {"check", "load", "scan", "write", "done"}
  /\ outcome \in {"running", "result", "CorruptArchive", "UnsupportedFormat", "Uncaught"}
  /\ outcome = "running" <=> stage # "done"
  /\ held \in 0..MaxMember
  /\ reads \in Seq(ReadSteps)
  /\ stage \in {"check", "load"} => entries = <<>>
  /\ stage \in {"check", "load", "scan"} => sections = <<>>
  /\ stage \in {"load", "scan", "write"} \/ outcome = "result" => ~TooLargeDeclared
  /\ stage = "scan" => Scanned
  /\ stage = "write" \/ outcome = "result" \/ sections # <<>> => AllFound
  /\ sections \in Seq(Range(sections)) /\ Len(sections) <= Len(file.sheets)
  /\ outcome = "result" => Len(sections) = Len(file.sheets)
  /\ \A s \in 1..Len(sections) :
       \E renders \in [DOMAIN ChartsOf(s) -> BOOLEAN] : sections[s] = Written(s, renders)
  /\ counts.found = SeqSum(Sizes)

\* What depends on the package alone stays as it is.
LEMMA SameFile ==
  ASSUME file' = file
  PROVE  /\ Parts' = Parts /\ Sheets' = Sheets /\ ChartParts' = ChartParts
         /\ TooLargeDeclared' = TooLargeDeclared
         /\ AllReads' = AllReads /\ AllEntries' = AllEntries
         /\ AnyEntries' = AnyEntries /\ ReadSteps' = ReadSteps
<1>1. Parts' = Parts /\ Sheets' = Sheets /\ ChartParts' = ChartParts
  BY DEF Parts, Sheets, ChartParts
<1>2. TooLargeDeclared' = TooLargeDeclared
  BY <1>1 DEF TooLargeDeclared, Declared, Parts
<1>3. \A s : Reached(s)' = Reached(s)
  BY DEF Reached, ChartRefs, Anchors, Present, Parts
<1>4. \A s : SheetReads(s)' = SheetReads(s)
  BY <1>3 DEF SheetReads, Present, Parts
<1>5. AllReads' = AllReads /\ AllEntries' = AllEntries
  BY <1>1, <1>3, <1>4 DEF AllReads, AllEntries
<1>6. AnyEntries' = AnyEntries
  BY <1>1 DEF AnyEntries
<1>7. ReadSteps' = ReadSteps
  BY <1>1, <1>6 DEF ReadSteps
<1> QED BY <1>1, <1>2, <1>5, <1>6, <1>7

\* What depends on the package and the entries alone stays as it is.
LEMMA SameCharts ==
  ASSUME file' = file, entries' = entries
  PROVE  /\ \A s : ChartsOf(s)' = ChartsOf(s)
         /\ \A s, renders : Written(s, renders)' = Written(s, renders)
<1>1. \A s : ChartsOf(s)' = ChartsOf(s)
  BY DEF ChartsOf
<1>2. \A c, r : Block(c, r)' = Block(c, r)
  BY DEF Block
<1>3. \A s, renders : Blocks(s, renders)' = Blocks(s, renders)
  BY <1>1, <1>2 DEF Blocks
<1>4. \A s, renders : Written(s, renders)' = Written(s, renders)
  BY <1>3 DEF Written
<1> QED BY <1>1, <1>4

\* The invariant holds at the start.
LEMMA InitXlsx == XlsxInit => XlsxInv
<1> SUFFICES ASSUME XlsxInit PROVE XlsxInv
  OBVIOUS
<1> USE DEF XlsxInit
<1>1. held \in 0..MaxMember
  BY XlsxAssumption
<1>2. /\ sections \in Seq(Range(sections)) /\ Len(sections) = 0
      /\ reads \in Seq(ReadSteps)
  OBVIOUS
<1>3. Len(file.sheets) \in Nat
  BY PackageType
<1>4. SeqSum(Sizes) = 0
  <2>1. Sizes = <<>> /\ Len(Sizes) = 0
    BY DEF Sizes
  <2> HIDE DEF XlsxInit
  <2>2. Running(Sizes)[0] = 0
    BY <2>1, RunningRecursion
  <2> QED BY <2>1, <2>2 DEF SeqSum
<1>5. counts.found = SeqSum(Sizes)
  BY <1>4
<1>6. \A s \in 1..Len(sections) :
        \E renders \in [DOMAIN ChartsOf(s) -> BOOLEAN] : sections[s] = Written(s, renders)
  BY <1>2
<1> QED BY <1>1, <1>2, <1>3, <1>5, <1>6 DEF XlsxInv

\* An exception leaves the invariant as it is.
LEMMA RaiseXlsx ==
  ASSUME XlsxInv, stage # "done", NEW error,
         error \in {"CorruptArchive", "UnsupportedFormat", "Uncaught"},
         Raise(error)
  PROVE  XlsxInv'
<1>1. /\ stage' = "done" /\ outcome' = error /\ file' = file /\ reads' = reads /\ held' = held
      /\ entries' = entries /\ sections' = sections /\ counts' = counts
  BY DEF Raise
<1>2. ReadSteps' = ReadSteps /\ AllReads' = AllReads /\ AllEntries' = AllEntries
  BY <1>1, SameFile
<1>3. /\ \A s : ChartsOf(s)' = ChartsOf(s)
      /\ \A s, renders : Written(s, renders)' = Written(s, renders)
  BY <1>1, SameCharts
<1>4. Sizes' = Sizes
  BY <1>1 DEF Sizes
<1>5. sections # <<>> => AllFound'
  BY <1>1, <1>2 DEF XlsxInv, AllFound, CellsRead
<1>6. (counts.found = SeqSum(Sizes))'
  BY <1>1, <1>4 DEF XlsxInv
<1>7. (\A s \in 1..Len(sections) :
        \E renders \in [DOMAIN ChartsOf(s) -> BOOLEAN] : sections[s] = Written(s, renders))'
  <2> SUFFICES ASSUME NEW s \in 1..Len(sections)
               PROVE  \E renders \in [DOMAIN (ChartsOf(s)') -> BOOLEAN] :
                        sections[s] = Written(s, renders)'
    BY <1>1
  <2>1. PICK renders \in [DOMAIN ChartsOf(s) -> BOOLEAN] : sections[s] = Written(s, renders)
    BY DEF XlsxInv
  <2> QED BY <1>3, <2>1
<1> QED BY <1>1, <1>2, <1>5, <1>6, <1>7 DEF XlsxInv

\* What a step that writes no section leaves as it was.
LEMMA SectionsKept ==
  ASSUME XlsxInv, file' = file, sections' = sections, counts' = counts,
         sections = <<>> \/ entries' = entries
  PROVE  /\ sections' \in Seq(Range(sections')) /\ Len(sections') <= Len(file'.sheets)
         /\ (\A s \in 1..Len(sections) :
               \E renders \in [DOMAIN ChartsOf(s) -> BOOLEAN] : sections[s] = Written(s, renders))'
         /\ counts'.found = SeqSum(Sizes)'
         /\ file' \in Packages /\ ReadSteps' = ReadSteps
         /\ TooLargeDeclared' = TooLargeDeclared
         /\ AllReads' = AllReads /\ AllEntries' = AllEntries
<1>1. Sizes' = Sizes
  BY DEF Sizes
<1>2. (counts.found = SeqSum(Sizes))'
  BY <1>1 DEF XlsxInv
<1>3. (\A s \in 1..Len(sections) :
        \E renders \in [DOMAIN ChartsOf(s) -> BOOLEAN] : sections[s] = Written(s, renders))'
  <2>1. CASE sections = <<>>
    BY <2>1
  <2>2. CASE entries' = entries
    <3>1. /\ \A s : ChartsOf(s)' = ChartsOf(s)
          /\ \A s, renders : Written(s, renders)' = Written(s, renders)
      BY <2>2, SameCharts
    <3> SUFFICES ASSUME NEW s \in 1..Len(sections)
                 PROVE  \E renders \in [DOMAIN (ChartsOf(s)') -> BOOLEAN] :
                          sections[s] = Written(s, renders)'
      OBVIOUS
    <3>2. PICK renders \in [DOMAIN ChartsOf(s) -> BOOLEAN] : sections[s] = Written(s, renders)
      BY DEF XlsxInv
    <3> QED BY <3>1, <3>2
  <2> QED BY <2>1, <2>2
<1> QED BY <1>2, <1>3, SameFile DEF XlsxInv

\* check_archive() keeps the invariant.
LEMMA CheckKeeps == XlsxInv /\ CheckArchive => XlsxInv'
<1> SUFFICES ASSUME XlsxInv, CheckArchive PROVE XlsxInv'
  OBVIOUS
<1>0. stage = "check"
  BY DEF CheckArchive
<1>1. CASE Raise("CorruptArchive")
  BY <1>0, <1>1, RaiseXlsx
<1>2. CASE ~Raise("CorruptArchive")
  <2>1. /\ ~TooLargeDeclared /\ stage' = "load"
        /\ UNCHANGED <<file, reads, held, entries, sections, counts, outcome>>
    BY <1>2 DEF CheckArchive
  <2>2. /\ sections' \in Seq(Range(sections')) /\ Len(sections') <= Len(file'.sheets)
        /\ (\A s \in 1..Len(sections) :
              \E renders \in [DOMAIN ChartsOf(s) -> BOOLEAN] : sections[s] = Written(s, renders))'
        /\ counts'.found = SeqSum(Sizes)'
        /\ file' \in Packages /\ ReadSteps' = ReadSteps
        /\ TooLargeDeclared' = TooLargeDeclared
    BY <2>1, SectionsKept
  <2>3. sections = <<>> /\ outcome = "running"
    BY <1>0 DEF XlsxInv
  <2> QED BY <1>0, <2>1, <2>2, <2>3 DEF XlsxInv
<1> QED BY <1>1, <1>2

\* load_workbook() does, the reads to come being all reads.
LEMMA LoadKeeps == XlsxInv /\ Load => XlsxInv'
<1> SUFFICES ASSUME XlsxInv, Load PROVE XlsxInv'
  OBVIOUS
<1>0. stage = "load" /\ sections = <<>> /\ entries = <<>> /\ outcome = "running"
      /\ ~TooLargeDeclared /\ file \in Packages
  BY DEF Load, XlsxInv
<1>1. CASE Raise("CorruptArchive") \/ Raise("UnsupportedFormat")
  BY <1>0, <1>1, RaiseXlsx
<1>2. CASE ~(Raise("CorruptArchive") \/ Raise("UnsupportedFormat"))
  <2>1. /\ stage' = "scan" /\ reads' = AllReads
        /\ UNCHANGED <<file, held, entries, sections, counts, outcome>>
    BY <1>2 DEF Load, AllReads
  <2>2. /\ sections' \in Seq(Range(sections')) /\ Len(sections') <= Len(file'.sheets)
        /\ (\A s \in 1..Len(sections) :
              \E renders \in [DOMAIN ChartsOf(s) -> BOOLEAN] : sections[s] = Written(s, renders))'
        /\ counts'.found = SeqSum(Sizes)'
        /\ file' \in Packages /\ ReadSteps' = ReadSteps
        /\ TooLargeDeclared' = TooLargeDeclared
        /\ AllReads' = AllReads
    BY <2>1, SectionsKept
  <2>3. AllReads \in Seq(ReadSteps)
    BY <1>0, AllReadsYield
  <2>4. Scanned'
    <3>1. <<>> \in Seq(ReadSteps) /\ AllReads = <<>> \o AllReads /\ Len(<<>>) = 0
      BY <2>3
    <3>2. Yields(<<>>) = <<>> /\ Yields(<<>>)' = <<>>
      BY YieldsEmpty DEF Yields
    <3>3. \A rs : Yields(rs)' = Yields(rs)
      BY DEF Yields
    <3>5. CellsRead'
      BY <1>0, <2>1 DEF CellsRead, Range
    <3>4. /\ AllReads' = <<>> \o reads'
          /\ entries' = Yields(<<>>)'
          /\ \A k \in 1..Len(<<>>) : file'.actual[<<>>[k].part] <= MaxMember
      BY <1>0, <2>1, <2>2, <3>1, <3>2
    <3> QED BY <2>2, <3>1, <3>4, <3>5 DEF Scanned
  <2> QED BY <1>0, <2>1, <2>2, <2>3, <2>4 DEF XlsxInv
<1> QED BY <1>1, <1>2

\* safe_read() does: a chunk is kept only within the ceiling.
LEMMA ReadChunkKeeps == XlsxInv /\ ReadChunk => XlsxInv'
<1> SUFFICES ASSUME XlsxInv, ReadChunk PROVE XlsxInv'
  OBVIOUS
<1>0. stage = "scan" /\ outcome = "running" /\ sections = <<>> /\ Left > 0
  BY DEF ReadChunk, XlsxInv
<1>1. CASE held + Chunk > MaxMember
  <2>1. Raise("CorruptArchive")
    BY <1>1 DEF ReadChunk
  <2> QED BY <1>0, <2>1, RaiseXlsx
<1>2. CASE ~(held + Chunk > MaxMember)
  <2>1. held' = held + Chunk /\ UNCHANGED <<file, stage, reads, entries, sections, counts, outcome>>
    BY <1>2 DEF ReadChunk
  <2>2. /\ sections' \in Seq(Range(sections')) /\ Len(sections') <= Len(file'.sheets)
        /\ (\A s \in 1..Len(sections) :
              \E renders \in [DOMAIN ChartsOf(s) -> BOOLEAN] : sections[s] = Written(s, renders))'
        /\ counts'.found = SeqSum(Sizes)'
        /\ file' \in Packages /\ ReadSteps' = ReadSteps
        /\ TooLargeDeclared' = TooLargeDeclared
        /\ AllReads' = AllReads
    BY <2>1, SectionsKept
  <2>3. held' \in 0..MaxMember
    <3>1. file.actual[Head(reads).part] \in Nat
      <4>1. reads \in Seq(ReadSteps) /\ reads # <<>>
        BY DEF XlsxInv, ReadChunk
      <4>2. Head(reads) \in ReadSteps
        BY <4>1
      <4>3. Head(reads).part \in Parts
        BY <4>2 DEF ReadSteps
      <4>4. file.actual \in [Parts -> Nat]
        BY PackageType DEF XlsxInv
      <4> QED BY <4>3, <4>4
    <3>2. held \in Nat /\ MaxMember \in Nat /\ ChunkSize \in Nat
      BY XlsxAssumption DEF XlsxInv
    <3>3. Left \in Int
      BY <3>1, <3>2 DEF Left
    <3>4. Chunk \in Nat
      <4>1. {Left, ChunkSize} \in SUBSET Nat /\ {Left, ChunkSize} # {}
        BY <1>0, <3>2, <3>3
      <4>2. Min({Left, ChunkSize}) \in {Left, ChunkSize}
        BY <4>1, MinOfNats
      <4> QED BY <4>1, <4>2 DEF Chunk
    <3> QED BY <1>2, <2>1, <3>2, <3>4
  <2>4. Scanned'
    <3>1. \A rs : Yields(rs)' = Yields(rs)
      BY DEF Yields
    <3>2. Scanned
      BY <1>0 DEF XlsxInv
    <3> QED BY <2>1, <2>2, <3>1, <3>2 DEF Scanned, CellsRead
  <2> QED BY <1>0, <2>1, <2>2, <2>3, <2>4 DEF XlsxInv
<1> QED BY <1>1, <1>2

\* iter_chart_entries() does: the part that was read moves to the past.
LEMMA ReadPartKeeps == XlsxInv /\ ReadPart => XlsxInv'
<1> SUFFICES ASSUME XlsxInv, ReadPart PROVE XlsxInv'
  OBVIOUS
<1>0. stage = "scan" /\ outcome = "running" /\ sections = <<>> /\ Left = 0 /\ reads # <<>>
      /\ file \in Packages /\ reads \in Seq(ReadSteps)
  BY DEF ReadPart, XlsxInv
<1>1. CASE \E error \in {"CorruptArchive", "Uncaught"} : Raise(error)
  BY <1>0, <1>1, RaiseXlsx
<1>2. CASE ~\E error \in {"CorruptArchive", "Uncaught"} : Raise(error)
  <2>1. /\ \A chart \in Range(Head(reads).yields) : Readable(chart.cell)
        /\ entries' = entries \o Head(reads).yields /\ reads' = Tail(reads) /\ held' = 0
        /\ UNCHANGED <<file, stage, sections, counts, outcome>>
    BY <1>2 DEF ReadPart
  <2>2. /\ sections' \in Seq(Range(sections')) /\ Len(sections') <= Len(file'.sheets)
        /\ (\A s \in 1..Len(sections) :
              \E renders \in [DOMAIN ChartsOf(s) -> BOOLEAN] : sections[s] = Written(s, renders))'
        /\ counts'.found = SeqSum(Sizes)'
        /\ file' \in Packages /\ ReadSteps' = ReadSteps
        /\ TooLargeDeclared' = TooLargeDeclared
        /\ AllReads' = AllReads
    BY <1>0, <2>1, SectionsKept
  <2>3. held' \in 0..MaxMember /\ reads' \in Seq(ReadSteps)
    BY <1>0, <2>1, XlsxAssumption
  <2>4. Scanned'
    <3> DEFINE r == Head(reads)
    <3>1. PICK past \in Seq(ReadSteps) :
            /\ AllReads = past \o reads
            /\ entries = Yields(past)
            /\ \A k \in 1..Len(past) : file.actual[past[k].part] <= MaxMember
      BY <1>0 DEF XlsxInv, Scanned
    <3>12. CellsRead'
      <4>1. entries \in Seq(AnyEntries) /\ r.yields \in Seq(AnyEntries)
        <5>1. r \in ReadSteps
          BY <1>0
        <5> QED BY <3>1, <5>1, YieldsType DEF ReadSteps
      <4> HIDE DEF r
      <4>2. Range(entries \o r.yields) \subseteq Range(entries) \cup Range(r.yields)
        BY <4>1 DEF Range
      <4>3. CellsRead
        BY <1>0 DEF XlsxInv, Scanned
      <4>4. entries' = entries \o r.yields /\ \A chart \in Range(r.yields) : Readable(chart.cell)
        BY <2>1 DEF r
      <4> QED BY <4>2, <4>3, <4>4 DEF CellsRead
    <3>2. r \in ReadSteps /\ past \o reads = Append(past, r) \o Tail(reads)
      BY <1>0
    <3>3. file.actual[r.part] <= MaxMember
      <4>1. r.part \in Parts
        BY <3>2 DEF ReadSteps
      <4>2. file.actual[r.part] \in Nat
        BY <1>0, <4>1, PackageType
      <4>3. held \in 0..MaxMember /\ MaxMember \in Nat
        BY XlsxAssumption DEF XlsxInv
      <4> QED BY <1>0, <4>2, <4>3 DEF Left
    <3> HIDE DEF r
    <3>4. /\ Append(past, r) \in Seq(ReadSteps) /\ Len(Append(past, r)) = Len(past) + 1
          /\ \A k \in 1..(Len(past)+1) :
               Append(past, r)[k] = IF k = Len(past) + 1 THEN r ELSE past[k]
          /\ Len(past) \in Nat
      BY <3>1, <3>2
    <3>5. Yields(Append(past, r)) = Yields(past) \o r.yields
      BY <3>1, <3>2, YieldsAppend
    <3>6. \A k \in 1..Len(Append(past, r)) : file.actual[Append(past, r)[k].part] <= MaxMember
      BY <3>1, <3>3, <3>4
    <3>7. entries' = Yields(Append(past, r))
      BY <2>1, <3>1, <3>5 DEF r
    <3>8. AllReads' = Append(past, r) \o reads'
      BY <2>1, <2>2, <3>1, <3>2
    <3>9. \A rs : Yields(rs)' = Yields(rs)
      BY DEF Yields
    <3> DEFINE more == Append(past, r)
    <3>10. more \in Seq(ReadSteps')
      BY <2>2, <3>4
    <3>11. \A k \in 1..Len(more) : file'.actual[more[k].part] <= MaxMember
      BY <2>1, <3>6
    <3> HIDE DEF more
    <3> QED BY <3>7, <3>8, <3>9, <3>10, <3>11, <3>12 DEF Scanned, more
  <2> QED BY <1>0, <2>1, <2>2, <2>3, <2>4 DEF XlsxInv
<1> QED BY <1>1, <1>2

\* The end of the scan does: no read is left, so everything was found.
LEMMA FinishScanKeeps == XlsxInv /\ FinishScan => XlsxInv'
<1> SUFFICES ASSUME XlsxInv, FinishScan PROVE XlsxInv'
  OBVIOUS
<1>0. stage = "scan" /\ outcome = "running" /\ sections = <<>> /\ reads = <<>> /\ file \in Packages
  BY DEF FinishScan, XlsxInv
<1>1. CASE \E chart \in Range(entries) : chart.cell[1] < 0
  <2>1. Raise("Uncaught")
    BY <1>1 DEF FinishScan
  <2> QED BY <1>0, <2>1, RaiseXlsx
<1>2. CASE ~\E chart \in Range(entries) : chart.cell[1] < 0
  <2>1. stage' = "write" /\ UNCHANGED <<file, reads, held, entries, sections, counts, outcome>>
    BY <1>2 DEF FinishScan
  <2>2. /\ sections' \in Seq(Range(sections')) /\ Len(sections') <= Len(file'.sheets)
        /\ (\A s \in 1..Len(sections) :
              \E renders \in [DOMAIN ChartsOf(s) -> BOOLEAN] : sections[s] = Written(s, renders))'
        /\ counts'.found = SeqSum(Sizes)'
        /\ file' \in Packages /\ ReadSteps' = ReadSteps
        /\ TooLargeDeclared' = TooLargeDeclared
        /\ AllReads' = AllReads /\ AllEntries' = AllEntries
    BY <2>1, SectionsKept
  <2>3. AllFound
    <3>1. PICK past \in Seq(ReadSteps) :
            /\ AllReads = past \o reads
            /\ entries = Yields(past)
            /\ \A k \in 1..Len(past) : file.actual[past[k].part] <= MaxMember
      BY <1>0 DEF XlsxInv, Scanned
    <3>2. past \o <<>> = past
      BY <3>1
    <3>3. AllReads = past
      BY <1>0, <3>1, <3>2
    <3>4. Yields(AllReads) = AllEntries
      BY <1>0, AllReadsYield
    <3>5. CellsRead
      BY <1>0 DEF XlsxInv, Scanned
    <3> QED BY <3>1, <3>3, <3>4, <3>5 DEF AllFound
  <2>4. AllFound'
    BY <2>1, <2>2, <2>3 DEF AllFound, CellsRead
  <2> QED BY <1>0, <2>1, <2>2, <2>4 DEF XlsxInv
<1> QED BY <1>1, <1>2

\* The charts of a sheet, when all were found, are those that can be reached.
LEMMA SheetCharts ==
  ASSUME file \in Packages, AllFound, NEW s \in Sheets
  PROVE  /\ ChartsOf(s) \in Seq(EntriesAt(s)) /\ Len(ChartsOf(s)) \in Nat
         /\ DOMAIN ChartsOf(s) = 1..Len(ChartsOf(s))
         /\ Reached(s) \in Seq(EntriesAt(s)) /\ Len(ChartsOf(s)) = Len(Reached(s))
         /\ \E q \in Bijection(1..Len(Reached(s)), 1..Len(Reached(s))) :
              \A n \in 1..Len(Reached(s)) : ChartsOf(s)[n] = Reached(s)[q[n]]
         /\ \A m, n \in 1..Len(ChartsOf(s)) :
              CellBefore(ChartsOf(s)[m].cell, ChartsOf(s)[n].cell) => m < n
<1>1. ChartsOf(s) = Sorted(Reached(s)) /\ Reached(s) \in Seq(EntriesAt(s))
  BY ChartsOfSheet, ReachedType DEF AllFound
<1> DEFINE S == {e \in EntriesAt(s) : e.cell \in Int \X Int}
           list == Reached(s)
<1>2. \A e \in Elements(list) : e.cell \in Int \X Int
  <2>1. AllEntries \in Seq(AnyEntries) /\ Elements(list) \subseteq Elements(AllEntries)
    BY AllReadsYield
  <2>2. Elements(list) \subseteq Range(entries)
    BY <2>1 DEF AllFound, Elements, Range
  <2> HIDE DEF list
  <2> SUFFICES ASSUME NEW e \in Elements(list) PROVE e.cell \in Int \X Int
    OBVIOUS
  <2>3. e \in Elements(AllEntries) /\ Elements(AllEntries) \subseteq AnyEntries
    BY <2>1, ElementsType
  <2>4. e.cell \in Cells /\ Readable(e.cell)
    BY <2>2, <2>3 DEF AllFound, CellsRead, AnyEntries
  <2> QED BY <2>4, XlsxAssumption DEF Cells, Readable
<1>3. list \in Seq(S) /\ \A e \in S : e.cell \in Int \X Int /\ e \in EntriesAt(s)
  <2>1. list \in Seq(EntriesAt(s)) /\ \A n \in 1..Len(list) : list[n].cell \in Int \X Int
    BY <1>1, <1>2 DEF Elements
  <2> HIDE DEF list
  <2> QED BY <2>1
<1>4. ChartsOf(s) = Sorted(list)
  BY <1>1
<1> HIDE DEF S, list
<1>5. /\ Sorted(list) \in Seq(S) /\ Len(Sorted(list)) = Len(list)
      /\ \E q \in Bijection(1..Len(list), 1..Len(list)) :
           \A n \in 1..Len(list) : Sorted(list)[n] = list[q[n]]
      /\ \A m, n \in 1..Len(list) :
           CellBefore(Sorted(list)[m].cell, Sorted(list)[n].cell) => m < n
  BY <1>3, SortedPermutes
<1>6. Len(Sorted(list)) \in Nat /\ DOMAIN Sorted(list) = 1..Len(Sorted(list))
  BY <1>5
<1> DEFINE charts == ChartsOf(s)
<1>7. charts = Sorted(list)
  BY <1>4
<1> HIDE DEF charts
<1>8. /\ charts \in Seq(S) /\ Len(charts) = Len(list)
      /\ Len(charts) \in Nat /\ DOMAIN charts = 1..Len(charts)
      /\ \E q \in Bijection(1..Len(list), 1..Len(list)) :
           \A n \in 1..Len(list) : charts[n] = list[q[n]]
      /\ \A m, n \in 1..Len(charts) : CellBefore(charts[m].cell, charts[n].cell) => m < n
  BY <1>5, <1>6, <1>7
<1>9. charts \in Seq(EntriesAt(s)) /\ list \in Seq(EntriesAt(s))
  BY <1>3, <1>8
<1> QED BY <1>8, <1>9 DEF list, charts

\* The blocks of a sheet, one for each of its charts, in the same order.
LEMMA SheetBlocks ==
  ASSUME file \in Packages, AllFound, NEW s \in Sheets, NEW renders
  PROVE  /\ DOMAIN Blocks(s, renders) = 1..Len(ChartsOf(s))
         /\ Len(Blocks(s, renders)) = Len(ChartsOf(s))
         /\ \A k \in 1..Len(ChartsOf(s)) :
              /\ Blocks(s, renders)[k] = Block(ChartsOf(s)[k], renders[k])
              /\ Blocks(s, renders)[k].cell = ChartsOf(s)[k].cell
              /\ Blocks(s, renders)[k].part = ChartsOf(s)[k].part
<1> DEFINE charts == ChartsOf(s)
<1>1. Len(charts) \in Nat /\ DOMAIN charts = 1..Len(charts)
  BY SheetCharts
<1> HIDE DEF charts
<1>2. Blocks(s, renders) = [k \in 1..Len(charts) |-> Block(charts[k], renders[k])]
  BY <1>1 DEF Blocks, charts
<1>3. \A c, r : Block(c, r).cell = c.cell /\ Block(c, r).part = c.part
  BY DEF Block
<1> DEFINE blocks == Blocks(s, renders)
<1>4. blocks = [k \in 1..Len(charts) |-> Block(charts[k], renders[k])]
  BY <1>2
<1> HIDE DEF blocks
<1>5. /\ DOMAIN blocks = 1..Len(charts) /\ Len(blocks) = Len(charts)
      /\ \A k \in 1..Len(charts) : blocks[k] = Block(charts[k], renders[k])
  BY <1>1, <1>4
<1>6. \A k \in 1..Len(charts) : blocks[k].cell = charts[k].cell /\ blocks[k].part = charts[k].part
  BY <1>3, <1>5
<1> QED BY <1>5, <1>6 DEF blocks, charts

\* convert()'s loop does: the section that it writes is that of its sheet.
LEMMA WriteKeeps == XlsxInv /\ Write => XlsxInv'
<1> SUFFICES ASSUME XlsxInv, Write PROVE XlsxInv'
  OBVIOUS
<1>0. /\ stage = "write" /\ outcome = "running" /\ Next1 \in Sheets /\ AllFound /\ file \in Packages
      /\ ~TooLargeDeclared
  BY DEF Write, XlsxInv
<1>1. CASE ~file.sheets[Next1].grid \/ ChartRaises(Next1)
  <2>1. Raise("Uncaught")
    BY <1>1 DEF Write
  <2> QED BY <1>0, <2>1, RaiseXlsx
<1>2. CASE ~(~file.sheets[Next1].grid \/ ChartRaises(Next1))
  <2>1. PICK renders \in [DOMAIN ChartsOf(Next1) -> BOOLEAN] : WriteSheet(renders)
    BY <1>2 DEF Write
  <2>2. UNCHANGED <<file, stage, reads, held, entries, outcome>>
    BY <1>2 DEF Write
  <2> DEFINE new == Written(Next1, renders)
  <2>3. /\ sections' = Append(sections, new)
        /\ counts'.found = counts.found + Len(new.blocks)
    BY <2>1 DEF WriteSheet, AddSection, Written
  <2>4. /\ ReadSteps' = ReadSteps /\ TooLargeDeclared' = TooLargeDeclared
        /\ AllReads' = AllReads /\ AllEntries' = AllEntries
    BY <2>2, SameFile
  <2>5. /\ \A s : ChartsOf(s)' = ChartsOf(s)
        /\ \A s, r : Written(s, r)' = Written(s, r)
    BY <2>2, SameCharts
  <2>6. AllFound'
    BY <1>0, <2>2, <2>4 DEF AllFound, CellsRead
  <2>7. sections \in Seq(Range(sections)) /\ Len(sections) \in Nat
    BY DEF XlsxInv
  <2>8. Len(sections) + 1 <= Len(file.sheets)
    BY <1>0, <2>7, PackageType DEF Next1
  <2> HIDE DEF new
  <2>9. /\ Len(sections') = Len(sections) + 1 /\ sections'[Len(sections) + 1] = new
        /\ \A s \in 1..Len(sections) : sections'[s] = sections[s]
    BY <2>3, <2>7
  <2>10. sections' \in Seq(Range(sections'))
    <3> DEFINE A == Range(sections) \cup {new}
               t == Append(sections, new)
    <3>1. sections \in Seq(A) /\ new \in A
      BY <2>7
    <3>2. t \in Seq(A)
      BY <3>1
    <3> HIDE DEF t
    <3>3. t \in Seq(Range(t))
      BY <3>2 DEF Range
    <3> QED BY <2>3, <3>3 DEF t
  <2>11. ASSUME NEW s \in 1..Len(sections')
         PROVE  \E r \in [DOMAIN ChartsOf(s) -> BOOLEAN] : sections'[s] = Written(s, r)
    <3>1. CASE s \in 1..Len(sections)
      BY <2>9, <3>1 DEF XlsxInv
    <3>2. CASE s = Len(sections) + 1
      BY <2>9, <3>2 DEF Next1, new
    <3> QED BY <2>7, <2>9, <3>1, <3>2
  <2>12. (\A s \in 1..Len(sections) :
            \E r \in [DOMAIN ChartsOf(s) -> BOOLEAN] : sections[s] = Written(s, r))'
    BY <2>5, <2>11
  <2>13. counts'.found = SeqSum(Sizes')
    <3> DEFINE n == Len(new.blocks)
               A == {Len(sections[s].blocks) : s \in 1..Len(sections)} \cup {n}
    <3>1. Sizes \in Seq(A) /\ n \in A /\ Len(Sizes) = Len(sections)
      BY <2>7 DEF Sizes
    <3>2. Append(Sizes, n) = [k \in 1..(Len(Sizes) + 1) |->
                                IF k = Len(Sizes) + 1 THEN n ELSE Sizes[k]]
      BY <3>1, AppendByPlace
    <3>3. Sizes' = [k \in 1..(Len(sections) + 1) |->
                      IF k = Len(sections) + 1 THEN n ELSE Len(sections[k].blocks)]
      BY <2>7, <2>9 DEF Sizes
    <3>4. \A k \in 1..Len(sections) : Sizes[k] = Len(sections[k].blocks)
      BY DEF Sizes
    <3> HIDE DEF n
    <3>5. Sizes' = Append(Sizes, n)
      BY <2>7, <3>1, <3>2, <3>3, <3>4
    <3>6. SeqSum(Append(Sizes, n)) = SeqSum(Sizes) + n
      BY <3>1, SumAppend
    <3> QED BY <2>3, <3>5, <3>6 DEF XlsxInv, n
  <2> QED BY <1>0, <2>2, <2>4, <2>6, <2>7, <2>8, <2>9, <2>10, <2>12, <2>13 DEF XlsxInv
<1> QED BY <1>1, <1>2

\* The end of the loop does: every sheet has its section.
LEMMA FinishKeeps == XlsxInv /\ Finish => XlsxInv'
<1> SUFFICES ASSUME XlsxInv, Finish PROVE XlsxInv'
  OBVIOUS
<1>0. stage = "write" /\ Next1 \notin Sheets /\ file \in Packages /\ AllFound /\ ~TooLargeDeclared
  BY DEF Finish, XlsxInv
<1>1. stage' = "done" /\ outcome' = "result"
      /\ UNCHANGED <<file, reads, held, entries, sections, counts>>
  BY DEF Finish
<1>2. /\ sections' \in Seq(Range(sections')) /\ Len(sections') <= Len(file'.sheets)
      /\ (\A s \in 1..Len(sections) :
            \E renders \in [DOMAIN ChartsOf(s) -> BOOLEAN] : sections[s] = Written(s, renders))'
      /\ counts'.found = SeqSum(Sizes)'
      /\ file' \in Packages /\ ReadSteps' = ReadSteps
      /\ TooLargeDeclared' = TooLargeDeclared
      /\ AllReads' = AllReads /\ AllEntries' = AllEntries
  BY <1>1, SectionsKept
<1>3. AllFound'
  BY <1>0, <1>1, <1>2 DEF AllFound, CellsRead
<1>4. Len(sections) = Len(file.sheets)
  <2>1. Len(sections) \in Nat /\ Len(sections) <= Len(file.sheets)
    BY DEF XlsxInv
  <2>2. Len(file.sheets) \in Nat /\ Sheets = 1..Len(file.sheets)
    BY <1>0, PackageType
  <2> QED BY <1>0, <2>1, <2>2 DEF Next1
<1> QED BY <1>0, <1>1, <1>2, <1>3, <1>4 DEF XlsxInv

\* And so does a step of something else.
LEMMA StutterXlsx == XlsxInv /\ UNCHANGED xlsxVars => XlsxInv'
<1> SUFFICES ASSUME XlsxInv, UNCHANGED xlsxVars PROVE XlsxInv'
  OBVIOUS
<1>1. UNCHANGED <<file, stage, reads, held, entries, sections, counts, outcome>>
  BY DEF xlsxVars
<1>2. /\ sections' \in Seq(Range(sections')) /\ Len(sections') <= Len(file'.sheets)
      /\ (\A s \in 1..Len(sections) :
            \E renders \in [DOMAIN ChartsOf(s) -> BOOLEAN] : sections[s] = Written(s, renders))'
      /\ counts'.found = SeqSum(Sizes)'
      /\ file' \in Packages /\ ReadSteps' = ReadSteps
      /\ TooLargeDeclared' = TooLargeDeclared
      /\ AllReads' = AllReads /\ AllEntries' = AllEntries
  BY <1>1, SectionsKept
<1>3. AllFound => AllFound'
  BY <1>1, <1>2 DEF AllFound, CellsRead
<1>4. \A rs : Yields(rs)' = Yields(rs)
  BY DEF Yields
<1>5. Scanned => Scanned'
  BY <1>1, <1>2, <1>4 DEF Scanned, CellsRead
<1> QED BY <1>1, <1>2, <1>3, <1>5 DEF XlsxInv

\* The invariant of convert(), which the four theorems rest on.
THEOREM XlsxInvariant == XlsxSpec => []XlsxInv
<1>1. XlsxInv /\ [XlsxNext]_xlsxVars => XlsxInv'
  BY CheckKeeps, LoadKeeps, ReadChunkKeeps, ReadPartKeeps, FinishScanKeeps, WriteKeeps,
     FinishKeeps, StutterXlsx DEF XlsxNext
<1> QED BY <1>1, InitXlsx, PTL DEF XlsxSpec

-----------------------------------------------------------------------------
(* Workbooks: the theorems *)

\* XlsxTypes, for every package and every ceiling: safe_read() keeps no byte
\* past the ceiling of a part.  convert() answers only for an archive whose
\* declared sizes are within the ceilings, and then every part that it has read
\* for its charts is within the ceiling of a part by its actual size.
THEOREM XlsxTypesCorrect == XlsxSpec => []XlsxTypes
<1>1. XlsxInv => XlsxTypes
  <2> SUFFICES ASSUME XlsxInv PROVE XlsxTypes
    OBVIOUS
  <2>1. ASSUME outcome = "result", NEW s \in Sheets, NEW read \in Range(SheetReads(s))
        PROVE  file.actual[read.part] <= MaxMember
    <3>1. \A k \in 1..Len(AllReads) : file.actual[AllReads[k].part] <= MaxMember
      BY <2>1 DEF XlsxInv, AllFound
    <3>2. read \in Elements(AllReads)
      BY AllReadsYield DEF XlsxInv
    <3> QED BY <3>1, <3>2 DEF Elements
  <2> QED BY <2>1 DEF XlsxInv, XlsxTypes
<1> QED BY <1>1, XlsxInvariant, PTL

\* A written section is that of its sheet, with a block for each chart.
LEMMA SectionOfSheet ==
  ASSUME XlsxInv, NEW s \in 1..Len(sections)
  PROVE  /\ file \in Packages /\ AllFound /\ s \in Sheets
         /\ \E renders : sections[s] = Written(s, renders)
<1>1. s \in Sheets
  <2>1. Len(sections) \in Nat /\ Len(sections) <= Len(file.sheets) /\ file \in Packages
    BY DEF XlsxInv
  <2> QED BY <2>1, PackageType
<1>2. sections # <<>>
  BY DEF XlsxInv
<1> QED BY <1>1, <1>2 DEF XlsxInv

\* Every block with data is that of a chart of the package.
LEMMA DataBlocksType ==
  ASSUME XlsxInv, NEW b \in DataBlocks
  PROVE  \E chart, renders :
           /\ b = Block(chart, renders) /\ ~Block(chart, renders).marker
           /\ IsChart(file.charts[chart.part])
<1>1. PICK s \in DOMAIN sections : b \in Range(sections[s].blocks) /\ ~b.marker
  BY DEF DataBlocks
<1>2. s \in 1..Len(sections)
  BY <1>1 DEF XlsxInv
<1>3. PICK renders : sections[s] = Written(s, renders)
  BY <1>2, SectionOfSheet
<1>4. file \in Packages /\ AllFound /\ s \in Sheets
  BY <1>2, SectionOfSheet
<1>5. sections[s].blocks = Blocks(s, renders)
  BY <1>3 DEF Written
<1>6. /\ DOMAIN Blocks(s, renders) = 1..Len(ChartsOf(s))
      /\ \A k \in 1..Len(ChartsOf(s)) :
           Blocks(s, renders)[k] = Block(ChartsOf(s)[k], renders[k])
  BY <1>4, SheetBlocks
<1>7. PICK k \in 1..Len(ChartsOf(s)) : b = Block(ChartsOf(s)[k], renders[k])
  BY <1>1, <1>5, <1>6 DEF Range
<1>8. ChartsOf(s)[k] \in EntriesAt(s)
  <2>1. ChartsOf(s) \in Seq(EntriesAt(s))
    BY <1>4, SheetCharts
  <2> QED BY <1>7, <2>1
<1>9. IsChart(file.charts[ChartsOf(s)[k].part])
  BY <1>4, <1>8, PackageType DEF EntriesAt
<1> QED BY <1>1, <1>7, <1>9

\* ValuesInPlace, for every chart that an untrusted file may hold: whatever
\* the indices, counts and gaps of its caches, what _materialize_num() and
\* _table() put in a series' column of a row is what the cache of that series
\* has in force there, and nothing where it has nothing.  So is the row's label
\* for _materialize_str() and every series with categories, if they share them;
\* of series with different categories nothing is said.
THEOREM ValuesCorrect == XlsxSpec => []ValuesInPlace
<1>1. XlsxInv => ValuesInPlace
  <2> SUFFICES ASSUME XlsxInv, NEW b \in DataBlocks PROVE ValuesOf(b)
    BY DEF ValuesInPlace, ValuesOf
  <2>1. PICK chart, renders :
          /\ b = Block(chart, renders) /\ ~Block(chart, renders).marker
          /\ IsChart(file.charts[chart.part])
    BY DataBlocksType
  <2>2. ValuesOf(Block(chart, renders))
    BY <2>1, BlockValues
  <2> QED BY <2>1, <2>2
<1> QED BY <1>1, XlsxInvariant, PTL

\* DiagramSaysTheTable, likewise: a mermaid diagram has the values of the
\* table and no other.  None is drawn where the table has a gap or where bars,
\* lines or areas are stacked; and a lone pie or doughnut has one only if there
\* is one series, without a negative value.
THEOREM DiagramsCorrect == XlsxSpec => []DiagramSaysTheTable
<1>1. XlsxInv => DiagramSaysTheTable
  <2> SUFFICES ASSUME XlsxInv, NEW b \in DataBlocks PROVE DiagramOf(b)
    BY DEF DiagramSaysTheTable, DiagramOf
  <2>1. PICK chart, renders :
          /\ b = Block(chart, renders) /\ ~Block(chart, renders).marker
          /\ IsChart(file.charts[chart.part])
    BY DataBlocksType
  <2>2. DiagramOf(Block(chart, renders))
    BY <2>1, BlockDiagram
  <2> QED BY <2>1, <2>2
<1> QED BY <1>1, XlsxInvariant, PTL

\* A section shows a chart of its sheet as often as it is anchored.
LEMMA ShownAsAnchored ==
  ASSUME XlsxInv, NEW s \in 1..Len(sections), NEW cell, NEW part \in Parts
  PROVE  Shown(sections[s], cell, part) = Anchored(s, cell, part)
<1> DEFINE entry == [sheet |-> s, cell |-> cell, part |-> part]
           charts == ChartsOf(s)
           there == Reached(s)
<1>1. file \in Packages /\ AllFound /\ s \in Sheets
  BY SectionOfSheet
<1>2. PICK renders : sections[s] = Written(s, renders)
  BY SectionOfSheet
<1> DEFINE blocks == Blocks(s, renders)
<1>3. /\ sections[s].blocks = blocks
      /\ DOMAIN blocks = 1..Len(charts)
      /\ \A k \in 1..Len(charts) :
           blocks[k].cell = charts[k].cell /\ blocks[k].part = charts[k].part
  <2>1. sections[s].blocks = Blocks(s, renders)
    BY <1>2 DEF Written
  <2>2. /\ DOMAIN Blocks(s, renders) = 1..Len(ChartsOf(s))
        /\ \A k \in 1..Len(ChartsOf(s)) :
             /\ Blocks(s, renders)[k].cell = ChartsOf(s)[k].cell
             /\ Blocks(s, renders)[k].part = ChartsOf(s)[k].part
    BY <1>1, SheetBlocks
  <2> QED BY <2>1, <2>2
<1>4. /\ charts \in Seq(EntriesAt(s)) /\ there \in Seq(EntriesAt(s))
      /\ Len(charts) = Len(there)
      /\ \E q \in Bijection(1..Len(there), 1..Len(there)) :
           \A n \in 1..Len(there) : charts[n] = there[q[n]]
  BY <1>1, SheetCharts
<1>5. Count(there, entry) = Anchored(s, cell, part)
  BY <1>1, ReachedAsAnchored
<1> HIDE DEF blocks, charts, there, entry
<1>6. Count(charts, entry) = Count(there, entry)
  BY <1>4, CountPermuted
<1>7. {b \in DOMAIN sections[s].blocks :
         sections[s].blocks[b].cell = cell /\ sections[s].blocks[b].part = part}
        = Places(charts, entry)
  <2>1. ASSUME NEW k \in 1..Len(charts)
        PROVE  charts[k] = entry <=> (blocks[k].cell = cell /\ blocks[k].part = part)
    <3>1. charts[k] \in EntriesAt(s)
      BY <1>4
    <3>2. charts[k] = [sheet |-> s, cell |-> charts[k].cell, part |-> charts[k].part]
      BY <3>1 DEF EntriesAt
    <3>3. blocks[k].cell = charts[k].cell /\ blocks[k].part = charts[k].part
      BY <1>3
    <3> QED BY <3>2, <3>3 DEF entry
  <2> QED BY <1>3, <2>1 DEF Places
<1> QED BY <1>5, <1>6, <1>7 DEF Shown, Count

\* ChartsShownOnce, for every workbook: whatever its drawings, groups and
\* dangling references, no chart is lost or shown twice between the scan,
\* the sort and the sheets, and found_charts is the number shown.
THEOREM ChartsCorrect == XlsxSpec => []ChartsShownOnce
<1>1. XlsxInv => ChartsShownOnce
  <2> SUFFICES ASSUME XlsxInv, outcome = "result" PROVE ChartsShownOnce
    BY DEF ChartsShownOnce
  <2>1. file \in Packages /\ Len(sections) = Len(file.sheets) /\ Sheets = 1..Len(sections)
    BY PackageType DEF XlsxInv
  <2>2. counts.found = SeqSum([s \in Sheets |-> Len(sections[s].blocks)])
    BY <2>1 DEF XlsxInv, Sizes
  <2>3. ASSUME NEW s \in Sheets
        PROVE  LET blocks == sections[s].blocks
               IN  /\ \A b \in DOMAIN blocks :
                        Shown(sections[s], blocks[b].cell, blocks[b].part)
                          = Anchored(s, blocks[b].cell, blocks[b].part)
                   /\ \A d \in {file.sheets[s].drawing} \cap Parts : \A a \in DOMAIN Anchors(d) :
                        \A part \in Range(Anchors(d)[a].refs) \cap Parts :
                          Shown(sections[s], Anchors(d)[a].cell, part) > 0
                   /\ \A b, c \in DOMAIN blocks :
                        CellBefore(blocks[b].cell, blocks[c].cell) => b < c
                   /\ sections[s].blank <=> (~sections[s].table /\ blocks = <<>>)
    <3> DEFINE blocks == sections[s].blocks
    <3>1. s \in 1..Len(sections) /\ AllFound
      BY <2>1, <2>3, SectionOfSheet
    <3>2. PICK renders : sections[s] = Written(s, renders)
      BY <3>1, SectionOfSheet
    <3>3. /\ blocks = Blocks(s, renders)
          /\ sections[s].blank <=> (~sections[s].table /\ blocks = <<>>)
      <4> DEFINE empty == file.sheets[s].empty
                 list == Blocks(s, renders)
                 section == [blank |-> empty /\ list = <<>>, table |-> ~empty, blocks |-> list]
      <4>1. /\ section.blocks = list
            /\ section.blank = (empty /\ list = <<>>)
            /\ section.table = ~empty
        OBVIOUS
      <4>2. sections[s] = section
        BY <3>2 DEF Written
      <4> HIDE DEF empty, section, list
      <4>3. section.blank <=> (~section.table /\ list = <<>>)
        <5>1. section.blank <=> (empty /\ list = <<>>)
          BY <4>1, Zenon
        <5>2. section.table <=> ~empty
          BY <4>1, Zenon
        <5> QED BY <5>1, <5>2, Zenon
      <4> QED BY <4>1, <4>2, <4>3 DEF list
    <3>4. /\ DOMAIN blocks = 1..Len(ChartsOf(s))
          /\ \A k \in 1..Len(ChartsOf(s)) :
               blocks[k].cell = ChartsOf(s)[k].cell /\ blocks[k].part = ChartsOf(s)[k].part
      BY <2>1, <2>3, <3>1, <3>3, SheetBlocks
    <3>5. /\ ChartsOf(s) \in Seq(EntriesAt(s))
          /\ \A m, n \in 1..Len(ChartsOf(s)) :
               CellBefore(ChartsOf(s)[m].cell, ChartsOf(s)[n].cell) => m < n
      BY <2>1, <2>3, <3>1, SheetCharts
    <3>6. \A cell : \A part \in Parts : Shown(sections[s], cell, part) = Anchored(s, cell, part)
      BY <3>1, ShownAsAnchored
    <3>7. ASSUME NEW b \in DOMAIN blocks PROVE blocks[b].part \in Parts
      <4>1. ChartsOf(s)[b] \in EntriesAt(s)
        BY <3>4, <3>5, <3>7
      <4>2. ChartsOf(s)[b].part \in Parts
        BY <4>1 DEF EntriesAt
      <4> QED BY <3>4, <3>7, <4>2
    <3>8. ASSUME NEW d \in {file.sheets[s].drawing} \cap Parts, NEW a \in DOMAIN Anchors(d),
                 NEW part \in Range(Anchors(d)[a].refs) \cap Parts
          PROVE  Shown(sections[s], Anchors(d)[a].cell, part) > 0
      <4>1. d = file.sheets[s].drawing /\ file.sheets[s].drawing \in Parts
        OBVIOUS
      <4>2. Anchored(s, Anchors(d)[a].cell, part) > 0
        BY <2>1, <2>3, <4>1, AnchoredThere
      <4> QED BY <3>6, <4>2
    <3>9. \A b, c \in DOMAIN blocks : CellBefore(blocks[b].cell, blocks[c].cell) => b < c
      BY <3>4, <3>5
    <3> HIDE DEF blocks
    <3>10. /\ \A b \in DOMAIN blocks :
                Shown(sections[s], blocks[b].cell, blocks[b].part)
                  = Anchored(s, blocks[b].cell, blocks[b].part)
           /\ \A d \in {file.sheets[s].drawing} \cap Parts : \A a \in DOMAIN Anchors(d) :
                \A part \in Range(Anchors(d)[a].refs) \cap Parts :
                  Shown(sections[s], Anchors(d)[a].cell, part) > 0
      BY <3>6, <3>7, <3>8
    <3> QED BY <3>3, <3>9, <3>10 DEF blocks
  <2> QED BY <2>2, <2>3 DEF ChartsShownOnce
<1> QED BY <1>1, XlsxInvariant, PTL

-----------------------------------------------------------------------------
(* Documents: containers *)

\* Each element is in an earlier one, or in the body.
Nested(t) == Len(t) \in Nat /\ \A i \in 1..Len(t) : t[i].up \in 0..(i - 1)

\* The recursion that defines Ancestors.
AboveStep(t, g, n) == IF n = 0 THEN {} ELSE {t[n].up} \cup g[t[n].up]

\* Ancestors is well defined where elements are nested.
LEMMA AncestorsRecursion ==
  ASSUME NEW t, Nested(t)
  PROVE  /\ Ancestors(t)[0] = {}
         /\ \A i \in 1..Len(t) : Ancestors(t)[i] = {t[i].up} \cup Ancestors(t)[t[i].up]
<1> DEFINE Good(m, g) == g = [n \in 0..m |-> AboveStep(t, g, n)]
           P == {m \in 0..Len(t) : \E g : Good(m, g)}
<1>0. Len(t) \in Nat /\ \A i \in 1..Len(t) : t[i].up \in 0..(i - 1)
  BY DEF Nested
<1>1. 0 \in P
  <2> DEFINE g0 == [n \in 0..0 |-> {}]
  <2>1. ASSUME NEW n \in 0..0 PROVE g0[n] = AboveStep(t, g0, n)
    BY DEF AboveStep
  <2>2. g0 = [n \in 0..0 |-> AboveStep(t, g0, n)]
    BY <2>1
  <2>3. Good(0, g0)
    BY <2>2
  <2>4. 0 \in 0..Len(t)
    BY <1>0
  <2> HIDE DEF Good
  <2> QED BY <2>3, <2>4
<1>2. ASSUME NEW m \in 0..(Len(t)-1), m \in P PROVE m + 1 \in P
  <2>1. PICK g : Good(m, g)
    BY <1>2
  <2> DEFINE h == [n \in 0..(m+1) |-> AboveStep(t, g, n)]
  <2>2. ASSUME NEW n \in 0..m PROVE h[n] = g[n]
    BY <2>1
  <2>3. ASSUME NEW n \in 0..(m+1) PROVE h[n] = AboveStep(t, h, n)
    <3>1. h[n] = AboveStep(t, g, n)
      OBVIOUS
    <3>2. n # 0 => t[n].up \in 0..m
      <4>1. n # 0 => n \in 1..Len(t)
        BY <1>0
      <4> QED BY <1>0, <4>1
    <3>3. n # 0 => h[t[n].up] = g[t[n].up]
      BY <2>2, <3>2
    <3> HIDE DEF h
    <3> QED BY <3>1, <3>3 DEF AboveStep
  <2>4. h = [n \in 0..(m+1) |-> AboveStep(t, h, n)]
    BY <2>3
  <2>5. m + 1 \in 0..Len(t)
    BY <1>0
  <2> HIDE DEF h
  <2> QED BY <2>4, <2>5
<1>3. Len(t) \in P
  <2> HIDE DEF P
  <2>1. \A n \in 0..Len(t) : n \in P
    BY <1>0, <1>1, <1>2, UpTo
  <2> QED BY <1>0, <2>1
<1>4. PICK g : g = [n \in 0..Len(t) |-> AboveStep(t, g, n)]
  BY <1>3
<1> DEFINE f == CHOOSE ff : ff = [n \in 0..Len(t) |-> AboveStep(t, ff, n)]
<1>5. f = [n \in 0..Len(t) |-> AboveStep(t, f, n)]
  BY <1>4
<1>6. Ancestors(t) = f
  BY DEF Ancestors, AboveStep
<1> HIDE DEF f
<1>7. f[0] = {}
  BY <1>0, <1>5 DEF AboveStep
<1>8. ASSUME NEW i \in 1..Len(t) PROVE f[i] = {t[i].up} \cup f[t[i].up]
  <2>1. i \in 0..Len(t) /\ i # 0
    BY <1>0
  <2>2. f[i] = AboveStep(t, f, i)
    BY <1>5, <2>1
  <2> QED BY <2>1, <2>2 DEF AboveStep
<1> QED BY <1>6, <1>7, <1>8

\* Induction from the containers to what is in them.
LEMMA NestedInduction ==
  ASSUME NEW t, Nested(t), NEW P, 0 \in P,
         \A i \in 1..Len(t) : t[i].up \in P => i \in P
  PROVE  \A i \in 0..Len(t) : i \in P
<1> DEFINE Q == {n \in 0..Len(t) : \A i \in 0..n : i \in P}
<1>0. Len(t) \in Nat /\ \A i \in 1..Len(t) : t[i].up \in 0..(i - 1)
  BY DEF Nested
<1>1. 0 \in Q
  BY <1>0
<1>2. ASSUME NEW n \in 0..(Len(t)-1), n \in Q PROVE n + 1 \in Q
  <2>1. n + 1 \in 1..Len(t)
    BY <1>0
  <2>2. t[n+1].up \in 0..n
    BY <1>0, <2>1
  <2>3. t[n+1].up \in P
    BY <1>2, <2>2
  <2>4. n + 1 \in P
    BY <2>1, <2>3
  <2> QED BY <1>2, <2>1, <2>4
<1>3. \A n \in 0..Len(t) : n \in Q
  <2> HIDE DEF Q
  <2> QED BY <1>0, <1>1, <1>2, UpTo
<1> QED BY <1>3

\* What an element is in comes before it, and what that is in too.
LEMMA AncestorsOrder ==
  ASSUME NEW t, Nested(t)
  PROVE  \A i \in 0..Len(t) : \A k \in Ancestors(t)[i] :
           /\ k \in 0..(i - 1)
           /\ Ancestors(t)[k] \subseteq Ancestors(t)[i]
<1> DEFINE A == Ancestors(t)
           P == {i \in 0..Len(t) : \A k \in A[i] : k \in 0..(i - 1) /\ A[k] \subseteq A[i]}
<1>0. Len(t) \in Nat /\ \A i \in 1..Len(t) : t[i].up \in 0..(i - 1)
  BY DEF Nested
<1>1. A[0] = {} /\ \A i \in 1..Len(t) : A[i] = {t[i].up} \cup A[t[i].up]
  BY AncestorsRecursion
<1> HIDE DEF A
<1>2. 0 \in P
  BY <1>0, <1>1
<1>3. ASSUME NEW i \in 1..Len(t), t[i].up \in P PROVE i \in P
  <2> DEFINE u == t[i].up
  <2>1. u \in 0..(i - 1) /\ A[i] = {u} \cup A[u]
    BY <1>0, <1>1
  <2> HIDE DEF u
  <2>2. \A k \in A[u] : k \in 0..(u - 1) /\ A[k] \subseteq A[u]
    BY <1>3 DEF u
  <2>3. ASSUME NEW k \in A[i] PROVE k \in 0..(i - 1) /\ A[k] \subseteq A[i]
    <3>1. CASE k = u
      BY <2>1, <3>1
    <3>2. CASE k \in A[u]
      <4>1. k \in 0..(u - 1) /\ A[k] \subseteq A[u]
        BY <2>2, <3>2
      <4>2. k \in 0..(i - 1)
        BY <2>1, <4>1
      <4> QED BY <2>1, <4>1, <4>2
    <3> QED BY <2>1, <2>3, <3>1, <3>2
  <2> QED BY <1>0, <2>3
<1>4. \A i \in 0..Len(t) : i \in P
  <2> HIDE DEF P
  <2> QED BY <1>2, <1>3, NestedInduction
<1> QED BY <1>4 DEF A

\* What is in what depends on the containers alone.
LEMMA SameAncestors ==
  ASSUME NEW t, Nested(t), NEW u, Len(u) = Len(t), \A i \in 1..Len(t) : u[i].up = t[i].up
  PROVE  \A i \in 0..Len(t) : Ancestors(u)[i] = Ancestors(t)[i]
<1> DEFINE P == {i \in 0..Len(t) : Ancestors(u)[i] = Ancestors(t)[i]}
<1>0. Len(t) \in Nat /\ Nested(u)
  BY DEF Nested
<1>1. /\ Ancestors(t)[0] = {}
      /\ \A i \in 1..Len(t) : Ancestors(t)[i] = {t[i].up} \cup Ancestors(t)[t[i].up]
  BY AncestorsRecursion
<1>2. /\ Ancestors(u)[0] = {}
      /\ \A i \in 1..Len(t) : Ancestors(u)[i] = {t[i].up} \cup Ancestors(u)[t[i].up]
  BY <1>0, AncestorsRecursion
<1>3. 0 \in P
  <2>1. 0 \in 0..Len(t)
    BY <1>0
  <2>2. Ancestors(u)[0] = Ancestors(t)[0]
    BY <1>1, <1>2
  <2> QED BY <2>1, <2>2
<1>4. ASSUME NEW i \in 1..Len(t), t[i].up \in P PROVE i \in P
  <2>1. i \in 0..Len(t)
    BY <1>0
  <2> QED BY <1>1, <1>2, <1>4, <2>1
<1>5. \A i \in 0..Len(t) : i \in P
  <2> HIDE DEF P
  <2> QED BY <1>3, <1>4, NestedInduction
<1> QED BY <1>5

-----------------------------------------------------------------------------
(* Documents: the objects of a body *)

\* The elements of a body.
LEMMA BodyType ==
  ASSUME NEW t \in Bodies
  PROVE  /\ Nested(t) /\ Len(t) \in Nat /\ DOMAIN t = 1..Len(t)
         /\ \A i \in 1..Len(t) :
              /\ t[i] = [kind |-> t[i].kind, what |-> t[i].what, up |-> t[i].up]
              /\ t[i].kind \in {"image", "chart", "box", "group"}
              /\ t[i].kind = "image" => t[i].what \in Large \cup Small
              /\ t[i].up \in 0..(i - 1)
              /\ t[i].up # 0 => t[t[i].up].kind \in {"box", "group"}
<1> DEFINE Element(n) == {[kind |-> k[1], what |-> k[2], up |-> u] : k \in Kinds, u \in 0..(n - 1)}
<1>1. PICK n \in 0..MaxElements : t \in [1..n -> Element(n)] /\ IsBody(t)
  BY DEF Bodies
<1>2. n \in Nat
  BY DocxAssumption
<1>3. DOMAIN t = 1..n /\ Len(t) = n
  BY <1>1, <1>2
<1>4. ASSUME NEW i \in 1..n
      PROVE  /\ t[i] = [kind |-> t[i].kind, what |-> t[i].what, up |-> t[i].up]
             /\ t[i].kind \in {"image", "chart", "box", "group"}
             /\ t[i].kind = "image" => t[i].what \in Large \cup Small
             /\ t[i].up \in 0..(n - 1)
  <2>1. t[i] \in Element(n)
    <3> HIDE DEF Element
    <3> QED BY <1>1
  <2>2. PICK k \in Kinds, u \in 0..(n - 1) : t[i] = [kind |-> k[1], what |-> k[2], up |-> u]
    BY <2>1
  <2>3. k[1] \in {"image", "chart", "box", "group"} /\ (k[1] = "image" => k[2] \in Large \cup Small)
    BY DEF Kinds
  <2>4. t[i].kind = k[1] /\ t[i].what = k[2] /\ t[i].up = u
    BY <2>2
  <2> QED BY <2>2, <2>3, <2>4
<1>5. \A i \in 1..n : t[i].up < i /\ (t[i].up # 0 => t[t[i].up].kind \in {"box", "group"})
  <2>1. IsBody(t) /\ DOMAIN t = 1..n
    BY <1>1, <1>3
  <2> HIDE DEF Element
  <2> SUFFICES ASSUME NEW i \in DOMAIN t
               PROVE  t[i].up < i /\ (t[i].up # 0 => t[t[i].up].kind \in {"box", "group"})
    BY <2>1
  <2> QED BY <2>1, Zenon DEF IsBody
<1>6. ASSUME NEW i \in 1..n PROVE t[i].up \in 0..(i - 1)
  <2>1. t[i].up \in 0..(n - 1) /\ t[i].up < i
    BY <1>4, <1>5
  <2> QED BY <1>2, <2>1
<1>7. Nested(t)
  BY <1>2, <1>3, <1>6 DEF Nested
<1> QED BY <1>2, <1>3, <1>4, <1>5, <1>6, <1>7

\* Only boxes and groups hold anything.
LEMMA ContainersHold ==
  ASSUME NEW t \in Bodies
  PROVE  \A i \in 0..Len(t) : \A k \in Ancestors(t)[i] :
           k # 0 => t[k].kind \in {"box", "group"}
<1> DEFINE P == {i \in 0..Len(t) : \A k \in Ancestors(t)[i] :
                                      k # 0 => t[k].kind \in {"box", "group"}}
<1>0. /\ Nested(t) /\ Len(t) \in Nat
      /\ \A i \in 1..Len(t) : t[i].up # 0 => t[t[i].up].kind \in {"box", "group"}
  BY BodyType
<1>1. /\ Ancestors(t)[0] = {}
      /\ \A i \in 1..Len(t) : Ancestors(t)[i] = {t[i].up} \cup Ancestors(t)[t[i].up]
  BY <1>0, AncestorsRecursion
<1>2. 0 \in P
  <2>1. 0 \in 0..Len(t)
    BY <1>0
  <2> QED BY <1>1, <2>1
<1>3. ASSUME NEW i \in 1..Len(t), t[i].up \in P PROVE i \in P
  <2>1. i \in 0..Len(t)
    BY <1>0
  <2> QED BY <1>0, <1>1, <1>3, <2>1
<1>4. \A i \in 0..Len(t) : i \in P
  <2> HIDE DEF P
  <2> QED BY <1>0, <1>2, <1>3, NestedInduction
<1> QED BY <1>4

\* In a body as it was given nothing is cut out.
LEMMA BodyWithin ==
  ASSUME NEW t \in Bodies, NEW i \in 1..Len(t)
  PROVE  /\ Within(t, i) = {j \in 1..Len(t) : j = i \/ i \in Ancestors(t)[j]}
         /\ t[i].kind \in {"image", "chart"} => Within(t, i) = {i}
<1>1. /\ Nested(t) /\ Len(t) \in Nat /\ DOMAIN t = 1..Len(t)
      /\ \A j \in 1..Len(t) : t[j].kind \in {"image", "chart", "box", "group"}
  BY BodyType
<1>2. ASSUME NEW j \in 1..Len(t), NEW k \in Ancestors(t)[j], k > i PROVE t[k].kind # "sentinel"
  <2>1. j \in 0..Len(t)
    BY <1>1
  <2>2. k \in 0..(j - 1)
    BY <1>1, <2>1, AncestorsOrder
  <2>3. k \in 1..Len(t)
    BY <1>1, <1>2, <2>2
  <2> QED BY <1>1, <2>3
<1>3. Within(t, i) = {j \in 1..Len(t) : j = i \/ i \in Ancestors(t)[j]}
  BY <1>1, <1>2 DEF Within
<1>4. ASSUME t[i].kind \in {"image", "chart"}, NEW j \in 1..Len(t) PROVE i \notin Ancestors(t)[j]
  <2>1. j \in 0..Len(t) /\ i # 0
    BY <1>1
  <2>2. i \in Ancestors(t)[j] => t[i].kind \in {"box", "group"}
    BY <2>1, ContainersHold
  <2> QED BY <1>4, <2>2
<1> QED BY <1>3, <1>4

\* What is left in order of some elements.
LEMMA InOrderLists ==
  ASSUME NEW t, Len(t) \in Nat, DOMAIN t = 1..Len(t), NEW S \in SUBSET (1..Len(t))
  PROVE  /\ InOrder(t, S) \in Seq(1..Len(t))
         /\ Elements(InOrder(t, S)) = S
         /\ Increasing(InOrder(t, S))
<1> DEFINE all == [i \in 1..Len(t) |-> i]
<1>1. all \in Seq(1..Len(t)) /\ Len(all) = Len(t) /\ \A i \in 1..Len(t) : all[i] = i
  OBVIOUS
<1>2. InOrder(t, S) = Kept(all, S)
  BY DEF InOrder
<1> HIDE DEF all
<1>3. Kept(all, S) \in Seq(1..Len(t)) /\ Elements(Kept(all, S)) = Elements(all) \cap S
  BY <1>1, KeptElements
<1>4. Elements(all) = 1..Len(t)
  BY <1>1 DEF Elements
<1>5. all \in Seq(Int) /\ Increasing(all)
  <2>1. \A i \in 1..Len(t) : all[i] \in Int
    BY <1>1
  <2>2. all \in Seq(Int)
    BY <1>1, <2>1
  <2>3. Increasing(all)
    BY <1>1 DEF Increasing
  <2> QED BY <2>2, <2>3
<1>6. Increasing(Kept(all, S))
  BY <1>5, KeptIncreasing
<1> QED BY <1>2, <1>3, <1>4, <1>6

\* The objects of a body, each once, and groups after those around them.
LEMMA ObjectsOrder ==
  ASSUME NEW t \in Bodies
  PROVE  /\ Objects(t) \in Seq(1..Len(t))
         /\ Elements(Objects(t)) = {i \in 1..Len(t) : IsGroup(t, i) \/ IsBareChart(t, i)}
         /\ \A m, n \in 1..Len(Objects(t)) : m < n =>
              /\ Objects(t)[m] # Objects(t)[n]
              /\ t[Objects(t)[n]].kind \in {"box", "group"} => Objects(t)[m] < Objects(t)[n]
<1> DEFINE G == {i \in DOMAIN t : IsGroup(t, i)}
           C == {i \in DOMAIN t : IsBareChart(t, i)}
           g == GroupsOf(t)
           c == BareCharts(t)
<1>1. Len(t) \in Nat /\ DOMAIN t = 1..Len(t)
  BY BodyType
<1>2. G \in SUBSET (1..Len(t)) /\ C \in SUBSET (1..Len(t))
  BY <1>1
<1>3. /\ \A i \in G : t[i].kind \in {"box", "group"}
      /\ \A i \in C : t[i].kind = "chart"
  BY DEF IsGroup, IsBareChart
<1>4. g = InOrder(t, G) /\ c = InOrder(t, C) /\ Objects(t) = g \o c
  BY DEF GroupsOf, BareCharts, Objects
<1>5. G \cup C = {i \in 1..Len(t) : IsGroup(t, i) \/ IsBareChart(t, i)}
  BY <1>1
<1> HIDE DEF G, C, g, c
<1>6. g \in Seq(1..Len(t)) /\ Elements(g) = G /\ Increasing(g)
  BY <1>1, <1>2, <1>4, InOrderLists
<1>7. c \in Seq(1..Len(t)) /\ Elements(c) = C /\ Increasing(c)
  BY <1>1, <1>2, <1>4, InOrderLists
<1>8. g \o c \in Seq(1..Len(t)) /\ Elements(g \o c) = G \cup C
  BY <1>6, <1>7, JoinElements
<1> DEFINE o == g \o c
<1>9. /\ Len(g) \in Nat /\ Len(c) \in Nat /\ Len(o) = Len(g) + Len(c)
      /\ \A n \in 1..Len(g) : o[n] = g[n]
      /\ \A n \in 1..Len(o) : n > Len(g) => n - Len(g) \in 1..Len(c) /\ o[n] = c[n - Len(g)]
  BY <1>6, <1>7
<1> HIDE DEF o
<1>10. ASSUME NEW m \in 1..Len(o), NEW n \in 1..Len(o), m < n
       PROVE  o[m] # o[n] /\ (t[o[n]].kind \in {"box", "group"} => o[m] < o[n])
  <2>0. \A k \in 1..Len(g) : g[k] \in Int /\ g[k] \in G
    BY <1>6 DEF Elements
  <2>00. \A k \in 1..Len(c) : c[k] \in Int /\ c[k] \in C
    BY <1>7 DEF Elements
  <2>1. CASE n <= Len(g)
    <3>1. m \in 1..Len(g) /\ n \in 1..Len(g)
      BY <1>9, <1>10, <2>1
    <3>2. g[m] < g[n]
      BY <1>6, <1>10, <3>1 DEF Increasing
    <3> QED BY <1>9, <2>0, <3>1, <3>2
  <2>2. CASE m > Len(g)
    <3>1. m - Len(g) \in 1..Len(c) /\ n - Len(g) \in 1..Len(c) /\ m - Len(g) < n - Len(g)
          /\ n > Len(g)
      BY <1>9, <1>10, <2>2
    <3>2. c[m - Len(g)] < c[n - Len(g)]
      BY <1>7, <3>1 DEF Increasing
    <3>3. o[n] \in C /\ o[m] = c[m - Len(g)] /\ o[n] = c[n - Len(g)]
      BY <1>9, <2>00, <2>2, <3>1
    <3> QED BY <1>3, <2>00, <3>1, <3>2, <3>3
  <2>3. CASE m <= Len(g) /\ n > Len(g)
    <3>1. o[m] \in G /\ o[n] \in C
      BY <1>9, <2>0, <2>00, <2>3
    <3>2. t[o[m]].kind # "chart" /\ t[o[n]].kind = "chart"
      BY <1>3, <3>1
    <3> QED BY <3>2
  <2> QED BY <1>9, <2>1, <2>2, <2>3
<1> QED BY <1>4, <1>5, <1>8, <1>10 DEF o

-----------------------------------------------------------------------------
(* Documents: the inductive invariant *)

\* The objects of the document, groups first.
Objs == Objects(body)

\* What is said of an object, of the body as it was given.
Described(i) ==
  [id |-> Content(body, i), media |-> Media(body, i), data |-> body[i].what,
   kind |-> IF body[i].kind = "chart" THEN "chart" ELSE "group"]

\* The first k objects, and the body without them.
Gone(k) == {Objs[m] : m \in 1..k}

CutTree(k) ==
  [i \in 1..Len(body) |->
     IF i \in Gone(k) THEN [kind |-> "sentinel", what |-> Content(body, i), up |-> body[i].up]
     ELSE body[i]]

\* What stands in the text: the objects that are in no other, the large
\* pictures that are in none.
Outermost == {i \in Elements(Objs) : Elements(Objs) \cap Ancestors(body)[i] = {}}
Pictures ==
  {i \in 1..Len(body) : /\ body[i].kind = "image" /\ body[i].what \in Large
                        /\ Elements(Objs) \cap Ancestors(body)[i] = {}}

\* What an object becomes in the text.
Shows(i) == IF body[i].kind = "chart" /\ body[i].what # NoData THEN "table" ELSE "figure"

\* The marks of pictures and objects, before and after their injection.
PictureMarks == {[kind |-> "image", what |-> body[i].what, at |-> i] : i \in Pictures}
Sentinels == {[kind |-> "sentinel", what |-> Content(body, i), at |-> i] : i \in Outermost}
Figures == {[kind |-> Shows(i), what |-> Content(body, i), at |-> i] : i \in Outermost}

\* The first k objects are described and cut out, the others are to be.
CutUpTo(k) ==
  /\ groups = [n \in 1..k |-> Described(Objs[n])]
  /\ todo = SubSeq(Objs, k + 1, Len(Objs))
  /\ tree = CutTree(k)

\* Between any two steps the body is cut up to some object, and the text, once
\* it is there, says of the body as it was given what it is to say.
DocxInv ==
  /\ body \in Bodies /\ other \subseteq Large
  /\ phase \in {"strip", "inject", "list", "done", "failed"}
  /\ \E k \in 0..Len(Objs) : CutUpTo(k)
  /\ phase \in {"inject", "list", "done"} => todo = <<>>
  /\ phase = "inject" => ToSet(text) = Sentinels \cup PictureMarks
  /\ phase \in {"list", "done"} => ToSet(text) = Figures \cup PictureMarks
  /\ phase \in {"inject", "list", "done"} => placed = {body[i].what : i \in Pictures}
  /\ phase = "done" => fallback = (Referenced \cap Large) \ (placed \cup Absorbed)
  /\ \A m \in ToSet(text) : m.kind \in {"image", "sentinel", "figure", "table"}
  /\ placed \cup fallback \subseteq Large

\* Cutting out the objects before it changes nothing of an object.
LEMMA CutContent ==
  ASSUME body \in Bodies, NEW k \in 0..(Len(Objs) - 1), tree = CutTree(k)
  PROVE  LET i == Objs[k + 1]
         IN  /\ i \in 1..Len(body) /\ tree[i] = body[i]
             /\ Content(tree, i) = Content(body, i)
             /\ Media(tree, i) = Media(body, i)
<1> DEFINE i == Objs[k + 1]
<1>1. /\ Nested(body) /\ Len(body) \in Nat /\ DOMAIN body = 1..Len(body)
      /\ \A j \in 1..Len(body) : body[j].kind \in {"image", "chart", "box", "group"}
  BY BodyType
<1>2. /\ Objs \in Seq(1..Len(body))
      /\ Elements(Objs) = {j \in 1..Len(body) : IsGroup(body, j) \/ IsBareChart(body, j)}
      /\ \A m, n \in 1..Len(Objs) : m < n =>
           /\ Objs[m] # Objs[n]
           /\ body[Objs[n]].kind \in {"box", "group"} => Objs[m] < Objs[n]
  BY ObjectsOrder DEF Objs
<1>3. k + 1 \in 1..Len(Objs) /\ \A m \in 1..k : m \in 1..Len(Objs) /\ m < k + 1
  BY <1>2
<1>4. i \in 1..Len(body)
  BY <1>2, <1>3
<1>5. \A j \in Gone(k) : j # i /\ (body[i].kind \in {"box", "group"} => j < i)
  BY <1>2, <1>3 DEF Gone
<1> HIDE DEF i
<1>6. /\ DOMAIN tree = 1..Len(body) /\ Len(tree) = Len(body)
      /\ \A j \in 1..Len(body) : tree[j].up = body[j].up
      /\ \A j \in 1..Len(body) : j \notin Gone(k) => tree[j] = body[j]
  BY <1>1 DEF CutTree
<1>7. \A j \in 0..Len(body) : Ancestors(tree)[j] = Ancestors(body)[j]
  BY <1>1, <1>6, SameAncestors
<1>8. ASSUME NEW j \in 1..Len(body), i \in Ancestors(body)[j]
      PROVE  /\ j > i /\ j \notin Gone(k)
             /\ \A l \in Ancestors(body)[j] : l > i => tree[l].kind # "sentinel"
  <2>1. j \in 0..Len(body)
    BY <1>1
  <2>2. \A l \in Ancestors(body)[j] : l \in 0..(j - 1)
    BY <1>1, <2>1, AncestorsOrder
  <2>3. i # 0
    BY <1>4
  <2>4. body[i].kind \in {"box", "group"}
    BY <1>8, <2>1, <2>3, ContainersHold
  <2>5. j > i
    BY <1>1, <1>4, <1>8, <2>2
  <2>6. j \notin Gone(k)
    BY <1>1, <1>4, <1>5, <2>4, <2>5
  <2>7. ASSUME NEW l \in Ancestors(body)[j], l > i PROVE tree[l].kind # "sentinel"
    <3>1. l \in 1..Len(body)
      BY <1>1, <1>4, <2>2, <2>7
    <3>2. l \notin Gone(k)
      BY <1>1, <1>4, <1>5, <2>4, <2>7, <3>1
    <3> QED BY <1>1, <1>6, <3>1, <3>2
  <2> QED BY <2>5, <2>6, <2>7
<1>9. Within(tree, i) = {j \in 1..Len(body) : j = i \/ i \in Ancestors(body)[j]}
  <2>1. \A j \in 1..Len(body) : Ancestors(tree)[j] = Ancestors(body)[j]
    BY <1>1, <1>7
  <2> QED BY <1>6, <1>8, <2>1 DEF Within
<1>10. Within(body, i) = {j \in 1..Len(body) : j = i \/ i \in Ancestors(body)[j]}
  BY <1>4, BodyWithin
<1>11. \A j \in Within(body, i) : tree[j] = body[j]
  <2>1. tree[i] = body[i]
    BY <1>4, <1>5, <1>6
  <2> QED BY <1>6, <1>8, <1>10, <2>1
<1>12. Within(tree, i) = Within(body, i)
  BY <1>9, <1>10
<1>13. Content(tree, i) = Content(body, i)
  BY <1>11, <1>12 DEF Content
<1>14. Media(tree, i) = Media(body, i)
  BY <1>11, <1>12 DEF Media
<1>15. tree[i] = body[i]
  BY <1>4, <1>5, <1>6
<1> QED BY <1>4, <1>13, <1>14, <1>15 DEF i

\* What depends on the body alone stays as it is.
LEMMA SameBody ==
  ASSUME body' = body
  PROVE  /\ Objs' = Objs /\ Outermost' = Outermost /\ Pictures' = Pictures
         /\ PictureMarks' = PictureMarks /\ Sentinels' = Sentinels /\ Figures' = Figures
         /\ \A i : Described(i)' = Described(i)
         /\ \A k : CutTree(k)' = CutTree(k)
         /\ \A k : Gone(k)' = Gone(k)
<1>1. Objs' = Objs
  BY DEF Objs
<1>2. \A k : Gone(k)' = Gone(k)
  BY <1>1 DEF Gone
<1>3. Outermost' = Outermost /\ Pictures' = Pictures
  BY <1>1 DEF Outermost, Pictures
<1>4. \A i : Shows(i)' = Shows(i)
  BY DEF Shows
<1>5. PictureMarks' = PictureMarks /\ Sentinels' = Sentinels /\ Figures' = Figures
  BY <1>3, <1>4 DEF PictureMarks, Sentinels, Figures
<1>6. \A i : Described(i)' = Described(i)
  BY DEF Described
<1>7. \A k : CutTree(k)' = CutTree(k)
  BY <1>2 DEF CutTree
<1> QED BY <1>1, <1>2, <1>3, <1>5, <1>6, <1>7

\* Where the objects and the list of what is cut out stay, so does CutUpTo.
LEMMA SameCut ==
  ASSUME body' = body, groups' = groups, todo' = todo, tree' = tree
  PROVE  \A k : CutUpTo(k)' <=> CutUpTo(k)
<1>1. /\ Objs' = Objs /\ \A i : Described(i)' = Described(i)
      /\ \A k : CutTree(k)' = CutTree(k)
  BY SameBody
<1> QED BY <1>1 DEF CutUpTo

\* The invariant holds at the start.
LEMMA InitDocx == DocxInit => DocxInv
<1> SUFFICES ASSUME DocxInit PROVE DocxInv
  OBVIOUS
<1> USE DEF DocxInit
<1>1. body \in Bodies /\ DOMAIN body = 1..Len(body) /\ Objs \in Seq(1..Len(body))
  BY BodyType, ObjectsOrder DEF Objs
<1>2. CutUpTo(0)
  <2>1. groups = [n \in 1..0 |-> Described(Objs[n])]
    OBVIOUS
  <2>2. SubSeq(Objs, 1, Len(Objs)) = Objs
    BY <1>1
  <2>3. tree = CutTree(0)
    <3>1. Gone(0) = {}
      BY DEF Gone
    <3>2. body = [i \in 1..Len(body) |-> body[i]]
      <4>1. PICK n \in 0..MaxElements : body \in [1..n -> {[kind |-> k[1], what |-> k[2], up |-> u] :
                                                          k \in Kinds, u \in 0..(n - 1)}]
        BY DEF Bodies
      <4> QED BY <1>1, <4>1
    <3> QED BY <3>1, <3>2 DEF CutTree
  <2> QED BY <2>1, <2>2, <2>3 DEF CutUpTo, Objs
<1>3. 0 \in 0..Len(Objs)
  BY <1>1
<1>4. ToSet(text) = {}
  BY DEF ToSet
<1> QED BY <1>1, <1>2, <1>3, <1>4 DEF DocxInv

\* An exception changes nothing of what was made.
LEMMA RejectKeeps == DocxInv /\ Reject => DocxInv'
<1> SUFFICES ASSUME DocxInv, Reject PROVE DocxInv'
  OBVIOUS
<1>1. phase' = "failed" /\ UNCHANGED <<body, other, tree, todo, groups, text, placed, fallback>>
  BY DEF Reject
<1>2. Objs' = Objs /\ \A k : CutUpTo(k)' <=> CutUpTo(k)
  BY <1>1, SameBody, SameCut
<1> QED BY <1>1, <1>2 DEF DocxInv

\* Something else happens.
LEMMA StutterDocx == DocxInv /\ UNCHANGED docxVars => DocxInv'
<1> SUFFICES ASSUME DocxInv, UNCHANGED docxVars PROVE DocxInv'
  OBVIOUS
<1>1. UNCHANGED <<body, other, phase, tree, todo, groups, text, placed, fallback>>
  BY DEF docxVars
<1>2. /\ Objs' = Objs /\ \A k : CutUpTo(k)' <=> CutUpTo(k)
      /\ PictureMarks' = PictureMarks /\ Sentinels' = Sentinels /\ Figures' = Figures
      /\ Pictures' = Pictures
  BY <1>1, SameBody, SameCut
<1>3. Referenced' = Referenced /\ Absorbed' = Absorbed
  BY <1>1 DEF Referenced, Absorbed
<1> QED BY <1>1, <1>2, <1>3 DEF DocxInv

\* One object more is described, as it was given, and cut out.
LEMMA StripKeeps == DocxInv /\ Strip => DocxInv'
<1> SUFFICES ASSUME DocxInv, Strip PROVE DocxInv'
  OBVIOUS
<1>1. PICK k \in 0..Len(Objs) : CutUpTo(k)
  BY DEF DocxInv
<1>2. body \in Bodies /\ phase = "strip" /\ todo # <<>>
  BY DEF DocxInv, Strip
<1>3. /\ Objs \in Seq(1..Len(body)) /\ Len(body) \in Nat /\ Len(Objs) \in Nat
      /\ DOMAIN body = 1..Len(body)
  BY <1>2, ObjectsOrder, BodyType DEF Objs
<1>4. k \in 0..(Len(Objs) - 1) /\ Head(todo) = Objs[k + 1]
      /\ Tail(todo) = SubSeq(Objs, k + 2, Len(Objs))
  <2>1. todo = SubSeq(Objs, k + 1, Len(Objs))
    BY <1>1 DEF CutUpTo
  <2>2. k # Len(Objs)
    BY <1>2, <1>3, <2>1
  <2> QED BY <1>3, <2>1, <2>2
<1> DEFINE i == Objs[k + 1]
<1>5. tree = CutTree(k) /\ groups = [n \in 1..k |-> Described(Objs[n])]
  BY <1>1 DEF CutUpTo
<1>6. /\ i \in 1..Len(body) /\ tree[i] = body[i]
      /\ Content(tree, i) = Content(body, i) /\ Media(tree, i) = Media(body, i)
  BY <1>2, <1>4, <1>5, CutContent
<1>7. Description(i) = Described(i)
  BY <1>6 DEF Description, Described
<1>8. /\ groups' = Append(groups, Description(i)) /\ Cut(i) /\ todo' = Tail(todo)
      /\ UNCHANGED <<body, other, phase, text, placed, fallback>>
  BY <1>4 DEF Strip
<1>9. groups' = [n \in 1..(k + 1) |-> Described(Objs[n])]
  <2> DEFINE D == {Described(Objs[n]) : n \in 1..(k + 1)}
             d == Described(Objs[k + 1])
  <2>1. groups \in Seq(D) /\ Len(groups) = k /\ d \in D
    <3>1. k \in Nat /\ k + 1 \in 1..(k + 1) /\ \A n \in 1..k : n \in 1..(k + 1)
      BY <1>4
    <3>2. \A n \in 1..k : Described(Objs[n]) \in D
      BY <3>1
    <3>3. d \in D
      BY <3>1
    <3> HIDE DEF D, d
    <3> QED BY <1>5, <3>1, <3>2, <3>3
  <2>2. groups' = Append(groups, d)
    BY <1>7, <1>8
  <2>3. Append(groups, d) = [n \in 1..(Len(groups) + 1) |-> IF n = Len(groups) + 1 THEN d ELSE groups[n]]
    <3> HIDE DEF d, D
    <3> QED BY <2>1, AppendByPlace
  <2>4. \A n \in 1..k : groups[n] = Described(Objs[n])
    BY <1>5
  <2> HIDE DEF D
  <2> QED BY <1>4, <2>1, <2>2, <2>3, <2>4
<1>10. tree' = CutTree(k + 1)
  <2>1. tree' = [tree EXCEPT ![i] = [kind |-> "sentinel", what |-> Content(body, i), up |-> body[i].up]]
    BY <1>6, <1>8 DEF Cut
  <2>2. DOMAIN tree = 1..Len(body)
    BY <1>5 DEF CutTree
  <2>4. Gone(k + 1) = Gone(k) \cup {i}
    <3>1. 1..(k + 1) = 1..k \cup {k + 1}
      BY <1>4
    <3> QED BY <3>1 DEF Gone
  <2> DEFINE c == Content(body, i)
             cut == [kind |-> "sentinel", what |-> c, up |-> body[i].up]
  <2> HIDE DEF i, c
  <2>5. /\ tree'[i] = cut
        /\ \A j \in 1..Len(body) : j # i => tree'[j] = tree[j]
        /\ DOMAIN tree' = 1..Len(body)
    BY <1>6, <2>1, <2>2 DEF c
  <2>6. \A j \in 1..Len(body) :
          tree[j] = IF j \in Gone(k)
                    THEN [kind |-> "sentinel", what |-> Content(body, j), up |-> body[j].up]
                    ELSE body[j]
    BY <1>5 DEF CutTree
  <2>7. \A j \in 1..Len(body) :
          tree'[j] = IF j \in Gone(k + 1)
                     THEN [kind |-> "sentinel", what |-> Content(body, j), up |-> body[j].up]
                     ELSE body[j]
    BY <2>4, <2>5, <2>6 DEF c
  <2>8. tree' = [j \in 1..Len(body) |-> tree'[j]]
    BY <2>1, <2>2
  <2> QED BY <2>7, <2>8 DEF CutTree
<1>11. todo' = SubSeq(Objs, (k + 1) + 1, Len(Objs))
  <2>1. k + 2 = (k + 1) + 1
    BY <1>4
  <2> QED BY <1>4, <1>8, <2>1
<1>12. /\ Objs' = Objs /\ \A n : Described(n)' = Described(n)
       /\ CutTree(k + 1)' = CutTree(k + 1)
  BY <1>8, SameBody
<1>13. CutUpTo(k + 1)'
  BY <1>9, <1>10, <1>11, <1>12 DEF CutUpTo
<1>14. k + 1 \in 0..Len(Objs')
  BY <1>3, <1>4, <1>12
<1>15. \E n \in 0..Len(Objs') : CutUpTo(n)'
  BY <1>13, <1>14
<1> HIDE DEF i
<1> QED BY <1>2, <1>8, <1>15 DEF DocxInv

\* When nothing is left to cut out, every object is cut out and described.
LEMMA AllCut ==
  ASSUME DocxInv, todo = <<>>
  PROVE  /\ tree = CutTree(Len(Objs)) /\ groups = [n \in 1..Len(Objs) |-> Described(Objs[n])]
         /\ Gone(Len(Objs)) = Elements(Objs) /\ Elements(Objs) \subseteq 1..Len(body)
         /\ Len(Objs) \in Nat /\ Objs \in Seq(1..Len(body))
<1>1. PICK k \in 0..Len(Objs) : CutUpTo(k)
  BY DEF DocxInv
<1>2. /\ Objs \in Seq(1..Len(body)) /\ Len(Objs) \in Nat
      /\ Elements(Objs) \subseteq 1..Len(body)
  BY ObjectsOrder DEF DocxInv, Objs
<1>3. k = Len(Objs)
  <2> DEFINE rest == SubSeq(Objs, k + 1, Len(Objs))
  <2>1. rest = <<>>
    BY <1>1 DEF CutUpTo
  <2>2. k \in Nat /\ k <= Len(Objs)
    BY <1>2
  <2>3. Len(rest) = Len(Objs) - k
    BY <1>2, <2>2, TailElements
  <2> HIDE DEF rest
  <2>4. Len(rest) = 0
    BY <2>1
  <2> QED BY <1>2, <2>2, <2>3, <2>4
<1>4. Gone(Len(Objs)) = Elements(Objs)
  BY DEF Gone, Elements
<1> QED BY <1>1, <1>2, <1>3, <1>4 DEF CutUpTo

\* What mammoth sees of the body without its objects.
LEMMA ShownElements ==
  ASSUME DocxInv, todo = <<>>
  PROVE  {i \in DOMAIN tree :
            /\ \A k \in Ancestors(tree)[i] \ {0} : tree[k].kind # "sentinel"
            /\ \/ tree[i].kind = "sentinel"
               \/ tree[i].kind = "image" /\ tree[i].what \in Large} = Outermost \cup Pictures
<1> DEFINE A == Ancestors(body)
           E == Elements(Objs)
<1>1. /\ tree = CutTree(Len(Objs)) /\ Gone(Len(Objs)) = E /\ E \subseteq 1..Len(body)
  BY AllCut
<1>2. /\ body \in Bodies /\ Nested(body) /\ Len(body) \in Nat /\ DOMAIN body = 1..Len(body)
      /\ \A i \in 1..Len(body) : body[i].kind \in {"image", "chart", "box", "group"}
  BY BodyType DEF DocxInv
<1>3. /\ DOMAIN tree = 1..Len(body) /\ Len(tree) = Len(body)
      /\ \A i \in 1..Len(body) : tree[i].up = body[i].up
      /\ \A i \in E : tree[i].kind = "sentinel"
      /\ \A i \in 1..Len(body) : i \notin E => tree[i] = body[i]
  BY <1>1, <1>2 DEF CutTree
<1>4. \A i \in 1..Len(body) : Ancestors(tree)[i] = A[i]
  <2>1. \A i \in 0..Len(body) : Ancestors(tree)[i] = Ancestors(body)[i]
    BY <1>2, <1>3, SameAncestors
  <2> QED BY <1>2, <2>1
<1>5. \A i \in 1..Len(body) : \A k \in A[i] : k \in 0..Len(body)
  <2> SUFFICES ASSUME NEW i \in 1..Len(body), NEW k \in A[i] PROVE k \in 0..Len(body)
    OBVIOUS
  <2>1. i \in 0..Len(body)
    BY <1>2
  <2>2. k \in 0..(i - 1)
    BY <1>2, <2>1, AncestorsOrder
  <2> QED BY <1>2, <2>2
<1>6. \A i \in E : body[i].kind # "image"
  <2>1. E = {i \in 1..Len(body) : IsGroup(body, i) \/ IsBareChart(body, i)}
    BY <1>2, ObjectsOrder DEF Objs
  <2> QED BY <2>1 DEF IsGroup, IsBareChart
<1> HIDE DEF A, E
<1>7. ASSUME NEW i \in 1..Len(body)
      PROVE  (\A k \in A[i] \ {0} : tree[k].kind # "sentinel") <=> E \cap A[i] = {}
  <2>1. ASSUME NEW k \in A[i] \ {0} PROVE tree[k].kind = "sentinel" <=> k \in E
    <3>1. k \in 1..Len(body)
      BY <1>2, <1>5
    <3> QED BY <1>2, <1>3, <3>1
  <2>2. 0 \notin E
    BY <1>1
  <2> QED BY <2>1, <2>2
<1>8. ASSUME NEW i \in 1..Len(body)
      PROVE  /\ tree[i].kind = "sentinel" <=> i \in E
             /\ (tree[i].kind = "image" /\ tree[i].what \in Large)
                  <=> (body[i].kind = "image" /\ body[i].what \in Large)
  BY <1>2, <1>3, <1>6
<1>9. Outermost = {i \in E : E \cap A[i] = {}}
  BY DEF Outermost, E, A
<1>10. Pictures = {i \in 1..Len(body) : /\ body[i].kind = "image" /\ body[i].what \in Large
                                        /\ E \cap A[i] = {}}
  BY DEF Pictures, E, A
<1> DEFINE Seen(i) == /\ \A k \in Ancestors(tree)[i] \ {0} : tree[k].kind # "sentinel"
                      /\ \/ tree[i].kind = "sentinel"
                         \/ tree[i].kind = "image" /\ tree[i].what \in Large
<1>11. ASSUME NEW i \in 1..Len(body)
       PROVE  Seen(i) <=> (i \in Outermost \/ i \in Pictures)
  <2>1. Seen(i) <=> /\ E \cap A[i] = {}
                    /\ i \in E \/ (body[i].kind = "image" /\ body[i].what \in Large)
    BY <1>4, <1>7, <1>8
  <2> HIDE DEF Seen
  <2> QED BY <1>9, <1>10, <2>1
<1>12. Outermost \subseteq 1..Len(body) /\ Pictures \subseteq 1..Len(body)
  BY <1>1, <1>9, <1>10
<1>13. {i \in 1..Len(body) : Seen(i)} = Outermost \cup Pictures
  <2> HIDE DEF Seen
  <2> QED BY <1>11, <1>12
<1> QED BY <1>3, <1>13

\* mammoth's reading keeps the invariant: it sees the sentinels of the outermost
\* objects and the pictures that no object holds, and nothing else.
LEMMA ReadKeeps == DocxInv /\ Read => DocxInv'
<1> SUFFICES ASSUME DocxInv, Read PROVE DocxInv'
  OBVIOUS
<1> DEFINE shown == Outermost \cup Pictures
           list == InOrder(tree, shown)
<1>1. todo = <<>> /\ phase = "strip"
  BY DEF Read
<1>2. shown = {i \in DOMAIN tree :
                 /\ \A k \in Ancestors(tree)[i] \ {0} : tree[k].kind # "sentinel"
                 /\ \/ tree[i].kind = "sentinel"
                    \/ tree[i].kind = "image" /\ tree[i].what \in Large}
  BY <1>1, ShownElements
<1>3. /\ text' = [n \in DOMAIN list |->
                    [kind |-> tree[list[n]].kind, what |-> tree[list[n]].what, at |-> list[n]]]
      /\ placed' = {tree[i].what : i \in {k \in shown : tree[k].kind = "image"}}
      /\ phase' = "inject" /\ UNCHANGED <<body, other, tree, todo, groups, fallback>>
  <2> HIDE DEF shown
  <2> QED BY <1>2 DEF Read, list
<1>4. /\ tree = CutTree(Len(Objs)) /\ Gone(Len(Objs)) = Elements(Objs)
      /\ Elements(Objs) \subseteq 1..Len(body)
  BY <1>1, AllCut
<1>5. /\ Len(body) \in Nat /\ DOMAIN body = 1..Len(body) /\ body \in Bodies
  BY BodyType DEF DocxInv
<1>6. Outermost \subseteq Elements(Objs) /\ Outermost \cap Pictures = {}
      /\ Pictures \subseteq (1..Len(body)) \ Elements(Objs)
  <2>1. Elements(Objs) = {i \in 1..Len(body) : IsGroup(body, i) \/ IsBareChart(body, i)}
    BY <1>5, ObjectsOrder DEF Objs
  <2>2. \A i \in Elements(Objs) : body[i].kind # "image"
    BY <2>1 DEF IsGroup, IsBareChart
  <2> QED BY <2>2 DEF Outermost, Pictures
<1>7. DOMAIN tree = 1..Len(body) /\ Len(tree) = Len(body)
  BY <1>4, <1>5 DEF CutTree
<1>8. shown \in SUBSET (1..Len(tree))
  BY <1>4, <1>6, <1>7
<1>9. list \in Seq(1..Len(tree)) /\ Elements(list) = shown
  <2> HIDE DEF shown
  <2> QED BY <1>5, <1>7, <1>8, InOrderLists
<1>10. DOMAIN list = 1..Len(list)
  BY <1>9
<1> DEFINE Mark(i) == [kind |-> tree[i].kind, what |-> tree[i].what, at |-> i]
<1>11. ToSet(text') = {Mark(i) : i \in shown}
  <2> HIDE DEF shown, list
  <2> QED BY <1>3, <1>9, <1>10 DEF ToSet, Elements
<1>12. \A i \in Outermost : Mark(i) = [kind |-> "sentinel", what |-> Content(body, i), at |-> i]
  <2> SUFFICES ASSUME NEW i \in Outermost
               PROVE  tree[i].kind = "sentinel" /\ tree[i].what = Content(body, i)
    OBVIOUS
  <2> QED BY <1>4, <1>6 DEF CutTree
<1>13. \A i \in Pictures : tree[i] = body[i] /\ body[i].kind = "image" /\ body[i].what \in Large
  BY <1>4, <1>6 DEF CutTree, Pictures
<1>14. ToSet(text') = Sentinels \cup PictureMarks
  <2>1. \A i \in Pictures : Mark(i) = [kind |-> "image", what |-> body[i].what, at |-> i]
    BY <1>13
  <2> HIDE DEF Mark
  <2> QED BY <1>11, <1>12, <2>1 DEF Sentinels, PictureMarks
<1>15. placed' = {body[i].what : i \in Pictures}
  <2>1. \A i \in Outermost : tree[i].kind # "image"
    BY <1>12
  <2>2. {k \in shown : tree[k].kind = "image"} = Pictures
    BY <1>13, <2>1
  <2> QED BY <1>3, <1>13, <2>2
<1>16. placed' \subseteq Large
  BY <1>13, <1>15
<1>17. \A m \in ToSet(text') : m.kind \in {"image", "sentinel", "figure", "table"}
  BY <1>14 DEF Sentinels, PictureMarks
<1>18. /\ Objs' = Objs /\ \A k : CutUpTo(k)' <=> CutUpTo(k)
       /\ PictureMarks' = PictureMarks /\ Sentinels' = Sentinels /\ Pictures' = Pictures
  BY <1>3, SameBody, SameCut
<1>19. \E k \in 0..Len(Objs') : CutUpTo(k)'
  BY <1>18 DEF DocxInv
<1>20. placed' = {body'[i].what : i \in Pictures'}
  BY <1>3, <1>15, <1>18
<1>21. ToSet(text') = Sentinels' \cup PictureMarks'
  BY <1>14, <1>18
<1> HIDE DEF shown, list, Mark
<1>22. /\ body' \in Bodies /\ other' \subseteq Large /\ todo' = <<>> /\ phase' = "inject"
       /\ placed' \cup fallback' \subseteq Large
  BY <1>1, <1>3, <1>16 DEF DocxInv
<1> QED BY <1>17, <1>19, <1>20, <1>21, <1>22 DEF DocxInv

\* The content of an element tells what it is.
LEMMA ContentTells ==
  ASSUME NEW t \in Bodies, NEW i \in 1..Len(t), NEW j \in 1..Len(t), Content(t, i) = Content(t, j)
  PROVE  t[i].kind = t[j].kind /\ t[i].what = t[j].what
<1>1. Len(t) \in Nat /\ \A k \in 1..Len(t) : Within(t, k) \subseteq 1..Len(t) /\ k \in Within(t, k)
  BY BodyType, BodyWithin
<1> DEFINE Self(k) == [off |-> 0, kind |-> t[k].kind, what |-> t[k].what, up |-> 0]
<1>2. Self(i) \in Content(t, i)
  <2>1. i - i = 0 /\ i \in Within(t, i)
    BY <1>1
  <2> QED BY <2>1 DEF Content
<1>3. PICK k \in Within(t, j) :
        Self(i) = [off |-> k - j, kind |-> t[k].kind, what |-> t[k].what,
                   up |-> IF k = j THEN 0 ELSE t[k].up - j]
  BY <1>2 DEF Content
<1>4. k - j = 0 /\ t[i].kind = t[k].kind /\ t[i].what = t[k].what
  BY <1>3
<1>5. k = j
  BY <1>1, <1>4
<1> QED BY <1>4, <1>5

\* inject_group_markers() looks a sentinel up by its id and finds a group that
\* has the content of the object which the sentinel stands for.
LEMMA LookedUp ==
  ASSUME DocxInv, todo = <<>>, NEW i \in Elements(Objs)
  PROVE  LET n == CHOOSE n \in DOMAIN groups :
                    /\ groups[n].id = Content(body, i)
                    /\ \A k \in DOMAIN groups : groups[k].id = Content(body, i) => k <= n
         IN  /\ groups[n].kind = (IF body[i].kind = "chart" THEN "chart" ELSE "group")
             /\ groups[n].data = body[i].what
<1> DEFINE id == Content(body, i)
           Newest(n) == /\ groups[n].id = id
                        /\ \A k \in DOMAIN groups : groups[k].id = id => k <= n
           S == {n \in 1..Len(Objs) : groups[n].id = id}
<1>1. /\ groups = [n \in 1..Len(Objs) |-> Described(Objs[n])]
      /\ Elements(Objs) \subseteq 1..Len(body) /\ Len(Objs) \in Nat /\ Objs \in Seq(1..Len(body))
  BY AllCut
<1>2. /\ DOMAIN groups = 1..Len(Objs)
      /\ \A n \in 1..Len(Objs) :
           /\ groups[n].id = Content(body, Objs[n]) /\ groups[n].data = body[Objs[n]].what
           /\ groups[n].kind = (IF body[Objs[n]].kind = "chart" THEN "chart" ELSE "group")
  BY <1>1 DEF Described
<1>3. PICK m \in 1..Len(Objs) : Objs[m] = i
  BY DEF Elements
<1>4. S \in SUBSET Int /\ IsFiniteSet(S) /\ S # {}
  <2>1. m \in S
    BY <1>2, <1>3
  <2>2. IsFiniteSet(1..Len(Objs))
    BY <1>1, FS_Interval
  <2>3. S \in SUBSET (1..Len(Objs))
    OBVIOUS
  <2> HIDE DEF S
  <2>4. IsFiniteSet(S)
    BY <2>2, <2>3, FS_Subset
  <2> QED BY <2>1, <2>3, <2>4
<1>5. \E n \in DOMAIN groups : Newest(n)
  <2> HIDE DEF S
  <2>1. Max(S) \in S /\ \A x \in S : x <= Max(S)
    BY <1>4, MaxOfInts
  <2> DEFINE n == Max(S)
  <2> HIDE DEF n
  <2>2. n \in S /\ \A x \in S : x <= n
    BY <2>1 DEF n
  <2>3. n \in 1..Len(Objs) /\ groups[n].id = id
    BY <2>2 DEF S
  <2>4. \A k \in 1..Len(Objs) : groups[k].id = id => k <= n
    BY <2>2 DEF S
  <2> QED BY <1>2, <2>3, <2>4
<1> DEFINE c == CHOOSE n \in DOMAIN groups : Newest(n)
<1>6. c \in DOMAIN groups /\ Newest(c)
  BY <1>5
<1> HIDE DEF c
<1>7. c \in 1..Len(Objs) /\ Content(body, Objs[c]) = Content(body, i)
  BY <1>2, <1>6
<1>8. Objs[c] \in 1..Len(body) /\ i \in 1..Len(body) /\ body \in Bodies
  BY <1>1, <1>7 DEF DocxInv
<1>9. body[Objs[c]].kind = body[i].kind /\ body[Objs[c]].what = body[i].what
  BY <1>7, <1>8, ContentTells
<1>10. /\ groups[c].kind = (IF body[i].kind = "chart" THEN "chart" ELSE "group")
       /\ groups[c].data = body[i].what
  BY <1>2, <1>7, <1>9
<1> QED BY <1>10 DEF c

\* Every sentinel gets its table or its marker.
LEMMA InjectKeeps == DocxInv /\ Inject => DocxInv'
<1> SUFFICES ASSUME DocxInv, Inject PROVE DocxInv'
  OBVIOUS
<1> DEFINE ById(id) == CHOOSE n \in DOMAIN groups :
                         groups[n].id = id /\ \A k \in DOMAIN groups : groups[k].id = id => k <= n
           Resolve(mark) ==
             IF mark.kind # "sentinel" THEN mark
             ELSE LET g == groups[ById(mark.what)]
                  IN  [kind |-> IF g.kind = "chart" /\ g.data # NoData THEN "table" ELSE "figure",
                       what |-> mark.what, at |-> mark.at]
<1>1. /\ phase = "inject" /\ text' = [n \in DOMAIN text |-> Resolve(text[n])] /\ phase' = "list"
      /\ UNCHANGED <<body, other, tree, todo, groups, placed, fallback>>
  BY DEF Inject
<1>2. ToSet(text) = Sentinels \cup PictureMarks /\ todo = <<>>
  BY <1>1 DEF DocxInv
<1>3. ToSet(text') = {Resolve(m) : m \in ToSet(text)}
  <2> HIDE DEF Resolve
  <2> QED BY <1>1 DEF ToSet
<1>4. \A m \in PictureMarks : Resolve(m) = m
  BY DEF PictureMarks
<1>5. ASSUME NEW i \in Outermost
      PROVE  Resolve([kind |-> "sentinel", what |-> Content(body, i), at |-> i])
               = [kind |-> Shows(i), what |-> Content(body, i), at |-> i]
  <2>1. i \in Elements(Objs)
    BY DEF Outermost
  <2> DEFINE g == groups[ById(Content(body, i))]
  <2>2. g.kind = (IF body[i].kind = "chart" THEN "chart" ELSE "group") /\ g.data = body[i].what
    BY <1>2, <2>1, LookedUp
  <2>3. Resolve([kind |-> "sentinel", what |-> Content(body, i), at |-> i])
          = [kind |-> IF g.kind = "chart" /\ g.data # NoData THEN "table" ELSE "figure",
             what |-> Content(body, i), at |-> i]
    <3> HIDE DEF ById
    <3> QED OBVIOUS
  <2> HIDE DEF g, Resolve
  <2>4. (IF g.kind = "chart" /\ g.data # NoData THEN "table" ELSE "figure") = Shows(i)
    BY <2>2 DEF Shows
  <2> QED BY <2>3, <2>4
<1>6. ToSet(text') = Figures \cup PictureMarks
  <2> HIDE DEF Resolve
  <2>1. {Resolve(m) : m \in Sentinels} = Figures
    <3> DEFINE S(i) == [kind |-> "sentinel", what |-> Content(body, i), at |-> i]
               F(i) == [kind |-> Shows(i), what |-> Content(body, i), at |-> i]
    <3>1. /\ Sentinels = {S(i) : i \in Outermost} /\ Figures = {F(i) : i \in Outermost}
          /\ \A i \in Outermost : Resolve(S(i)) = F(i)
      BY <1>5 DEF Sentinels, Figures
    <3> HIDE DEF S, F
    <3> QED BY <3>1
  <2>2. {Resolve(m) : m \in PictureMarks} = PictureMarks
    BY <1>4
  <2> QED BY <1>2, <1>3, <2>1, <2>2
<1>7. \A m \in ToSet(text') : m.kind \in {"image", "sentinel", "figure", "table"}
  BY <1>6 DEF Figures, PictureMarks, Shows
<1>8. /\ Objs' = Objs /\ \A k : CutUpTo(k)' <=> CutUpTo(k)
      /\ PictureMarks' = PictureMarks /\ Figures' = Figures /\ Pictures' = Pictures
  BY <1>1, SameBody, SameCut
<1>9. \E k \in 0..Len(Objs') : CutUpTo(k)'
  BY <1>8 DEF DocxInv
<1>10. /\ ToSet(text') = Figures' \cup PictureMarks'
       /\ placed' = {body'[i].what : i \in Pictures'}
  BY <1>1, <1>6, <1>8 DEF DocxInv
<1> HIDE DEF Resolve, ById
<1>11. /\ body' \in Bodies /\ other' \subseteq Large /\ todo' = <<>> /\ phase' = "list"
       /\ placed' \cup fallback' \subseteq Large
  BY <1>1, <1>2 DEF DocxInv
<1> QED BY <1>7, <1>9, <1>10, <1>11 DEF DocxInv

\* What is nowhere in the text is listed at its end.
LEMMA ListKeeps == DocxInv /\ List => DocxInv'
<1> SUFFICES ASSUME DocxInv, List PROVE DocxInv'
  OBVIOUS
<1>1. /\ phase = "list" /\ phase' = "done"
      /\ fallback' = (Referenced \cap Large) \ (placed \cup Absorbed)
      /\ UNCHANGED <<body, other, tree, todo, groups, text, placed>>
  BY DEF List
<1>2. /\ Objs' = Objs /\ \A k : CutUpTo(k)' <=> CutUpTo(k)
      /\ PictureMarks' = PictureMarks /\ Figures' = Figures /\ Pictures' = Pictures
  BY <1>1, SameBody, SameCut
<1>3. Referenced' = Referenced /\ Absorbed' = Absorbed
  BY <1>1 DEF Referenced, Absorbed
<1>4. fallback' = (Referenced' \cap Large) \ (placed' \cup Absorbed') /\ fallback' \subseteq Large
  BY <1>1, <1>3
<1> QED BY <1>1, <1>2, <1>4 DEF DocxInv

\* The invariant of convert(), which the theorems about documents rest on.
THEOREM DocxInvariant == DocxSpec => []DocxInv
<1>1. DocxInv /\ [DocxNext]_docxVars => DocxInv'
  BY StripKeeps, ReadKeeps, InjectKeeps, ListKeeps, RejectKeeps, StutterDocx DEF DocxNext
<1> QED BY <1>1, InitDocx, PTL DEF DocxSpec

\* The pictures that are in an element are pictures.
LEMMA MediaType ==
  ASSUME NEW t \in Bodies, NEW i \in 1..Len(t)
  PROVE  Media(t, i) \subseteq Large \cup Small
<1>1. Within(t, i) \subseteq 1..Len(t)
  BY BodyWithin
<1> QED BY <1>1, BodyType DEF Media

\* DocxTypes, for every document: extract_and_strip_groups() describes each
\* object that was found or has it still to do, and each mark is of a known kind.
THEOREM DocxTypesCorrect == DocxSpec => []DocxTypes
<1>1. DocxInv => DocxTypes
  <2> SUFFICES ASSUME DocxInv PROVE DocxTypes
    OBVIOUS
  <2>1. PICK k \in 0..Len(Objs) : CutUpTo(k)
    BY DEF DocxInv
  <2>2. Objs \in Seq(1..Len(body)) /\ Len(Objs) \in Nat /\ Len(body) \in Nat /\ body \in Bodies
    BY ObjectsOrder, BodyType DEF DocxInv, Objs
  <2>3. Len(tree) = Len(body)
    BY <2>1, <2>2 DEF CutUpTo, CutTree
  <2>4. Len(groups) + Len(todo) = Len(Objects(body))
    <3> DEFINE rest == SubSeq(Objs, k + 1, Len(Objs))
    <3>1. k \in Nat /\ k <= Len(Objs)
      BY <2>2
    <3>2. Len(rest) = Len(Objs) - k
      BY <2>2, <3>1, TailElements
    <3> HIDE DEF rest
    <3>3. todo = rest
      BY <2>1 DEF CutUpTo, rest
    <3>4. Len(groups) = k
      BY <2>1, <3>1 DEF CutUpTo
    <3> QED BY <2>2, <3>1, <3>2, <3>3, <3>4 DEF Objs
  <2>5. \A g \in ToSet(groups) : g.kind \in {"group", "chart"} /\ g.media \subseteq Large \cup Small
    <3>1. ASSUME NEW n \in 1..k
          PROVE  /\ groups[n].kind \in {"group", "chart"}
                 /\ groups[n].media \subseteq Large \cup Small
      <4>1. Objs[n] \in 1..Len(body)
        BY <2>2
      <4>2. Media(body, Objs[n]) \subseteq Large \cup Small
        BY <2>2, <4>1, MediaType
      <4> QED BY <2>1, <4>2 DEF CutUpTo, Described
    <3>2. DOMAIN groups = 1..k
      BY <2>1 DEF CutUpTo
    <3> QED BY <3>1, <3>2 DEF ToSet
  <2> QED BY <2>3, <2>4, <2>5 DEF DocxInv, DocxTypes
<1> QED BY <1>1, DocxInvariant, PTL

\* An object is in an outermost one, or is one.
LEMMA InOutermost ==
  ASSUME body \in Bodies, NEW i \in Elements(Objs)
  PROVE  \E o \in Outermost : i \in Within(body, o) /\ Within(body, i) \subseteq Within(body, o)
<1> DEFINE A == Ancestors(body)
           S == {k \in Elements(Objs) : k = i \/ k \in A[i]}
<1>1. /\ Nested(body) /\ Len(body) \in Nat /\ Elements(Objs) \subseteq 1..Len(body)
  BY BodyType, ObjectsOrder DEF Objs
<1>2. S \in SUBSET Nat /\ S # {}
  BY <1>1
<1>3. PICK o \in S : \A k \in S : o <= k
  <2> HIDE DEF S
  <2> QED BY <1>2, LeastNat
<1>4. o \in 1..Len(body) /\ i \in 1..Len(body) /\ o \in Elements(Objs)
  BY <1>1
<1>5. \A j \in 1..Len(body) : \A k \in A[j] : k \in 0..(j - 1) /\ A[k] \subseteq A[j]
  <2> HIDE DEF A
  <2>1. \A j \in 0..Len(body) : \A k \in A[j] : k \in 0..(j - 1) /\ A[k] \subseteq A[j]
    BY <1>1, AncestorsOrder DEF A
  <2> QED BY <1>1, <2>1
<1> HIDE DEF A
<1>6. A[o] \subseteq A[i]
  BY <1>3, <1>4, <1>5
<1>7. o \in Outermost
  <2> SUFFICES ASSUME NEW k \in Elements(Objs), k \in A[o] PROVE FALSE
    BY <1>4 DEF Outermost, A
  <2>1. k \in S
    BY <1>6
  <2>2. k \in 0..(o - 1)
    BY <1>4, <1>5
  <2>3. o <= k
    BY <1>3, <2>1
  <2> QED BY <1>4, <2>2, <2>3
<1>8. /\ Within(body, o) = {j \in 1..Len(body) : j = o \/ o \in A[j]}
      /\ Within(body, i) = {j \in 1..Len(body) : j = i \/ i \in A[j]}
  BY <1>4, BodyWithin DEF A
<1>9. i \in Within(body, o)
  BY <1>3, <1>4, <1>8
<1>10. ASSUME NEW j \in Within(body, i) PROVE j \in Within(body, o)
  <2>1. CASE j = i
    BY <1>9, <2>1
  <2>2. CASE i \in A[j]
    <3>1. j \in 1..Len(body) /\ A[i] \subseteq A[j]
      BY <1>5, <1>8, <2>2
    <3>2. o \in A[j]
      BY <1>3, <2>2, <3>1
    <3> QED BY <1>8, <3>1, <3>2
  <2> QED BY <1>8, <1>10, <2>1, <2>2
<1> QED BY <1>7, <1>9, <1>10

\* PicturesShownOnce, for every document, however groups, boxes and charts are
\* nested: what convert() leaves to the list at the end of the text is exactly
\* what neither the text nor a figure shows.
THEOREM PicturesCorrect == DocxSpec => []PicturesShownOnce
<1>1. DocxInv => PicturesShownOnce
  <2> DEFINE marks == ToSet(text)
             inline == {m.what : m \in {n \in marks : n.kind = "image"}}
             inFigures == UNION {Media(body, m.at) : m \in {n \in marks : n.kind = "figure"}}
  <2> SUFFICES ASSUME DocxInv, phase = "done"
               PROVE  /\ Referenced \cap Large \subseteq inline \cup inFigures \cup fallback
                      /\ fallback \cap (inline \cup inFigures) = {}
    BY DEF PicturesShownOnce
  <2>1. /\ body \in Bodies /\ todo = <<>> /\ marks = Figures \cup PictureMarks
        /\ placed = {body[i].what : i \in Pictures}
        /\ fallback = (Referenced \cap Large) \ (placed \cup Absorbed)
    BY DEF DocxInv
  <2>2. /\ groups = [n \in 1..Len(Objs) |-> Described(Objs[n])]
        /\ Elements(Objs) \subseteq 1..Len(body) /\ Len(Objs) \in Nat
    BY <2>1, AllCut
  <2>3. \A m \in Figures : m.kind \in {"table", "figure"}
    BY DEF Figures, Shows
  <2>4. \A m \in PictureMarks : m.kind = "image"
    BY DEF PictureMarks
  <2>5. inline = placed
    <3>1. {n \in marks : n.kind = "image"} = PictureMarks
      BY <2>1, <2>3, <2>4
    <3>2. {m.what : m \in PictureMarks} = {body[i].what : i \in Pictures}
      <4>1. ASSUME NEW m \in PictureMarks PROVE \E i \in Pictures : m.what = body[i].what
        BY DEF PictureMarks
      <4>2. ASSUME NEW i \in Pictures PROVE \E m \in PictureMarks : m.what = body[i].what
        <5> DEFINE m == [kind |-> "image", what |-> body[i].what, at |-> i]
        <5>1. m \in PictureMarks /\ m.what = body[i].what
          BY DEF PictureMarks
        <5> HIDE DEF m
        <5> QED BY <5>1
      <4> QED BY <4>1, <4>2
    <3> HIDE DEF marks
    <3> QED BY <2>1, <3>1, <3>2
  <2>6. Absorbed = UNION {Media(body, i) : i \in Elements(Objs)}
    <3>1. DOMAIN groups = 1..Len(Objs) /\ \A n \in 1..Len(Objs) : groups[n].media = Media(body, Objs[n])
      BY <2>2 DEF Described
    <3> QED BY <3>1 DEF Absorbed, Elements
  <2>7. inFigures \subseteq Absorbed
    <3>1. \A m \in Figures : m.at \in Elements(Objs)
      BY DEF Figures, Outermost
    <3> QED BY <2>1, <2>4, <2>6, <3>1
  <2>8. ASSUME NEW p \in Absorbed PROVE p \in inFigures
    <3>1. PICK i \in Elements(Objs) : p \in Media(body, i)
      BY <2>6
    <3>2. PICK o \in Outermost : i \in Within(body, o) /\ Within(body, i) \subseteq Within(body, o)
      BY <2>1, InOutermost
    <3>3. p \in Media(body, o)
      BY <3>1, <3>2 DEF Media
    <3>4. o \in 1..Len(body)
      BY <2>2 DEF Outermost
    <3>5. body[o].kind # "chart"
      <4> SUFFICES ASSUME body[o].kind = "chart" PROVE FALSE
        OBVIOUS
      <4>1. Within(body, o) = {o}
        BY <2>1, <3>4, BodyWithin
      <4> QED BY <3>3, <4>1 DEF Media
    <3> DEFINE m == [kind |-> Shows(o), what |-> Content(body, o), at |-> o]
    <3>6. m \in Figures /\ m.kind = "figure" /\ m.at = o
      BY <3>5 DEF Figures, Shows
    <3> HIDE DEF m
    <3>7. m \in {n \in marks : n.kind = "figure"}
      BY <2>1, <3>6
    <3> HIDE DEF marks
    <3> QED BY <3>3, <3>6, <3>7
  <2>9. inFigures = Absorbed
    BY <2>7, <2>8
  <2> HIDE DEF marks, inline, inFigures
  <2> QED BY <2>1, <2>5, <2>9
<1> QED BY <1>1, DocxInvariant, PTL

\* FiguresFound, for every document: the outermost objects have their markers
\* and tables and nothing else has, and extract_group_docx() finds the object of
\* a marker again although its id was taken from a body already cut.
THEOREM FiguresCorrect == DocxSpec => []FiguresFound
<1>1. DocxInv => FiguresFound
  <2> DEFINE figures == {m \in ToSet(text) : m.kind # "image"}
             outermost == {i \in ToSet(Objects(body)) :
                             ToSet(Objects(body)) \cap Ancestors(body)[i] = {}}
  <2> SUFFICES ASSUME DocxInv, phase \in {"list", "done"}
               PROVE  /\ {m.at : m \in figures} = outermost
                      /\ \A m \in figures : /\ Extracted(m.what) # <<>>
                                            /\ Content(body, Extracted(m.what)[1]) = Content(body, m.at)
    BY DEF FiguresFound
  <2>1. body \in Bodies /\ ToSet(text) = Figures \cup PictureMarks
    BY DEF DocxInv
  <2>2. Objs \in Seq(1..Len(body)) /\ DOMAIN body = 1..Len(body) /\ Len(Objs) \in Nat
    BY <2>1, ObjectsOrder, BodyType DEF Objs
  <2>3. ToSet(Objects(body)) = Elements(Objs)
    BY <2>2 DEF ToSet, Elements, Objs
  <2>4. outermost = Outermost
    BY <2>3 DEF Outermost
  <2>5. figures = Figures
    <3>1. \A m \in Figures : m.kind # "image"
      BY DEF Figures, Shows
    <3>2. \A m \in PictureMarks : m.kind = "image"
      BY DEF PictureMarks
    <3> QED BY <2>1, <3>1, <3>2
  <2>6. {m.at : m \in Figures} = Outermost
    <3>1. ASSUME NEW m \in Figures PROVE \E i \in Outermost : m.at = i
      BY DEF Figures
    <3>2. ASSUME NEW i \in Outermost PROVE \E m \in Figures : m.at = i
      <4> DEFINE m == [kind |-> Shows(i), what |-> Content(body, i), at |-> i]
      <4>1. m \in Figures /\ m.at = i
        BY DEF Figures
      <4> HIDE DEF m
      <4> QED BY <4>1
    <3> QED BY <3>1, <3>2
  <2>7. ASSUME NEW m \in Figures
        PROVE  /\ Extracted(m.what) # <<>>
               /\ Content(body, Extracted(m.what)[1]) = Content(body, m.at)
    <3>1. PICK i \in Outermost : m.what = Content(body, i) /\ m.at = i
      BY DEF Figures
    <3> DEFINE T == {j \in DOMAIN body : Content(body, j) = m.what}
               found == Extracted(m.what)
    <3>2. found = Kept(Objs, T)
      BY DEF Extracted, Objs
    <3>3. i \in Elements(Objs) /\ i \in T
      <4>1. i \in Elements(Objs)
        BY DEF Outermost
      <4>2. Elements(Objs) \subseteq 1..Len(body)
        BY <2>2, ElementsType
      <4> QED BY <2>2, <3>1, <4>1, <4>2
    <3> HIDE DEF T, found
    <3>4. found \in Seq(1..Len(body)) /\ Elements(found) = Elements(Objs) \cap T
      BY <2>2, <3>2, KeptElements
    <3>5. Len(found) \in Nat /\ Len(found) > 0 /\ found # <<>>
      <4>1. PICK n \in 1..Len(found) : found[n] = i
        BY <3>3, <3>4 DEF Elements
      <4> QED BY <3>4, <4>1
    <3>6. found[1] \in T
      <4>1. found[1] \in Elements(found)
        BY <3>5 DEF Elements
      <4> QED BY <3>4, <4>1
    <3> QED BY <3>1, <3>5, <3>6 DEF T, found
  <2> QED BY <2>4, <2>5, <2>6, <2>7
<1> QED BY <1>1, DocxInvariant, PTL
=============================================================================
