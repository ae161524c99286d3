----------------------------- MODULE SeqFilters -----------------------------
(***************************************************************************)
(* Two operators on sequences, written as recursive functions over the     *)
(* positions of the sequence, so that the proofs can reason about them     *)
(* (SelectSeq and the RECURSIVE operators are opaque to the provers).      *)
(***************************************************************************)
EXTENDS Integers, Sequences

Increasing(s) == \A i, j \in 1..Len(s) : i < j => s[i] < s[j]

Elements(s) == {s[i] : i \in 1..Len(s)}

\* The elements of s that are in T, in the order of s: what is left of an
\* OrderedDict after the other keys were popped from it.
Kept(s, T) ==
  LET f[n \in 0..Len(s)] ==
        IF n = 0 THEN <<>>
        ELSE IF s[n] \in T THEN Append(f[n-1], s[n]) ELSE f[n-1]
  IN  f[Len(s)]

\* Running(s)[n] is the sum of the first n elements of a sequence of numbers.
Running(s) ==
  LET f[n \in 0..Len(s)] == IF n = 0 THEN 0 ELSE f[n-1] + s[n]
  IN  f

SeqSum(s) == Running(s)[Len(s)]
=============================================================================
