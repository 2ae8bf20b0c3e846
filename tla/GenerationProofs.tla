-------------------------- MODULE GenerationProofs --------------------------
(***************************************************************************)
(* Theorems about Generation, for every set of prompts, vocabulary, size   *)
(* of a context and of a batch: what a request samples from, what is kept  *)
(* for the next one, and that the text given out stops where a stop string *)
(* shows.                                                                  *)
(***************************************************************************)
EXTENDS Generation, Integers, SequenceTheorems, FiniteSetTheorems,
        WellFoundedInduction, TLAPS

-----------------------------------------------------------------------------
(* Numbers and prefixes. *)

\* Every non-empty set of naturals has a least element.
LEMMA LeastNat ==
  ASSUME NEW T \in SUBSET Nat, T # {}
  PROVE  \E x \in T : \A y \in T : x <= y
<1> DEFINE R == OpToRel(<, Nat)
<1>1. \A x, y \in Nat : <<x, y>> \in R <=> x < y
  BY DEF OpToRel
<1>2. \E x \in T : \A y \in T : ~(<<y, x>> \in R)
  <2>1. IsWellFoundedOn(R, Nat)
    BY NatLessThanWellFounded
  <2> HIDE DEF R
  <2>2. QED
    BY <2>1, WFMin
<1>3. PICK x \in T : \A y \in T : ~(<<y, x>> \in R)
  BY <1>2
<1>4. \A y \in T : ~(y < x)
  BY <1>1, <1>3
<1>5. QED
  BY <1>4

\* Every bounded one has a greatest.
LEMMA GreatestBelow ==
  ASSUME NEW T \in SUBSET Nat, T # {}, NEW bound \in Nat, \A x \in T : x <= bound
  PROVE  \E x \in T : \A y \in T : y <= x
<1> DEFINE B == {n \in Nat : \A x \in T : x <= n}
<1>1. PICK b \in B : \A n \in B : b <= n
  <2>1. bound \in B
    OBVIOUS
  <2>2. QED
    BY <2>1, LeastNat
<1>2. b \in T
  <2> SUFFICES ASSUME b \notin T PROVE FALSE
    OBVIOUS
  <2>1. \A x \in T : x <= b - 1 /\ x \in Nat
    BY <1>1
  <2>2. b - 1 \in Nat
    <3>1. PICK x \in T : TRUE
      OBVIOUS
    <3>2. x <= b - 1 /\ x \in Nat /\ b \in Nat
      BY <2>1, <3>1
    <3>3. QED
      BY <3>2
  <2>3. b - 1 \in B
    BY <2>1, <2>2
  <2>4. QED
    BY <1>1, <2>3
<1>3. QED
  BY <1>1, <1>2

\* A bounded set of naturals has its maximum.
LEMMA MaxBelow ==
  ASSUME NEW T \in SUBSET Nat, T # {}, NEW bound \in Nat, \A x \in T : x <= bound
  PROVE  Max(T) \in T /\ \A y \in T : y <= Max(T)
<1>1. PICK x \in T : \A y \in T : x >= y
  BY GreatestBelow
<1>2. QED
  BY <1>1 DEF Max

\* A finite set of naturals is bounded.
LEMMA FiniteHasBound ==
  ASSUME NEW U \in SUBSET Nat, IsFiniteSet(U)
  PROVE  \E b \in Nat : \A x \in U : x <= b
<1> DEFINE Bounded(T) == \E b \in Nat : \A x \in T : x <= b
           Bad == {n \in Nat : \E T \in SUBSET Nat : /\ IsFiniteSet(T) /\ ~Bounded(T)
                                                     /\ Cardinality(T) = n}
<1> SUFFICES ASSUME ~Bounded(U) PROVE FALSE
  OBVIOUS
<1> HIDE DEF Bounded
<1>1. Cardinality(U) \in Bad
  BY FS_CardinalityType
<1>2. PICK n \in Bad : \A k \in Bad : n <= k
  BY <1>1, LeastNat
<1>3. PICK T \in SUBSET Nat : IsFiniteSet(T) /\ ~Bounded(T) /\ Cardinality(T) = n
  BY <1>2
<1>4. PICK x \in T : TRUE
  BY <1>3 DEF Bounded
<1>5. IsFiniteSet(T \ {x}) /\ Cardinality(T \ {x}) = n - 1 /\ Cardinality(T \ {x}) \in Nat
  BY <1>3, <1>4, FS_RemoveElement, FS_CardinalityType
<1>6. Bounded(T \ {x})
  <2>1. n - 1 \notin Bad
    BY <1>2
  <2>2. QED
    BY <1>5, <2>1
<1>7. PICK b \in Nat : \A y \in T \ {x} : y <= b
  BY <1>6 DEF Bounded
<1>8. \A y \in T : y <= b + x
  BY <1>7
<1>9. b + x \in Nat
  BY <1>4
<1>10. QED
  BY <1>3, <1>8, <1>9 DEF Bounded

\* The first n of a sequence.
LEMMA FirstOf ==
  ASSUME NEW V, NEW s \in Seq(V), NEW n \in 0..Len(s)
  PROVE  /\ SubSeq(s, 1, n) \in Seq(V) /\ Len(SubSeq(s, 1, n)) = n
         /\ \A i \in 1..n : SubSeq(s, 1, n)[i] = s[i]
  OBVIOUS

\* What is shared with the prompt of the request before: so many tokens of one
\* are the same as of the other, and fewer than the new prompt has, if it has any.
LEMMA CommonIsShared ==
  ASSUME NEW V, NEW old \in Seq(V), NEW prompt \in Seq(V), Len(prompt) > 0
  PROVE  LET n == Common(old, prompt) IN
         /\ n \in Nat /\ n < Len(prompt) /\ n <= Len(old)
         /\ \A i \in 1..n : old[i] = prompt[i]
<1> DEFINE C == CommonPrefixes({old, prompt})
           T == {Len(c) : c \in C}
<1>1. \A c \in C : /\ c \in Seq(V) /\ Len(c) <= Len(prompt) /\ Len(c) <= Len(old)
                   /\ \A i \in 1..Len(c) : old[i] = prompt[i]
  <2> SUFFICES ASSUME NEW c \in C
               PROVE  /\ c \in Seq(V) /\ Len(c) <= Len(prompt) /\ Len(c) <= Len(old)
                      /\ \A i \in 1..Len(c) : old[i] = prompt[i]
    OBVIOUS
  <2>1. PICK s \in {old, prompt} : \E l \in 0..Len(s) : c = SubSeq(s, 1, l)
    BY DEF CommonPrefixes, Prefixes
  <2>2. c \in Seq(V)
    BY <2>1
  <2>3. IsPrefix(c, old) /\ IsPrefix(c, prompt)
    BY DEF CommonPrefixes
  <2>4. /\ Len(c) <= Len(old) /\ Len(c) <= Len(prompt)
        /\ SubSeq(old, 1, Len(c)) = SubSeq(prompt, 1, Len(c))
    BY <2>3 DEF IsPrefix
  <2>5. ASSUME NEW i \in 1..Len(c) PROVE old[i] = prompt[i]
    <3>1. SubSeq(old, 1, Len(c))[i] = old[i] /\ SubSeq(prompt, 1, Len(c))[i] = prompt[i]
      BY <2>2, <2>4
    <3>2. QED
      BY <2>4, <3>1
  <2>6. QED
    BY <2>2, <2>4, <2>5
<1>2. <<>> \in C
  <2>1. SubSeq(old, 1, 0) = <<>> /\ 0 \in 0..Len(old)
    OBVIOUS
  <2>2. <<>> \in Prefixes(old)
    BY <2>1 DEF Prefixes
  <2>3. IsPrefix(<<>>, old) /\ IsPrefix(<<>>, prompt)
    BY DEF IsPrefix
  <2>4. QED
    BY <2>2, <2>3 DEF CommonPrefixes
<1> HIDE DEF C
<1>3. PICK e \in C : \A d \in C : Len(d) <= Len(e)
  <2>1. T \in SUBSET Nat /\ T # {} /\ Len(prompt) \in Nat /\ \A n \in T : n <= Len(prompt)
    <3>1. \A c \in C : Len(c) \in Nat /\ Len(c) <= Len(prompt)
      BY <1>1
    <3>2. T # {}
      BY <1>2
    <3>3. ASSUME NEW n \in T PROVE n \in Nat /\ n <= Len(prompt)
      <4>1. PICK c \in C : n = Len(c)
        OBVIOUS
      <4>2. QED
        BY <3>1, <4>1
    <3>4. QED
      BY <3>2, <3>3
  <2>2. PICK m \in T : \A n \in T : n <= m
    BY <2>1, GreatestBelow
  <2>3. QED
    BY <2>2
<1>4. LongestCommonPrefix({old, prompt}) \in C
  BY <1>3 DEF LongestCommonPrefix, C
<1>5. PICK c \in C : c = LongestCommonPrefix({old, prompt})
  BY <1>4
<1>6. /\ Len(c) \in Nat /\ Len(c) <= Len(prompt) /\ Len(c) <= Len(old)
      /\ \A i \in 1..Len(c) : old[i] = prompt[i]
  BY <1>1
<1>7. PICK n : n = Common(old, prompt)
  OBVIOUS
<1>8. n \in Nat /\ n < Len(prompt) /\ n <= Len(old) /\ n <= Len(c)
  <2>1. prompt # <<>>
    BY EmptySeq
  <2>2. n = Least(Len(c), Len(prompt) - 1)
    BY <1>5, <1>7, <2>1 DEF Common
  <2>3. QED
    BY <1>6, <2>2 DEF Least
<1>9. \A i \in 1..n : old[i] = prompt[i]
  BY <1>6, <1>8
<1>10. QED
  BY <1>7, <1>8, <1>9

-----------------------------------------------------------------------------
(* Text. *)

\* Whole characters after whole characters are whole characters.
LEMMA ValidConcat ==
  ASSUME NEW s \in Seq(Bytes), NEW t \in Seq(Bytes), Valid(s), Valid(t)
  PROVE  s \o t \in Seq(Bytes) /\ Valid(s \o t)
<1> DEFINE u == s \o t
<1>1. /\ u \in Seq(Bytes) /\ Len(u) = Len(s) + Len(t)
      /\ Len(s) \in Nat /\ Len(t) \in Nat
      /\ \A i \in 1..Len(s) : u[i] = s[i]
      /\ \A i \in 1..Len(t) : u[Len(s) + i] = t[i]
  BY ConcatProperties
<1>2. /\ \A i \in 1..Len(s) : /\ s[i] = "L" => i < Len(s) /\ s[i + 1] = "c"
                              /\ s[i] = "c" => i > 1 /\ s[i - 1] = "L"
      /\ \A i \in 1..Len(t) : /\ t[i] = "L" => i < Len(t) /\ t[i + 1] = "c"
                              /\ t[i] = "c" => i > 1 /\ t[i - 1] = "L"
  BY LenProperties DEF Valid
<1> HIDE DEF u
<1>3. ASSUME NEW i \in 1..Len(u)
      PROVE  /\ u[i] = "L" => i < Len(u) /\ u[i + 1] = "c"
             /\ u[i] = "c" => i > 1 /\ u[i - 1] = "L"
  <2>1. CASE i <= Len(s)
    <3>1. i \in 1..Len(s) /\ u[i] = s[i]
      BY <1>1, <2>1
    <3>2. /\ i < Len(s) => u[i + 1] = s[i + 1]
          /\ i > 1 => u[i - 1] = s[i - 1]
      <4>1. /\ i < Len(s) => i + 1 \in 1..Len(s)
            /\ i > 1 => i - 1 \in 1..Len(s)
        BY <1>1, <3>1
      <4>2. QED
        BY <1>1, <4>1
    <3>3. QED
      BY <1>1, <1>2, <3>1, <3>2
  <2>2. CASE i > Len(s)
    <3> DEFINE j == i - Len(s)
    <3>1. j \in 1..Len(t) /\ i = Len(s) + j /\ u[i] = t[j]
      BY <1>1, <2>2
    <3>2. /\ j < Len(t) => u[i + 1] = t[j + 1]
          /\ j > 1 => u[i - 1] = t[j - 1]
      <4>1. /\ j < Len(t) => j + 1 \in 1..Len(t) /\ i + 1 = Len(s) + (j + 1)
            /\ j > 1 => j - 1 \in 1..Len(t) /\ i - 1 = Len(s) + (j - 1)
        BY <1>1, <3>1
      <4> HIDE DEF j
      <4>2. QED
        BY <1>1, <4>1
    <3> HIDE DEF j
    <3>3. QED
      BY <1>1, <1>2, <3>1, <3>2
  <2>3. QED
    BY <1>1, <2>1, <2>2
<1>4. Valid(u)
  BY <1>1, <1>3 DEF Valid
<1>5. QED
  BY <1>1, <1>4 DEF u

\* What emit_utf8 emits is whole characters.
LEMMA Utf8PrefixValid ==
  ASSUME NEW s \in Seq(Bytes)
  PROVE  /\ Utf8Prefix(s) \in Seq(Bytes) /\ Valid(Utf8Prefix(s))
         /\ Len(Utf8Prefix(s)) \in 0..Len(s)
<1> DEFINE T == {n \in 0..Len(s) : Valid(SubSeq(s, 1, n))}
<1>1. Len(s) \in Nat /\ T \in SUBSET Nat /\ \A n \in T : n <= Len(s)
  OBVIOUS
<1>2. 0 \in T
  <2>1. SubSeq(s, 1, 0) = <<>>
    OBVIOUS
  <2>2. Valid(<<>>)
    BY DEF Valid
  <2>3. 0 \in 0..Len(s) /\ Valid(SubSeq(s, 1, 0))
    <3>1. 0 \in 0..Len(s)
      BY <1>1
    <3>2. Valid(SubSeq(s, 1, 0))
      BY <2>1, <2>2, Zenon
    <3>3. QED
      BY <3>1, <3>2
  <2>4. QED
    BY <2>3
<1>3. Max(T) \in T
  BY <1>1, <1>2, MaxBelow
<1>4. PICK n \in 0..Len(s) : n = Max(T) /\ Valid(SubSeq(s, 1, n))
  BY <1>3
<1>5. Utf8Prefix(s) = SubSeq(s, 1, n)
  BY <1>4 DEF Utf8Prefix
<1>6. SubSeq(s, 1, n) \in Seq(Bytes) /\ Len(SubSeq(s, 1, n)) = n
  BY FirstOf
<1>7. QED
  BY <1>4, <1>5, <1>6

\* A stop string is found where its bytes are.
LEMMA FoundAt ==
  ASSUME NEW s \in Seq(Bytes), NEW stop \in Seq(Bytes), stop # <<>>, NEW i \in Nat \ {0}
  PROVE  FindsAt(s, stop, i) <=> /\ i + Len(stop) - 1 <= Len(s)
                                 /\ \A k \in 1..Len(stop) : s[i + k - 1] = stop[k]
<1>1. Len(s) \in Nat /\ Len(stop) \in Nat \ {0}
  BY EmptySeq
<1>2. ASSUME i + Len(stop) - 1 <= Len(s)
      PROVE  SubSeq(s, i, i + Len(stop) - 1) = stop <=>
               \A k \in 1..Len(stop) : s[i + k - 1] = stop[k]
  <2> DEFINE w == SubSeq(s, i, i + Len(stop) - 1)
  <2>1. /\ w \in Seq(Bytes) /\ Len(w) = Len(stop)
        /\ \A k \in 1..Len(stop) : w[k] = s[i + k - 1]
    BY <1>1, <1>2
  <2> HIDE DEF w
  <2>2. (\A k \in 1..Len(stop) : w[k] = stop[k]) => w = stop
    BY <2>1, SeqEqual
  <2>3. QED
    BY <2>1, <2>2 DEF w
<1>3. QED
  BY <1>1, <1>2 DEF FindsAt

\* The text cut at its first stop string has none left, and a text without one
\* is not cut.
LEMMA CutAtFirstStop ==
  ASSUME NEW s \in Seq(Bytes), NEW stops \in SUBSET Seq(Bytes)
  PROVE  LET o == apply_stops(s, stops) IN
         /\ o \in Seq(Bytes) /\ IsPrefix(o, s) /\ ~Fires(o, stops)
         /\ ~Fires(s, stops) => o = s
<1> DEFINE hits == {i \in DOMAIN s : \E stop \in stops : stop # <<>> /\ FindsAt(s, stop, i)}
           o == apply_stops(s, stops)
<1>1. DOMAIN s = 1..Len(s) /\ Len(s) \in Nat
  OBVIOUS
<1>2. Fires(s, stops) <=> hits # {}
  BY DEF Fires, Finds
<1>3. CASE hits = {}
  <2>1. o = s
    BY <1>3 DEF apply_stops
  <2>2. IsPrefix(s, s)
    BY <1>1 DEF IsPrefix
  <2>3. QED
    BY <1>2, <1>3, <2>1, <2>2
<1>4. CASE hits # {}
  <2>0. hits \in SUBSET Nat /\ hits \subseteq 1..Len(s)
    BY <1>1
  <2>1. PICK m \in hits : \A i \in hits : m <= i
    <3> HIDE DEF hits
    <3>1. QED
      BY <1>4, <2>0, LeastNat
  <2>2. Min(hits) \in hits /\ \A i \in hits : Min(hits) <= i
    BY <2>1 DEF Min
  <2>3. PICK n : n = Min(hits) - 1
    OBVIOUS
  <2>4. n \in 0..Len(s) /\ n + 1 \in hits /\ \A i \in hits : n + 1 <= i
    <3> HIDE DEF hits
    <3>1. Min(hits) \in 1..Len(s)
      BY <2>0, <2>2
    <3>2. n \in 0..Len(s) /\ n + 1 = Min(hits)
      BY <1>1, <2>3, <3>1
    <3>3. QED
      BY <2>2, <3>2
  <2>5. o = SubSeq(s, 1, n)
    BY <1>4, <2>3 DEF apply_stops
  <2>6. o \in Seq(Bytes) /\ Len(o) = n /\ \A i \in 1..n : o[i] = s[i]
    BY <1>1, <2>4, <2>5
  <2> HIDE DEF o
  <2>7. IsPrefix(o, s)
    <3>1. SubSeq(o, 1, n) = o
      BY <2>6, SubSeqFull
    <3>2. QED
      BY <2>4, <2>5, <2>6, <3>1 DEF IsPrefix
  <2>8. ASSUME NEW stop \in stops, stop # <<>>, NEW i \in 1..n, FindsAt(o, stop, i)
        PROVE  FALSE
    <3>1. i \in Nat \ {0} /\ stop \in Seq(Bytes) /\ Len(stop) \in Nat \ {0}
      BY <2>4, <2>8, EmptySeq
    <3>2. i + Len(stop) - 1 <= n /\ \A k \in 1..Len(stop) : o[i + k - 1] = stop[k]
      BY <2>6, <2>8, <3>1, FoundAt
    <3>3. i + Len(stop) - 1 <= Len(s) /\ \A k \in 1..Len(stop) : s[i + k - 1] = stop[k]
      BY <2>4, <2>6, <3>1, <3>2
    <3>4. FindsAt(s, stop, i)
      BY <2>8, <3>1, <3>3, FoundAt
    <3>5. i \in hits
      BY <1>1, <2>4, <2>8, <3>4
    <3>6. QED
      BY <2>4, <3>5
  <2>9. ~Fires(o, stops)
    BY <2>6, <2>8 DEF Fires, Finds
  <2>10. QED
    BY <1>2, <1>4, <2>6, <2>7, <2>9 DEF o
<1>5. QED
  BY <1>3, <1>4

\* Stop strings fit in what is scanned again before a new piece.
LEMMA ScanReachesBack ==
  ASSUME NEW stops \in SUBSET Seq(Bytes), IsFiniteSet(stops), NEW before \in Nat
  PROVE  /\ ScanFrom(before, stops) \in 0..before
         /\ \A stop \in stops :
              Len(stop) > 0 => ScanFrom(before, stops) <= before - Len(stop) + 1
                               \/ ScanFrom(before, stops) = 0
<1> DEFINE T == {Len(stop) : stop \in stops}
           f == [stop \in stops |-> Len(stop)]
<1>1. T \in SUBSET Nat
  BY LenProperties
<1>2. IsFiniteSet(T)
  <2>1. f \in Surjection(stops, T)
    BY DEF Surjection
  <2> HIDE DEF f, T
  <2>2. QED
    BY <2>1, FS_Surjection
<1>3. PICK b \in Nat : \A x \in T : x <= b
  <2> HIDE DEF T
  <2>1. QED
    BY <1>1, <1>2, FiniteHasBound
<1>4. PICK m : m = Max(T \cup {1})
  OBVIOUS
<1>5. m \in Nat /\ m >= 1 /\ \A x \in T : x <= m
  <2>1. T \cup {1} \in SUBSET Nat /\ T \cup {1} # {} /\ \A x \in T \cup {1} : x <= b + 1
    <3> HIDE DEF T
    <3>1. QED
      BY <1>1, <1>3
  <2> HIDE DEF T
  <2>2. m \in T \cup {1} /\ \A x \in T \cup {1} : x <= m
    <3>1. b + 1 \in Nat
      BY <1>3
    <3>2. QED
      BY <1>4, <2>1, <3>1, MaxBelow
  <2>3. QED
    BY <1>1, <2>2
<1>6. ScanFrom(before, stops) = IF before > m - 1 THEN before - (m - 1) ELSE 0
  BY <1>4 DEF ScanFrom
<1>7. \A stop \in stops : Len(stop) \in Nat /\ Len(stop) <= m
  BY <1>1, <1>5
<1> HIDE DEF T
<1>8. QED
  BY <1>5, <1>6, <1>7

\* A stop string that was not in the text before a piece, and is not in the
\* view from there, is nowhere in the text.
LEMMA ViewMissesNone ==
  ASSUME NEW s \in Seq(Bytes), NEW before \in 0..Len(s),
         NEW stops \in SUBSET Seq(Bytes), IsFiniteSet(stops),
         \A stop \in stops : Valid(stop),
         ~Fires(SubSeq(s, 1, before), stops), ~Fires(View(s, before, stops), stops)
  PROVE  ~Fires(s, stops)
<1> SUFFICES ASSUME NEW stop \in stops, stop # <<>>, NEW i \in DOMAIN s, FindsAt(s, stop, i)
             PROVE  FALSE
  BY DEF Fires, Finds
<1>1. /\ Len(s) \in Nat /\ before \in Nat /\ stop \in Seq(Bytes)
      /\ Len(stop) \in Nat \ {0} /\ i \in 1..Len(s) /\ i \in Nat \ {0}
  BY EmptySeq, LenProperties
<1>2. i + Len(stop) - 1 <= Len(s) /\ \A k \in 1..Len(stop) : s[i + k - 1] = stop[k]
  BY <1>1, FoundAt
<1>3. i + Len(stop) - 1 > before
  <2> SUFFICES ASSUME i + Len(stop) - 1 <= before PROVE FALSE
    BY <1>1
  <2> DEFINE h == SubSeq(s, 1, before)
  <2>1. h \in Seq(Bytes) /\ Len(h) = before /\ \A k \in 1..before : h[k] = s[k]
    BY FirstOf
  <2> HIDE DEF h
  <2>2. \A k \in 1..Len(stop) : h[i + k - 1] = stop[k]
    BY <1>1, <1>2, <2>1
  <2>3. FindsAt(h, stop, i)
    BY <1>1, <2>1, <2>2, FoundAt
  <2>4. i \in DOMAIN h
    <3>1. DOMAIN h = 1..before /\ i <= before
      BY <1>1, <2>1
    <3>2. QED
      BY <1>1, <3>1
  <2>5. QED
    BY <2>3, <2>4 DEF Fires, Finds, h
<1>4. PICK from : from = ScanFrom(before, stops)
  OBVIOUS
<1>5. from \in 0..before /\ from + 1 <= i
  <2>1. /\ from \in 0..before
        /\ Len(stop) > 0 => from <= before - Len(stop) + 1 \/ from = 0
    BY <1>1, <1>4, ScanReachesBack
  <2>2. QED
    BY <1>1, <1>3, <2>1
<1>6. PICK start : /\ View(s, before, stops) = SubSeq(s, start + 1, Len(s))
                   /\ start = from \/ (start = from + 1 /\ s[from + 1] = "c")
  <2> DEFINE st == IF from < Len(s) /\ s[from + 1] = "c" THEN from + 1 ELSE from
  <2>1. View(s, before, stops) = SubSeq(s, st + 1, Len(s))
    BY <1>4 DEF View
  <2>2. QED
    BY <2>1
<1>7. start + 1 <= i /\ start \in Nat
  <2>1. CASE start = from
    BY <1>5, <2>1
  <2>2. CASE start = from + 1 /\ i = from + 1
    <3>1. stop[1] = "c"
      BY <1>1, <1>2, <1>6, <2>2
    <3>2. QED
      BY <1>1, <3>1, LenProperties DEF Valid
  <2>3. QED
    BY <1>5, <1>6, <2>1, <2>2
<1> DEFINE v == SubSeq(s, start + 1, Len(s))
<1>8. v \in Seq(Bytes) /\ Len(v) = Len(s) - start /\ \A k \in 1..Len(v) : v[k] = s[start + k]
  BY <1>1, <1>7
<1>9. PICK j \in Nat \ {0} : i = start + j
  <2>1. i - start \in Nat \ {0} /\ i = start + (i - start)
    BY <1>1, <1>7
  <2>2. QED
    BY <2>1
<1> HIDE DEF v
<1>10. \A k \in 1..Len(stop) : v[j + k - 1] = stop[k]
  <2> SUFFICES ASSUME NEW k \in 1..Len(stop) PROVE v[j + k - 1] = stop[k]
    OBVIOUS
  <2>1. j + k - 1 \in 1..Len(v) /\ i + k - 1 = start + (j + k - 1)
    BY <1>1, <1>2, <1>7, <1>8, <1>9
  <2>2. QED
    BY <1>2, <1>8, <2>1
<1>11. j + Len(stop) - 1 <= Len(v) /\ j \in 1..Len(v)
  BY <1>1, <1>2, <1>7, <1>8, <1>9
<1>12. FindsAt(v, stop, j) /\ j \in DOMAIN v
  BY <1>1, <1>8, <1>9, <1>10, <1>11, FoundAt, LenProperties
<1>13. QED
  BY <1>6, <1>12 DEF Fires, Finds, v

-----------------------------------------------------------------------------
(* The invariant. *)

Requests == [prompt : Seq(Vocabulary), stop : StopSets \cup {{}}, max : Nat]
Replies == [status : {0, 200, 400, 502},
            why : {"none", "setup", "overflow", "batch", "decode", "stop", "length"},
            output : Seq(Bytes)]

Typed ==
  /\ phase \in {"idle", "trim", "prefill", "sample", "feed", "failed"}
  /\ kv \in Seq(Vocabulary) /\ last \in Seq(Vocabulary) /\ batch \in Seq(Vocabulary)
  /\ req \in Requests /\ at \in Nat
  /\ gen \in Seq(Tokens) /\ pending \in Seq(Bytes) /\ out \in Seq(Bytes)
  /\ reply \in Replies

\* While the prompt is prefilled the history is behind the cells, and llama.rs's
\* batch is empty or full.
Prefilling ==
  /\ Len(last) <= at
  /\ at < Len(req.prompt) \/ (req.prompt = <<>> /\ at = 0 /\ batch = <<>>)
  /\ last = SubSeq(req.prompt, 1, Len(last)) /\ kv = SubSeq(req.prompt, 1, at)
  /\ batch = <<>> \/ Len(batch) = NBatch

\* What is in the cells, and what last_tokens says of them, in each phase.
Cells ==
  /\ phase \in {"idle", "trim"} => last = kv
  /\ phase \in {"trim", "prefill"} => gen = <<>>
  /\ phase = "trim" => batch = <<>>
  /\ phase = "prefill" => Prefilling
  /\ phase = "sample" => kv = req.prompt \o gen /\ last = kv /\ (kv # <<>> => logits = kv)
  /\ phase = "feed" => gen # <<>> /\ last = kv /\ kv = req.prompt \o Front(gen)

\* No stop string is in the text of a request that goes on.
Unstopped == phase \in {"trim", "prefill", "sample", "feed"} => ~Fires(out, req.stop)

Unanswered == phase # "idle" => reply.status # 200

\* What was emitted is whole characters.
WholeText == Valid(out)

GInv == Typed /\ Cells /\ Unstopped /\ Unanswered /\ WholeText /\ StopsAreFound

\* Stop strings are well-formed byte strings.
LEMMA StopsTyped ==
  ASSUME NEW stops \in StopSets \cup {{}}
  PROVE  /\ stops \in SUBSET Seq(Bytes) /\ IsFiniteSet(stops)
         /\ \A stop \in stops : Valid(stop)
  BY GenerationAssumption, FS_EmptySet

\* A new handle.
LEMMA InitInv == Init => GInv
<1> SUFFICES ASSUME Init PROVE GInv
  OBVIOUS
<1>1. <<>> \in Seq(Vocabulary) /\ <<>> \in Seq(Tokens) /\ <<>> \in Seq(Bytes)
  OBVIOUS
<1>2. Typed
  BY <1>1 DEF Init, Typed, NoReq, NoReply, Requests, Replies
<1>3. Cells /\ Unstopped /\ Unanswered
  BY DEF Init, Cells, Unstopped, Unanswered
<1>4. WholeText /\ StopsAreFound
  BY DEF Init, WholeText, Valid, StopsAreFound, NoReply
<1>5. QED
  BY <1>2, <1>3, <1>4 DEF GInv

\* The request ends without a text: what was emitted stands.
LEMMA AnswerWithout ==
  ASSUME GInv, NEW status \in {400, 502}, NEW why \in {"setup", "overflow", "batch", "decode"},
         Answer(status, why, <<>>), UNCHANGED <<req, at, batch, text>>,
         kv' \in Seq(Vocabulary), last' = kv'
  PROVE  GInv'
<1>1. /\ phase' = "idle" /\ reply'.status = status /\ reply' \in Replies
      /\ UNCHANGED <<req, at, batch, gen, pending, out>>
  BY DEF Answer, text, Replies
<1>2. Typed' /\ Cells' /\ Unstopped' /\ Unanswered'
  BY <1>1 DEF GInv, Typed, Cells, Unstopped, Unanswered
<1>3. WholeText' /\ StopsAreFound'
  BY <1>1 DEF GInv, WholeText, StopsAreFound
<1>4. QED
  BY <1>2, <1>3 DEF GInv

\* The common prefix is kept and the rest is to be decoded.
LEMMA RequestStep ==
  ASSUME GInv, NEW p \in Prompts, NEW s \in StopSets, NEW n \in MaxTokens, Request(p, s, n)
  PROVE  GInv'
<1>1. /\ p \in Seq(Vocabulary) /\ n \in Nat
      /\ <<>> \in Seq(Vocabulary) /\ <<>> \in Seq(Tokens) /\ <<>> \in Seq(Bytes)
  BY GenerationAssumption
<1>2. req' \in Requests /\ req'.prompt = p
  BY <1>1 DEF Request, Requests
<1>3. reply' \in Replies /\ reply'.status = 0
  BY <1>1 DEF Request, NoReply, Replies
<1>4. phase = "idle" /\ phase' = "trim" /\ UNCHANGED <<kv, last>>
      /\ at' = 0 /\ batch' = <<>> /\ gen' = <<>> /\ pending' = <<>> /\ out' = <<>>
  BY DEF Request
<1>5. Typed'
  BY <1>1, <1>2, <1>3, <1>4 DEF GInv, Typed
<1>6. Cells' /\ Unanswered'
  BY <1>3, <1>4 DEF GInv, Cells, Unanswered
<1>7. Unstopped' /\ WholeText'
  BY <1>4 DEF Unstopped, Fires, Finds, WholeText, Valid
<1>8. StopsAreFound'
  BY <1>3 DEF StopsAreFound
<1>9. QED
  BY <1>5, <1>6, <1>7, <1>8 DEF GInv

\* A refused request leaves the handle alone.
LEMMA RefuseStep == GInv /\ Refuse => GInv'
<1> SUFFICES ASSUME GInv, Refuse PROVE GInv'
  OBVIOUS
<1>1. last' = kv' /\ kv' \in Seq(Vocabulary)
  BY DEF Refuse, GInv, Typed, Cells
<1>2. QED
  BY <1>1, AnswerWithout DEF Refuse

\* The shared prefix is in the cells, and is the beginning of the prompt.
LEMMA TrimStep == GInv /\ Trim => GInv'
<1> SUFFICES ASSUME GInv, Trim PROVE GInv'
  OBVIOUS
<1>1. /\ phase = "trim" /\ phase' = "prefill" /\ last = kv /\ kv \in Seq(Vocabulary)
      /\ req \in Requests /\ req.prompt \in Seq(Vocabulary) /\ batch = <<>>
      /\ UNCHANGED <<logits, req, batch, gen, pending, out, reply>>
  BY DEF Trim, GInv, Typed, Cells, Requests, text
<1>2. PICK common \in {0} \cup (IF kind = "npu" THEN {} ELSE {Common(last, req.prompt)}) :
        /\ kv' = SubSeq(kv, 1, common) /\ last' = SubSeq(last, 1, common)
        /\ at' = common
  BY DEF Trim
<1>3. /\ common \in Nat /\ common <= Len(req.prompt) /\ common <= Len(kv)
      /\ common < Len(req.prompt) \/ (req.prompt = <<>> /\ common = 0)
      /\ \A i \in 1..common : kv[i] = req.prompt[i]
  <2>1. Len(req.prompt) \in Nat /\ Len(kv) \in Nat /\ (Len(req.prompt) = 0 <=> req.prompt = <<>>)
    BY <1>1, EmptySeq, LenProperties
  <2>2. CASE common = 0
    BY <2>1, <2>2
  <2>3. CASE common = Common(last, req.prompt) /\ req.prompt = <<>>
    BY <2>2, <2>3 DEF Common
  <2>4. CASE common = Common(last, req.prompt) /\ req.prompt # <<>>
    <3>1. Len(req.prompt) > 0
      BY <2>1, <2>4
    <3>2. QED
      BY <1>1, <2>1, <2>4, <3>1, CommonIsShared
  <2>5. QED
    BY <1>2, <2>2, <2>3, <2>4
<1>4. /\ kv' \in Seq(Vocabulary) /\ Len(kv') = common /\ last' = kv'
      /\ kv' = SubSeq(req.prompt, 1, common)
  <2>1. common \in 0..Len(kv) /\ common \in 0..Len(req.prompt)
    BY <1>1, <1>3
  <2> DEFINE a == SubSeq(kv, 1, common)
             b == SubSeq(req.prompt, 1, common)
  <2>2. /\ a \in Seq(Vocabulary) /\ Len(a) = common /\ \A i \in 1..common : a[i] = kv[i]
        /\ b \in Seq(Vocabulary) /\ Len(b) = common
        /\ \A i \in 1..common : b[i] = req.prompt[i]
    BY <1>1, <2>1, FirstOf
  <2> HIDE DEF a, b
  <2>3. a = b
    BY <1>3, <2>2, SeqEqual
  <2>4. QED
    BY <1>1, <1>2, <2>2, <2>3 DEF a, b
<1>5. Typed'
  BY <1>1, <1>2, <1>3, <1>4 DEF GInv, Typed
<1>6. Cells'
  <2>1. /\ phase' = "prefill" /\ gen' = <<>> /\ batch' = <<>> /\ req' = req
        /\ at' = common /\ Len(last') = common
    BY <1>1, <1>2, <1>4 DEF GInv, Cells
  <2>2. last' = SubSeq(req.prompt, 1, Len(last')) /\ kv' = SubSeq(req.prompt, 1, at')
    BY <1>4, <2>1
  <2>3. Len(last') <= at'
    BY <1>3, <2>1
  <2>4. at' < Len(req'.prompt) \/ (req'.prompt = <<>> /\ at' = 0 /\ batch' = <<>>)
    BY <1>3, <2>1
  <2>5. Prefilling'
    BY <2>1, <2>2, <2>3, <2>4 DEF Prefilling
  <2>6. QED
    BY <2>1, <2>5 DEF Cells
<1>7. Unstopped' /\ Unanswered' /\ WholeText' /\ StopsAreFound'
  BY <1>1 DEF GInv, Unstopped, Unanswered, WholeText, StopsAreFound
<1>8. QED
  BY <1>5, <1>6, <1>7 DEF GInv

\* A request without memory leaves the handle alone.
LEMMA AllocFailsStep == GInv /\ AllocFails => GInv'
<1> SUFFICES ASSUME GInv, AllocFails PROVE GInv'
  OBVIOUS
<1>1. last' = kv' /\ kv' \in Seq(Vocabulary)
  BY DEF AllocFails, GInv, Typed, Cells, Prefilling
<1>2. QED
  BY <1>1, AnswerWithout DEF AllocFails

\* After a failure nothing is claimed of the cells until they are cleared.
LEMMA FailsStep ==
  ASSUME GInv, phase \in {"prefill", "feed"}, phase' = "failed",
         kv' \in Seq(Vocabulary), last' \in Seq(Vocabulary), batch' \in Seq(Vocabulary),
         reply' \in Replies, reply'.status # 200, UNCHANGED <<req, at, text>>
  PROVE  GInv'
<1>1. Typed'
  BY DEF GInv, Typed, text
<1>2. Cells' /\ Unstopped' /\ Unanswered' /\ WholeText' /\ StopsAreFound'
  BY DEF GInv, Cells, Unstopped, Unanswered, WholeText, StopsAreFound, text
<1>3. QED
  BY <1>1, <1>2 DEF GInv

\* A failed decode may leave any part of its batch in the cells.
LEMMA DecodeFailsTyped ==
  ASSUME kv \in Seq(Vocabulary), NEW b \in Seq(Vocabulary), DecodeFails(b)
  PROVE  kv' \in Seq(Vocabulary) /\ phase' = "failed" /\ last' = last
<1>1. PICK n \in 0..Len(b) : kv' = kv \o SubSeq(b, 1, n)
  BY DEF DecodeFails
<1>2. SubSeq(b, 1, n) \in Seq(Vocabulary)
  BY FirstOf
<1>3. QED
  BY <1>1, <1>2, ConcatProperties DEF DecodeFails

\* The error path forgets the cells and the history together.
LEMMA CleanUpStep == GInv /\ CleanUp => GInv'
<1> SUFFICES ASSUME GInv, CleanUp PROVE GInv'
  OBVIOUS
<1>1. last' = kv' /\ kv' \in Seq(Vocabulary)
  BY DEF CleanUp
<1>2. PICK why \in {"batch", "decode"} : Answer(502, why, <<>>)
  BY DEF CleanUp
<1>3. QED
  BY <1>1, <1>2, AnswerWithout DEF CleanUp

\* A chunk is appended only to an empty batch, so the cells hold the prompt up
\* to its end; the last chunk makes the history the whole prompt.
LEMMA PrefillStep == GInv /\ Prefill => GInv'
<1> SUFFICES ASSUME GInv, Prefill PROVE GInv'
  OBVIOUS
<1> DEFINE p == req.prompt
           end == Least(Len(p), at + NBatch)
           b == batch \o SubSeq(p, at + 1, end)
<1>1. /\ phase = "prefill" /\ p \in Seq(Vocabulary) /\ Len(p) \in Nat /\ at \in Nat
      /\ kv \in Seq(Vocabulary) /\ last \in Seq(Vocabulary) /\ batch \in Seq(Vocabulary)
      /\ Len(last) \in Nat /\ Len(last) <= at
      /\ at < Len(p) \/ (p = <<>> /\ at = 0 /\ batch = <<>> /\ Len(p) = 0)
      /\ last = SubSeq(p, 1, Len(last)) /\ kv = SubSeq(p, 1, at) /\ gen = <<>>
      /\ batch = <<>> \/ Len(batch) = NBatch
      /\ NBatch \in Nat \ {0}
  BY GenerationAssumption, LenProperties DEF Prefill, GInv, Typed, Cells, Prefilling, Requests
<1>2. /\ end \in Nat /\ at <= end /\ end <= Len(p) /\ (end # Len(p) => end = at + NBatch)
      /\ at < end \/ (p = <<>> /\ at = 0 /\ end = 0 /\ batch = <<>>)
  BY <1>1 DEF Least
<1> HIDE DEF end
<1>3. LET c == SubSeq(p, at + 1, end) IN
      c \in Seq(Vocabulary) /\ Len(c) = end - at
  <2>1. \A i \in (at + 1)..end : p[i] \in Vocabulary
    BY <1>1, <1>2, ElementOfSeq
  <2>2. QED
    BY <1>1, <1>2, <2>1, SubSeqProperties
<1>4. b \in Seq(Vocabulary) /\ Len(b) = Len(batch) + (end - at)
  BY <1>1, <1>3, ConcatProperties
<1>5. \/ /\ Len(b) <= NBatch /\ Decodes(b) /\ at' = end
         /\ batch' = IF kind = "llama" THEN b ELSE <<>>
         /\ IF end = Len(p)
            THEN phase' = "sample" /\ last' = last \o SubSeq(p, Len(last) + 1, end)
            ELSE UNCHANGED <<phase, last>>
         /\ UNCHANGED <<kind, req, text, reply>>
      \/ Len(b) <= NBatch /\ DecodeFails(b) /\ UNCHANGED <<kind, req, at, batch, text, reply>>
      \/ /\ Len(b) > NBatch /\ phase' = "failed" /\ reply' = [NoReply EXCEPT !.why = "batch"]
         /\ UNCHANGED <<kind, kv, logits, last, req, at, batch, text>>
  BY DEF Prefill, end
<1>6. CASE DecodeFails(b) /\ UNCHANGED <<req, at, batch, text, reply>>
  <2> HIDE DEF b
  <2>1. kv' \in Seq(Vocabulary) /\ phase' = "failed" /\ last' = last
    BY <1>1, <1>4, <1>6, DecodeFailsTyped
  <2>2. QED
    BY <1>1, <1>6, <2>1, FailsStep DEF GInv, Typed, Unanswered
<1>7. CASE /\ phase' = "failed" /\ reply' = [NoReply EXCEPT !.why = "batch"]
           /\ UNCHANGED <<kv, last, req, at, batch, text>>
  <2>1. reply' \in Replies /\ reply'.status = 0
    <3>1. <<>> \in Seq(Bytes)
      OBVIOUS
    <3>2. QED
      BY <1>7, <3>1 DEF NoReply, Replies
  <2>2. QED
    BY <1>1, <1>7, <2>1, FailsStep DEF GInv, Typed
<1>8. CASE /\ Len(b) <= NBatch /\ Decodes(b) /\ at' = end
           /\ batch' = IF kind = "llama" THEN b ELSE <<>>
           /\ IF end = Len(p)
              THEN phase' = "sample" /\ last' = last \o SubSeq(p, Len(last) + 1, end)
              ELSE UNCHANGED <<phase, last>>
           /\ UNCHANGED <<req, text, reply>>
  <2>1. batch = <<>> /\ b = SubSeq(p, at + 1, end) /\ Len(b) = end - at
    <3>1. batch = <<>> \/ Len(batch) # NBatch
      BY <1>1, <1>2, <1>4, <1>8
    <3>2. batch = <<>>
      BY <1>1, <3>1
    <3>3. QED
      BY <1>1, <1>2, <1>3, <1>4, <3>2, ConcatEmptySeq
  <2>2. kv' = SubSeq(p, 1, end) /\ (p # <<>> => logits' = kv')
    <3>1. kv' = SubSeq(p, 1, at) \o SubSeq(p, at + 1, end) /\ (b # <<>> => logits' = kv')
      BY <1>1, <1>8, <2>1 DEF Decodes
    <3>4. p # <<>> => b # <<>>
      <4>1. p # <<>> => Len(b) # 0
        <5> HIDE DEF p, b
        <5>1. QED
          BY <1>1, <1>2, <2>1
      <4>2. QED
        BY <4>1
    <3>2. SubSeq(p, 1, at) \o SubSeq(p, at + 1, end) = SubSeq(p, 1, end)
      <4>1. 1 \in 1..(Len(p) + 1) /\ at \in (1 - 1)..Len(p) /\ end \in at..Len(p)
        BY <1>1, <1>2
      <4>2. QED
        BY <1>1, <4>1, ConcatAdjacentSubSeq
    <3>3. QED
      BY <3>1, <3>2, <3>4
  <2>3. kv' \in Seq(Vocabulary)
    <3>1. end \in 0..Len(p)
      BY <1>1, <1>2
    <3>2. QED
      BY <1>1, <2>2, <3>1, FirstOf
  <2>4. batch' \in Seq(Vocabulary) /\ (end # Len(p) => batch' = <<>> \/ Len(batch') = NBatch)
    BY <1>1, <1>2, <1>4, <1>8, <2>1
  <2> HIDE DEF b
  <2>5. CASE end = Len(p)
    <3>1. phase' = "sample" /\ last' = SubSeq(p, 1, Len(last)) \o SubSeq(p, Len(last) + 1, end)
      BY <1>1, <1>8, <2>5
    <3>2. SubSeq(p, 1, Len(last)) \o SubSeq(p, Len(last) + 1, end) = SubSeq(p, 1, end)
      <4>1. 1 \in 1..(Len(p) + 1) /\ Len(last) \in (1 - 1)..Len(p) /\ end \in Len(last)..Len(p)
        BY <1>1, <1>2
      <4>2. QED
        BY <1>1, <4>1, ConcatAdjacentSubSeq
    <3>3. SubSeq(p, 1, end) = p /\ p \o <<>> = p
      BY <1>1, <2>5, SubSeqFull, ConcatEmptySeq
    <3>4. kv' = p /\ last' = p /\ (p # <<>> => logits' = p) /\ gen' = <<>> /\ UNCHANGED <<req, pending, out, reply>>
      BY <1>1, <1>8, <2>2, <3>1, <3>2, <3>3 DEF text
    <3>5. Typed'
      BY <1>1, <1>2, <1>8, <2>3, <2>4, <3>1, <3>4 DEF GInv, Typed
    <3>6. Cells'
      BY <3>1, <3>3, <3>4 DEF Cells
    <3>7. QED
      BY <1>1, <3>1, <3>4, <3>5, <3>6
      DEF GInv, Unstopped, Unanswered, WholeText, StopsAreFound
  <2>6. CASE end # Len(p)
    <3>1. UNCHANGED <<phase, last, req, gen, pending, out, reply>>
      BY <1>8, <2>6 DEF text
    <3>2. Typed'
      BY <1>1, <1>2, <1>8, <2>3, <2>4, <3>1 DEF GInv, Typed
    <3>3. Cells'
      <4>1. /\ phase' = "prefill" /\ gen' = <<>> /\ last' = last /\ req' = req /\ at' = end
            /\ end < Len(p) /\ Len(last) <= end
        <5> HIDE DEF p
        <5>1. QED
          BY <1>1, <1>2, <1>8, <2>6, <3>1
      <4>2. last' = SubSeq(p, 1, Len(last')) /\ kv' = SubSeq(p, 1, at')
        BY <1>1, <2>2, <4>1
      <4>3. batch' = <<>> \/ Len(batch') = NBatch
        BY <2>4, <2>6
      <4>4. Prefilling'
        BY <4>1, <4>2, <4>3 DEF Prefilling
      <4>5. QED
        BY <4>1, <4>4 DEF Cells
    <3>4. QED
      BY <1>1, <3>1, <3>2, <3>3
      DEF GInv, Unstopped, Unanswered, WholeText, StopsAreFound
  <2>7. QED
    BY <2>5, <2>6
<1>9. QED
  BY <1>5, <1>6, <1>7, <1>8

\* The answer to a request that ran is its text up to the first stop string.
LEMMA DoneStep ==
  ASSUME out' \in Seq(Bytes), NEW stops \in SUBSET Seq(Bytes), stops = req.stop,
         NEW why \in {"stop", "length"}, Done(why), why = "length" => ~Fires(out', stops),
         UNCHANGED req
  PROVE  phase' = "idle" /\ reply' \in Replies /\ StopsAreFound'
<1> DEFINE o == apply_stops(out', stops)
<1>1. /\ o \in Seq(Bytes) /\ IsPrefix(o, out') /\ ~Fires(o, stops)
      /\ ~Fires(out', stops) => o = out'
  BY CutAtFirstStop
<1>2. phase' = "idle" /\ reply' = [status |-> 200, why |-> why, output |-> o]
  BY DEF Done, Answer
<1> HIDE DEF o
<1>3. reply' \in Replies /\ reply'.why = why /\ reply'.output = o
  BY <1>1, <1>2 DEF Replies
<1>4. QED
  BY <1>1, <1>2, <1>3 DEF StopsAreFound

\* The end-of-text token adds nothing to the text.
LEMMA SampleEndStep == GInv /\ SampleEnd => GInv'
<1> SUFFICES ASSUME GInv, SampleEnd PROVE GInv'
  OBVIOUS
<1>1. /\ phase = "sample" /\ req.stop \in SUBSET Seq(Bytes)
      /\ UNCHANGED <<kv, last, req, at, batch, gen, pending, out>> /\ Done("stop")
  BY StopsTyped DEF SampleEnd, GInv, Typed, Requests
<1>2. phase' = "idle" /\ reply' \in Replies /\ StopsAreFound'
  BY <1>1, DoneStep DEF GInv, Typed
<1>3. Typed' /\ Cells' /\ Unstopped' /\ Unanswered' /\ WholeText'
  BY <1>1, <1>2 DEF GInv, Typed, Cells, Unstopped, Unanswered, WholeText
<1>4. QED
  BY <1>2, <1>3 DEF GInv

\* A sampled token's whole characters are emitted; where no stop string shows
\* in the view back from them, there is none in the text.
LEMMA SampleStep ==
  ASSUME GInv, NEW t \in Tokens, Sample(t)
  PROVE  GInv'
<1> DEFINE bytes == pending \o Piece[t]
           emitted == Utf8Prefix(bytes)
<1>1. /\ phase = "sample" /\ out \in Seq(Bytes) /\ pending \in Seq(Bytes)
      /\ gen \in Seq(Tokens) /\ Valid(out) /\ ~Fires(out, req.stop)
      /\ req.stop \in SUBSET Seq(Bytes) /\ IsFiniteSet(req.stop)
      /\ \A stop \in req.stop : Valid(stop)
      /\ UNCHANGED <<kv, logits, last, req, at, batch>>
  BY StopsTyped DEF Sample, GInv, Typed, Unstopped, WholeText, Requests
<1>2. bytes \in Seq(Bytes)
  <2>1. Piece[t] \in Seq(Bytes)
    BY GenerationAssumption
  <2>2. QED
    BY <1>1, <2>1, ConcatProperties
<1>3. /\ gen' = Append(gen, t) /\ out' = out \o emitted
      /\ pending' = SubSeq(bytes, Len(emitted) + 1, Len(bytes))
      /\ IF Fires(View(out', Len(out), req.stop), req.stop) THEN Done("stop")
         ELSE IF Len(gen') >= Max({req.max, 1}) THEN Done("length")
         ELSE phase' = "feed" /\ UNCHANGED reply
  BY DEF Sample, Kept
<1> HIDE DEF bytes
<1>4. emitted \in Seq(Bytes) /\ Valid(emitted) /\ Len(emitted) \in 0..Len(bytes)
  BY <1>2, Utf8PrefixValid
<1> HIDE DEF emitted
<1>5. /\ out' \in Seq(Bytes) /\ Valid(out')
      /\ Len(out) \in 0..Len(out') /\ SubSeq(out', 1, Len(out)) = out
  <2>1. out' \in Seq(Bytes) /\ Valid(out')
    BY <1>1, <1>3, <1>4, ValidConcat
  <2>2. /\ Len(out) \in Nat /\ Len(emitted) \in Nat /\ Len(out') = Len(out) + Len(emitted)
        /\ \A i \in 1..Len(out) : out'[i] = out[i]
    BY <1>1, <1>3, <1>4, ConcatProperties
  <2>3. Len(out) \in 0..Len(out')
    BY <2>2
  <2> DEFINE w == SubSeq(out', 1, Len(out))
  <2>4. w \in Seq(Bytes) /\ Len(w) = Len(out) /\ \A i \in 1..Len(out) : w[i] = out'[i]
    BY <2>1, <2>3, FirstOf
  <2> HIDE DEF w
  <2>5. w = out
    BY <1>1, <2>2, <2>4, SeqEqual
  <2>6. QED
    BY <2>1, <2>3, <2>5 DEF w
<1>6. gen' \in Seq(Tokens) /\ gen' # <<>> /\ Front(gen') = gen
  <2>1. /\ gen' \in Seq(Tokens) /\ gen' # <<>> /\ Len(gen') = Len(gen) + 1
        /\ \A i \in 1..Len(gen) : gen'[i] = gen[i]
    BY <1>1, <1>3, AppendProperties
  <2>2. Front(gen') = SubSeq(gen', 1, Len(gen)) /\ Len(gen) \in 0..Len(gen')
    BY <1>1, <2>1 DEF Front
  <2> DEFINE w == SubSeq(gen', 1, Len(gen))
  <2>3. w \in Seq(Tokens) /\ Len(w) = Len(gen) /\ \A i \in 1..Len(gen) : w[i] = gen'[i]
    BY <2>1, <2>2, FirstOf
  <2> HIDE DEF w
  <2>4. w = gen
    BY <1>1, <2>1, <2>3, SeqEqual
  <2>5. QED
    BY <2>1, <2>2, <2>4 DEF w
<1>7. pending' \in Seq(Bytes)
  <2>1. \A i \in (Len(emitted) + 1)..Len(bytes) : bytes[i] \in Bytes
    BY <1>2, <1>4, ElementOfSeq
  <2>2. Len(emitted) + 1 \in Int /\ Len(bytes) \in Int
    BY <1>2, <1>4
  <2>3. QED
    BY <1>3, <2>1, <2>2, SubSeqProperties
<1>8. ~Fires(View(out', Len(out), req.stop), req.stop) => ~Fires(out', req.stop)
  <2>1. PICK s : s = out'
    OBVIOUS
  <2>2. s \in Seq(Bytes) /\ Len(out) \in 0..Len(s) /\ SubSeq(s, 1, Len(out)) = out
    BY <1>5, <2>1
  <2>3. ~Fires(SubSeq(s, 1, Len(out)), req.stop)
    BY <1>1, <2>2, Zenon
  <2>4. ~Fires(View(s, Len(out), req.stop), req.stop) => ~Fires(s, req.stop)
    BY <1>1, <2>2, <2>3, ViewMissesNone
  <2>5. QED
    BY <2>1, <2>4, Zenon
<1>9. CASE phase' = "feed" /\ UNCHANGED reply /\ ~Fires(View(out', Len(out), req.stop), req.stop)
  <2>1. Typed'
    BY <1>1, <1>5, <1>6, <1>7, <1>9 DEF GInv, Typed
  <2>2. Cells'
    BY <1>1, <1>6, <1>9 DEF GInv, Cells
  <2>3. Unstopped' /\ Unanswered' /\ WholeText' /\ StopsAreFound'
    BY <1>1, <1>5, <1>8, <1>9
    DEF GInv, Unstopped, Unanswered, WholeText, StopsAreFound
  <2>4. QED
    BY <2>1, <2>2, <2>3 DEF GInv
<1>10. ASSUME NEW why \in {"stop", "length"}, Done(why),
              why = "length" => ~Fires(View(out', Len(out), req.stop), req.stop)
       PROVE  GInv'
  <2>1. phase' = "idle" /\ reply' \in Replies /\ StopsAreFound'
    BY <1>1, <1>5, <1>8, <1>10, DoneStep
  <2>2. Typed'
    BY <1>1, <1>5, <1>6, <1>7, <2>1 DEF GInv, Typed
  <2>3. Cells' /\ Unstopped' /\ Unanswered' /\ WholeText'
    BY <1>1, <1>5, <2>1 DEF GInv, Cells, Unstopped, Unanswered, WholeText
  <2>4. QED
    BY <2>1, <2>2, <2>3 DEF GInv
<1>11. QED
  BY <1>3, <1>9, <1>10

\* A token fed back is appended to the cells and to the history alike.
LEMMA FeedStep == GInv /\ Feed => GInv'
<1> SUFFICES ASSUME GInv, Feed PROVE GInv'
  OBVIOUS
<1> DEFINE b == <<Last(gen)>>
<1>1. /\ phase = "feed" /\ req.prompt \in Seq(Vocabulary) /\ gen \in Seq(Tokens)
      /\ gen # <<>> /\ last = kv /\ kv \in Seq(Vocabulary) /\ kv = req.prompt \o Front(gen)
      /\ batch' = b /\ UNCHANGED <<req, at, gen, pending, out, reply>>
  BY DEF Feed, GInv, Typed, Cells, Requests, text
<1>2. /\ Last(gen) \in Vocabulary /\ b \in Seq(Vocabulary) /\ b # <<>>
      /\ gen \in Seq(Vocabulary) /\ Front(gen) \in Seq(Vocabulary) /\ Front(gen) \o b = gen
  <2>1. Len(gen) \in Nat \ {0} /\ Len(gen) \in 1..Len(gen)
    BY <1>1, EmptySeq
  <2>2. gen \in Seq(Vocabulary)
    BY <1>1, SeqMonotonic DEF Vocabulary
  <2>3. Last(gen) \in Vocabulary
    BY <2>1, <2>2, ElementOfSeq DEF Last
  <2>4. Len(gen) - 1 \in 0..Len(gen)
    BY <2>1
  <2>5. Front(gen) \in Seq(Vocabulary)
    BY <2>2, <2>4, FirstOf DEF Front
  <2>6. SubSeq(gen, 1, Len(gen)) = SubSeq(gen, 1, Len(gen) - 1) \o <<gen[Len(gen)]>>
    <3>1. 1 \in 1..Len(gen) /\ Len(gen) \in 1..Len(gen)
      BY <2>1
    <3>2. QED
      BY <2>2, <3>1, SubSeqRecursiveSecond
  <2>7. SubSeq(gen, 1, Len(gen)) = gen
    BY <2>2, SubSeqFull
  <2>8. Front(gen) \o b = gen
    BY <2>6, <2>7 DEF Front, Last
  <2>9. QED
    BY <1>1, <2>2, <2>3, <2>5, <2>8
<1>3. CASE DecodeFails(batch')
  <2>1. kv' \in Seq(Vocabulary) /\ phase' = "failed" /\ last' = last
    BY <1>1, <1>2, <1>3, DecodeFailsTyped
  <2>2. QED
    BY <1>1, <1>2, <2>1, FailsStep DEF GInv, Typed, Unanswered, text
<1>4. CASE Decodes(batch') /\ last' = Append(last, Last(gen)) /\ phase' = "sample"
  <2>1. kv' = kv \o b /\ logits' = kv'
    BY <1>1, <1>2, <1>4 DEF Decodes
  <2>2. kv' = req.prompt \o gen
    <3>1. ASSUME NEW x \in Seq(Vocabulary), NEW y \in Seq(Vocabulary),
                 NEW z \in Seq(Vocabulary)
          PROVE  (x \o y) \o z = x \o (y \o z)
      BY ConcatAssociative
    <3> HIDE DEF b
    <3>2. (req.prompt \o Front(gen)) \o b = req.prompt \o (Front(gen) \o b)
      BY <1>1, <1>2, <3>1, Zenon
    <3>3. kv = req.prompt \o Front(gen) /\ Front(gen) \o b = gen /\ kv' = kv \o b
      BY <1>1, <1>2, <2>1
    <3>4. QED
      BY <3>2, <3>3, Zenon
  <2>3. last' = kv' /\ kv' \in Seq(Vocabulary)
    BY <1>1, <1>2, <1>4, <2>1, AppendIsConcat, ConcatProperties
  <2> HIDE DEF b
  <2>4. Typed'
    BY <1>1, <1>2, <1>4, <2>3 DEF GInv, Typed
  <2>5. Cells' /\ Unstopped' /\ Unanswered' /\ WholeText' /\ StopsAreFound'
    BY <1>1, <1>4, <2>1, <2>2, <2>3
    DEF GInv, Cells, Unstopped, Unanswered, WholeText, StopsAreFound
  <2>6. QED
    BY <2>4, <2>5 DEF GInv
<1>5. QED
  BY <1>3, <1>4 DEF Feed

\* The invariant, in every state.
LEMMA Invariance == Spec => []GInv
<1>1. ASSUME GInv, Next PROVE GInv'
  BY <1>1, RequestStep, RefuseStep, TrimStep, AllocFailsStep, PrefillStep, SampleEndStep,
     SampleStep, FeedStep, CleanUpStep DEF Next
<1>2. ASSUME GInv, UNCHANGED vars PROVE GInv'
  BY <1>2 DEF vars, text, GInv, Typed, Cells, Prefilling, Unstopped, Unanswered, WholeText,
              StopsAreFound
<1>3. QED
  BY <1>1, <1>2, InitInv, PTL DEF Spec

\* Whatever requests came before, ended well or failed, and however much of
\* them a prompt shares: a token is sampled from logits computed over exactly
\* the prompt and what was generated for it (llama.rs, axcl.rs: the prefix is
\* cut one token short, so that there is something to decode), but for the first
\* token of a prompt without any, for which nothing is.
THEOREM OwnTextIsSampled == Spec => []SamplesFromOwnText
<1>1. GInv => SamplesFromOwnText
  BY DEF GInv, Cells, SamplesFromOwnText
<1>2. QED
  BY <1>1, Invariance, PTL

\* Between requests last_tokens says exactly what is in the cells.
THEOREM HistoryIsKept == Spec => []HistoryIsTheCells
<1>1. GInv => HistoryIsTheCells
  BY DEF GInv, Cells, HistoryIsTheCells
<1>2. QED
  BY <1>1, Invariance, PTL

\* The view back of stop_max - 1 bytes misses no stop string, for stop strings
\* of any length and pieces that split characters anywhere.
THEOREM NoStopIsMissed == Spec => []StopsAreFound
<1>1. QED
  BY Invariance, PTL DEF GInv

=============================================================================
