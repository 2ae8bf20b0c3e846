------------------------------- MODULE Headers -------------------------------
(***************************************************************************)
(* Registry with the header reader of Gguf, and what a GGUF header is      *)
(* apart from any reader: the layout of from_reader's comments and of the  *)
(* files llama.cpp writes, whose arrays hold numbers or strings.  a counts *)
(* the fields before the one that is described.                            *)
(***************************************************************************)
EXTENDS Registry, Gguf

\* The end of a value of type t, and whether there is one.
ValueEnd(w, a, t) ==
  CASE t = "u" -> a + 1
    [] t = "s" -> a + 2
    [] t = "a" -> a + 2 + (IF w[a + 1] = "s" THEN 2 * w[a + 2] ELSE w[a + 2])
IsString(w, a) == w[a + 1] \in 0..StringCap
IsValue(w, a, t) ==
  \/ t = "u"
  \/ t = "s" /\ IsString(w, a)
  \/ /\ t = "a" /\ w[a + 1] \in {"u", "s"} /\ w[a + 2] \in Nat
     /\ w[a + 1] = "s" => \A j \in 0..(w[a + 2] - 1) : IsString(w, a + 2 + 2 * j)

\* An array with too many elements is passed over; another is kept as a text.
Unkept(w, a, t) == t = "a" /\ w[a + 2] > Materialize
Meaning(w, a, t) ==
  IF t = "u" THEN w[a + 1] ELSE IF t = "s" THEN w[a + 2] ELSE "joined"

\* A pair is a key, a type and a value.
PairEnd(w, a) == ValueEnd(w, a + 3, w[a + 3])
IsPair(w, a) == IsString(w, a) /\ IsValue(w, a + 3, w[a + 3])
Key(w, a) == w[a + 2]
PassedOver(w, a) == Unkept(w, a + 3, w[a + 3])
Says(w, a) == IF PassedOver(w, a) THEN 0 ELSE Meaning(w, a + 3, w[a + 3])

\* A tensor is a name, up to four dimensions, a type and an offset.
TensorEnd(w, a) == a + 5 + w[a + 3]
IsTensor(w, a) ==
  /\ IsString(w, a)
  /\ w[a + 3] \in 0..4 /\ \A j \in 1..w[a + 3] : w[a + 3 + j] \in Nat
  /\ w[TensorEnd(w, a)] \in Nat

\* Where the pairs end and where the tensors do.
PairEnds(w) ==
  LET b[i \in 0..w[4]] == IF i = 0 THEN 4 ELSE PairEnd(w, b[i - 1]) IN b
TensorEnds(w) ==
  LET c[i \in 0..w[3]] == IF i = 0 THEN PairEnds(w)[w[4]] ELSE TensorEnd(w, c[i - 1])
  IN c

\* What n pairs that end at b say: of each key its last value that is kept, and
\* 0 where none is.
KeysOf(w, b, n) == {Key(w, b[i - 1]) : i \in 1..n}
KeptPairs(w, b, n, k) ==
  {i \in 1..n : Key(w, b[i - 1]) = k /\ ~PassedOver(w, b[i - 1])}
LastOf(S) == CHOOSE i \in S : \A j \in S : j <= i
Metadata(w, b, n) ==
  [k \in KeysOf(w, b, n) |-> LET kept == KeptPairs(w, b, n, k)
                           IN IF kept = {} THEN 0 ELSE Says(w, b[LastOf(kept) - 1])]

\* The first len fields of w are a header that says kv.
IsHeader(w, len, kv) ==
  LET b == PairEnds(w)
      c == TensorEnds(w)
  IN /\ w = [i \in 1..Len(w) |-> w[i]] /\ Len(w) \in Nat /\ Len(w) >= 4
     /\ w[1] = Magic /\ w[2] \in {2, 3} /\ w[3] \in 1..CountCap /\ w[4] \in 0..CountCap
     /\ \A i \in 1..w[4] : IsPair(w, b[i - 1])
     /\ \A i \in 1..w[3] : IsTensor(w, c[i - 1])
     /\ len = c[w[3]] /\ len <= Len(w)
     /\ kv = Metadata(w, b, w[4])

\* The server's files are models: they have tensors, and the fields of a reader
\* are the part of one that has arrived.
ASSUME HeaderAssumption ==
  \A f \in Files :
    /\ IsHeader(Image[f], HeaderLen[f], HeaderKv[f])
    /\ \A k \in DOMAIN Cuts[f] : Cuts[f][k] \in 0..Len(Image[f])
    /\ \A m \in 0..Len(Image[f]) :
         ReadHeader(SubSeq(Image[f], 1, m)) = FromFile(SubSeq(Image[f], 1, m))
=============================================================================
