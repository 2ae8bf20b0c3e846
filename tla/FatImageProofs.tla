--------------------------- MODULE FatImageProofs ---------------------------
(***************************************************************************)
(* Theorems about FatImage, for partitions of any number of clusters and   *)
(* slots, any names and paths, any contents and any number of calls.       *)
(*                                                                         *)
(* A table is described by its runs: run r[h] is the chain that starts at  *)
(* cell h, and no cluster is in two of them (Heap).  A partition is        *)
(* described by its directories: D[d] is the slots of directory d, every   *)
(* entry in them has a run of its own, and every run but two has an entry  *)
(* (Tree, Held, together Tidy).  A call then goes through three layers:    *)
(*   - what alloc_cluster, free_chain and write_chain do to the runs;      *)
(*   - what add_entry and the patches of an entry do to the directories;   *)
(*   - which contents of the clusters a call passes through while the old  *)
(*     table is still on the disk, and that other paths read the same in   *)
(*     all of them (Trail, Spares).                                        *)
(***************************************************************************)
EXTENDS FatImage, FiniteSetTheorems, SequenceTheorems, WellFoundedInduction, TLAPS

-----------------------------------------------------------------------------
(* Numbers, and functions defined by recursion over them.                  *)

\* Every non-empty set of naturals has a least element.
LEMMA LeastNat ==
  ASSUME NEW T \in SUBSET Nat, T # {}
  PROVE  \E x \in T : \A y \in T : x <= y
<1> DEFINE R == OpToRel(<, Nat)
<1>1. \A x, y \in Nat : <<x, y>> \in R <=> x < y
  BY DEF OpToRel
<1>2. \E x \in T : \A y \in T : ~(<<y, x>> \in R)
  <2>1. IsWellFoundedOn(R, Nat)
    BY NatLessThanWellFounded
  <2> HIDE DEF R
  <2>2. QED
    BY <2>1, WFMin
<1>3. PICK x \in T : \A y \in T : ~(<<y, x>> \in R)
  BY <1>2
<1>4. \A y \in T : ~(y < x)
  BY <1>1, <1>3
<1>5. QED
  BY <1>4

\* What holds of 0 and is passed on holds up to n.
LEMMA UpTo ==
  ASSUME NEW n \in Nat, NEW T, 0 \in T, \A i \in 0..(n - 1) : i \in T => i + 1 \in T
  PROVE  \A i \in 0..n : i \in T
<1> DEFINE Bad == {i \in 0..n : i \notin T}
<1>1. SUFFICES ASSUME Bad # {} PROVE FALSE
  OBVIOUS
<1>2. PICK x \in Bad : \A y \in Bad : x <= y
  <2>1. Bad \in SUBSET Nat
    OBVIOUS
  <2> HIDE DEF Bad
  <2>2. QED
    BY <1>1, <2>1, LeastNat
<1>3. x \in 0..n /\ x \notin T /\ x # 0
  BY <1>2
<1>4. x - 1 \in 0..(n - 1)
  BY <1>3
<1>5. x - 1 \in T
  BY <1>2, <1>3, <1>4
<1>6. QED
  BY <1>3, <1>4, <1>5

\* f starts at v and goes on by F.
Recursive(f, n, V, v, F) ==
  f \in [0..n -> V] /\ f[0] = v /\ \A i \in 1..n : f[i] = F[f[i - 1]][i]

\* A function on 0..n can be defined by its first value and a step.
LEMMA RecursionExists ==
  ASSUME NEW n \in Nat, NEW V, NEW v \in V, NEW F \in [V -> [1..n -> V]]
  PROVE  \E f : Recursive(f, n, V, v, F)
<1> DEFINE Good(m, f) == f \in [0..m -> V] /\ f[0] = v /\ \A i \in 1..m : f[i] = F[f[i - 1]][i]
           T == {m \in 0..n : \E f : Good(m, f)}
<1>1. 0 \in T
  <2> DEFINE f == [i \in 0..0 |-> v]
  <2>1. Good(0, f)
    OBVIOUS
  <2> HIDE DEF f
  <2>2. 0 \in 0..n /\ \E g : Good(0, g)
    BY <2>1
  <2>3. QED
    BY <2>2
<1>2. \A m \in 0..(n - 1) : m \in T => m + 1 \in T
  <2> SUFFICES ASSUME NEW m \in 0..(n - 1), m \in T PROVE m + 1 \in T
    OBVIOUS
  <2>1. PICK f : Good(m, f)
    OBVIOUS
  <2> DEFINE g == [i \in 0..(m + 1) |-> IF i = m + 1 THEN F[f[m]][m + 1] ELSE f[i]]
  <2>2. m + 1 \in 1..n /\ m + 1 \in 0..n /\ m \in 0..m /\ f[m] \in V
    BY <2>1
  <2>3. F[f[m]][m + 1] \in V
    BY <2>2
  <2>4. g \in [0..(m + 1) -> V]
    BY <2>1, <2>3
  <2>5. g[0] = v
    BY <2>1
  <2>6. ASSUME NEW i \in 1..(m + 1) PROVE g[i] = F[g[i - 1]][i]
    <3>1. CASE i = m + 1
      BY <3>1
    <3>2. CASE i \in 1..m
      <4>0. i \in 0..(m + 1) /\ i - 1 \in 0..(m + 1) /\ i # m + 1 /\ i - 1 # m + 1
        BY <3>2
      <4>1. g[i] = f[i] /\ g[i - 1] = f[i - 1]
        BY <4>0
      <4> HIDE DEF g
      <4>2. QED
        BY <2>1, <3>2, <4>1
    <3>3. QED
      BY <3>1, <3>2
  <2> HIDE DEF g
  <2>7. Good(m + 1, g)
    BY <2>4, <2>5, <2>6
  <2>8. QED
    BY <2>2, <2>7
<1> HIDE DEF T
<1>3. \A i \in 0..n : i \in T
  BY <1>1, <1>2, UpTo
<1>4. n \in T
  BY <1>3
<1>5. PICK f : Good(n, f)
  BY <1>4 DEF T
<1>6. QED
  BY <1>5 DEF Recursive

-----------------------------------------------------------------------------
(* Chains. *)

\* What the names of cells and marks are.
LEMMA CellFacts ==
  /\ Clusters \subseteq Cells /\ 0 \in Cells /\ Root \in Clusters /\ 0 \notin Clusters
  /\ Eoc \notin Cells /\ Eoc # Free /\ Free \notin Clusters
  /\ \A c \in Cells : c \in Nat /\ c <= MaxCluster
  /\ \A c \in Cells : c # 0 => c \in Clusters
  /\ MaxCluster \in Nat \ {0}
  BY GeometryAssumption DEF Cells, Clusters, Root, Free, Eoc

\* A sequence of different clusters is no longer than the table.
LEMMA RunIsShort ==
  ASSUME NEW s \in Seq(Clusters),
         \A i, j \in 1..Len(s) : s[i] = s[j] => i = j
  PROVE  Len(s) <= MaxCluster
<1>1. IsFiniteSet(Clusters) /\ Cardinality(Clusters) = MaxCluster - 1
  <2>1. IsFiniteSet(2..MaxCluster)
         /\ Cardinality(2..MaxCluster) = IF 2 > MaxCluster THEN 0 ELSE MaxCluster - 2 + 1
    BY FS_Interval, GeometryAssumption
  <2>2. QED
    BY <2>1, GeometryAssumption DEF Clusters
<1>2. Len(s) \in Nat
  BY LenProperties
<1>3. s \in Injection(1..Len(s), Clusters)
  BY LenProperties DEF Injection, IsInjective
<1>4. IsFiniteSet(1..Len(s)) /\ Cardinality(1..Len(s)) = IF 1 > Len(s) THEN 0 ELSE Len(s) - 1 + 1
  BY <1>2, FS_Interval
<1>5. Cardinality(1..Len(s)) <= Cardinality(Clusters)
  <2> DEFINE S == 1..Len(s)
  <2>1. IsFiniteSet(S) /\ s \in Injection(S, Clusters)
    BY <1>3, <1>4
  <2> HIDE DEF S
  <2>2. Cardinality(S) <= Cardinality(Clusters)
    BY <1>1, <2>1, FS_Injection
  <2>3. QED
    BY <2>2 DEF S
<1>6. MaxCluster \in Nat
  BY CellFacts
<1>7. QED
  BY <1>1, <1>2, <1>4, <1>5, <1>6

\* Following the table from the first cell of a run visits the run.
LEMMA ChainIs ==
  ASSUME NEW fat \in Fats, NEW s \in Seq(Clusters), Len(s) > 0, Len(s) <= MaxCluster,
         \A i \in 1..(Len(s) - 1) : fat[s[i]] = s[i + 1],
         fat[s[Len(s)]] \notin Clusters
  PROVE  Chain(fat, s[1]) = s
<1> DEFINE n == Len(s)
           M == MaxCluster
           Step(q) == IF fat[q[Len(q)]] \in Clusters THEN Append(q, fat[q[Len(q)]]) ELSE q
           V == [k \in 1..M |-> IF k <= n THEN SubSeq(s, 1, k) ELSE s]
           Is(w) == w = [k \in 1..M |->
                          IF k = 1 THEN <<s[1]>>
                          ELSE LET q == w[k - 1] IN
                               IF fat[q[Len(q)]] \in Clusters
                               THEN Append(q, fat[q[Len(q)]]) ELSE q]
<1>1. /\ n \in Nat \ {0} /\ M \in Nat \ {0} /\ n <= M /\ s \in [1..n -> Clusters]
      /\ s[1] \in Clusters
  BY LenProperties, CellFacts
<1>2. ASSUME NEW k \in 1..n
      PROVE  /\ V[k] = [i \in 1..k |-> s[i]] /\ Len(V[k]) = k /\ V[k] \in Seq(Clusters)
  <2>1. SubSeq(s, 1, k) = [i \in 1..k |-> s[i]] /\ Len(SubSeq(s, 1, k)) = k
        /\ SubSeq(s, 1, k) \in Seq(Clusters)
    BY <1>1, SubSeqProperties
  <2>2. V[k] = SubSeq(s, 1, k)
    <3>1. k \in 1..M /\ k <= n
      BY <1>1
    <3>2. QED
      BY <3>1
  <2>3. QED
    BY <2>1, <2>2
<1>3. \A k \in n..M : V[k] = s
  <2>1. V[n] = s
    <3>1. V[n] = [i \in 1..n |-> s[i]]
      BY <1>1, <1>2
    <3> HIDE DEF V
    <3>2. QED
      BY <1>1, <3>1
  <2>2. \A k \in (n + 1)..M : V[k] = s
    BY <1>1
  <2> HIDE DEF V, n, M
  <2>3. QED
    BY <1>1, <2>1, <2>2
<1> HIDE DEF V
<1>4. V[1] = <<s[1]>>
  <2>1. 1 \in 1..n
    BY <1>1
  <2>2. V[1] = [i \in 1..1 |-> s[i]]
    BY <1>2, <2>1
  <2>3. QED
    BY <2>2
<1>5. ASSUME NEW k \in 2..M PROVE V[k] = Step(V[k - 1])
  <2>1. CASE k <= n
    <3>1. k - 1 \in 1..(n - 1) /\ k - 1 \in 1..n /\ k \in 1..n
      BY <1>1, <2>1
    <3>2. Len(V[k - 1]) = k - 1 /\ V[k - 1][k - 1] = s[k - 1] /\ V[k - 1] \in Seq(Clusters)
      <4>1. /\ V[k - 1] = [i \in 1..(k - 1) |-> s[i]]
            /\ Len(V[k - 1]) = k - 1 /\ V[k - 1] \in Seq(Clusters)
        BY <1>2, <3>1
      <4>2. k - 1 \in 1..(k - 1)
        BY <3>1
      <4>3. V[k - 1][k - 1] = s[k - 1]
        BY <4>1, <4>2
      <4>4. QED
        BY <4>1, <4>3
    <3>3. (k - 1) + 1 = k /\ fat[s[k - 1]] = s[(k - 1) + 1] /\ s[k] \in Clusters
      BY <1>1, <3>1
    <3>4. Step(V[k - 1]) = Append(V[k - 1], s[k])
      BY <3>2, <3>3
    <3>5. Append(V[k - 1], s[k]) = [i \in 1..k |-> IF i <= k - 1 THEN V[k - 1][i] ELSE s[k]]
      <4>1. Append(V[k - 1], s[k])
              = [i \in 1..(Len(V[k - 1]) + 1) |-> IF i <= Len(V[k - 1]) THEN V[k - 1][i] ELSE s[k]]
        BY <3>2, <3>3
      <4>2. QED
        BY <3>1, <3>2, <3>3, <4>1
    <3>6. \A i \in 1..k : (IF i <= k - 1 THEN V[k - 1][i] ELSE s[k]) = s[i]
      <4>1. \A i \in 1..(k - 1) : V[k - 1][i] = s[i]
        BY <1>2, <3>1
      <4>2. QED
        BY <3>1, <4>1
    <3>7. V[k] = [i \in 1..k |-> s[i]]
      BY <1>2, <3>1
    <3> HIDE DEF Step
    <3>8. QED
      BY <3>4, <3>5, <3>6, <3>7
  <2>2. CASE k > n
    <3>1. k - 1 \in n..M /\ k \in n..M
      BY <1>1, <2>2
    <3>2. V[k] = s /\ V[k - 1] = s
      BY <1>3, <3>1
    <3>3. QED
      BY <3>2
  <2>3. QED
    BY <1>1, <2>1, <2>2
<1>6. Is(V)
  <2>1. V = [k \in 1..M |-> V[k]]
    BY DEF V
  <2>2. ASSUME NEW k \in 1..M
        PROVE  V[k] = IF k = 1 THEN <<s[1]>> ELSE Step(V[k - 1])
    <3>1. CASE k = 1
      BY <1>4, <3>1
    <3>2. CASE k # 1
      <4>1. k \in 2..M
        BY <1>1, <3>2
      <4> HIDE DEF Step
      <4>2. QED
        BY <1>5, <3>2, <4>1
    <3>3. QED
      BY <3>1, <3>2
  <2>3. QED
    BY <2>1, <2>2
<1> DEFINE walk == CHOOSE w : Is(w)
<1>7. Is(walk)
  <2> HIDE DEF Is
  <2>1. QED
    BY <1>6
<1>8. Chain(fat, s[1]) = walk[M]
  BY <1>1 DEF Chain
<1> HIDE DEF walk
<1>9. walk[1] = <<s[1]>> /\ \A k \in 2..M : walk[k] = Step(walk[k - 1])
  <2>1. \A k \in 1..M : walk[k] = IF k = 1 THEN <<s[1]>> ELSE Step(walk[k - 1])
    BY <1>7
  <2> HIDE DEF Step, Is
  <2>2. QED
    BY <1>1, <2>1
<1> HIDE DEF Step, Is
<1> DEFINE T == {k \in 0..M : k = 0 \/ walk[k] = V[k]}
<1>10. 0 \in T
  BY <1>1
<1>11. \A k \in 0..(M - 1) : k \in T => k + 1 \in T
  <2> SUFFICES ASSUME NEW k \in 0..(M - 1), k \in T PROVE k + 1 \in T
    OBVIOUS
  <2>1. CASE k = 0
    BY <1>1, <1>4, <1>9, <2>1
  <2>2. CASE k # 0
    <3>1. walk[k] = V[k] /\ k + 1 \in 2..M /\ (k + 1) - 1 = k /\ k + 1 \in 0..M
      BY <1>1, <2>2
    <3>2. walk[k + 1] = Step(walk[k]) /\ V[k + 1] = Step(V[k])
      BY <1>5, <1>9, <3>1
    <3>3. QED
      BY <3>1, <3>2
  <2>3. QED
    BY <2>1, <2>2
<1> HIDE DEF T
<1>12. M \in T
  <2>1. M \in Nat /\ M \in 0..M
    BY <1>1
  <2> HIDE DEF M
  <2>2. \A k \in 0..M : k \in T
    BY <1>10, <1>11, <2>1, UpTo
  <2>3. QED
    BY <2>1, <2>2
<1>13. walk[M] = V[M]
  BY <1>1, <1>12 DEF T
<1>14. QED
  BY <1>1, <1>3, <1>8, <1>13

(* The table as a set of runs. *)

Heap(fat, r) ==
  /\ fat \in Fats
  /\ r = [h \in DOMAIN r |-> r[h]] /\ DOMAIN r \subseteq Cells /\ {0, Root} \subseteq DOMAIN r
  /\ \A h \in DOMAIN r : r[h] \in Seq(Cells)
  /\ Runs(fat, r)

\* The cells of a run are linked, its first is its name, all others are
\* clusters, and no cell is in two places.
LEMMA HeapFacts ==
  ASSUME NEW fat, NEW r, Heap(fat, r)
  PROVE  /\ fat \in Fats /\ DOMAIN r \subseteq Cells /\ 0 \in DOMAIN r /\ Root \in DOMAIN r
         /\ \A h \in DOMAIN r :
              /\ r[h] \in Seq(Cells) /\ Len(r[h]) \in Nat \ {0} /\ r[h] \in [1..Len(r[h]) -> Cells]
              /\ r[h][1] = h
              /\ \A i \in 1..(Len(r[h]) - 1) : fat[r[h][i]] = r[h][i + 1]
              /\ fat[r[h][Len(r[h])]] = Eoc
              /\ \A i \in 2..Len(r[h]) : r[h][i] \in Clusters
         /\ \A h \in DOMAIN r : h # 0 => \A i \in 1..Len(r[h]) : r[h][i] \in Clusters
         /\ \A g, h \in DOMAIN r : \A i \in 1..Len(r[g]), j \in 1..Len(r[h]) :
              r[g][i] = r[h][j] => g = h /\ i = j
<1>1. /\ fat \in Fats /\ DOMAIN r \subseteq Cells /\ 0 \in DOMAIN r /\ Root \in DOMAIN r
      /\ \A g, h \in DOMAIN r : \A i \in 1..Len(r[g]), j \in 1..Len(r[h]) :
              r[g][i] = r[h][j] => g = h /\ i = j
  BY DEF Heap, Runs
<1>2. ASSUME NEW h \in DOMAIN r
      PROVE  /\ r[h] \in Seq(Cells) /\ Len(r[h]) \in Nat \ {0} /\ r[h] \in [1..Len(r[h]) -> Cells]
             /\ r[h][1] = h
             /\ \A i \in 1..(Len(r[h]) - 1) : fat[r[h][i]] = r[h][i + 1]
             /\ fat[r[h][Len(r[h])]] = Eoc
  <2>1. r[h] \in Seq(Cells) /\ r[h] # <<>> /\ r[h][1] = h
        /\ \A i \in 1..Len(r[h]) : fat[r[h][i]] = IF i < Len(r[h]) THEN r[h][i + 1] ELSE Eoc
    BY DEF Heap, Runs
  <2> DEFINE s == r[h]
  <2> HIDE DEF s
  <2>2. s \in Seq(Cells) /\ s # <<>> /\ s[1] = h
        /\ \A i \in 1..Len(s) : fat[s[i]] = IF i < Len(s) THEN s[i + 1] ELSE Eoc
    BY <2>1 DEF s
  <2>3. Len(s) \in Nat \ {0} /\ s \in [1..Len(s) -> Cells]
    BY <2>2, EmptySeq, LenProperties
  <2>4. \A i \in 1..(Len(s) - 1) : fat[s[i]] = s[i + 1]
    BY <2>2, <2>3
  <2>5. fat[s[Len(s)]] = Eoc
    BY <2>2, <2>3
  <2>6. QED
    BY <2>2, <2>3, <2>4, <2>5 DEF s
<1>3. ASSUME NEW h \in DOMAIN r, NEW i \in 1..Len(r[h]), r[h][i] = 0 PROVE h = 0 /\ i = 1
  <2>1. 1 \in 1..Len(r[0]) /\ r[0][1] = 0
    BY <1>1, <1>2
  <2>2. QED
    BY <1>1, <1>3, <2>1
<1>4. ASSUME NEW h \in DOMAIN r, NEW i \in 1..Len(r[h]), h # 0 \/ i # 1
      PROVE  r[h][i] \in Clusters
  <2>1. r[h][i] \in Cells /\ r[h][i] # 0
    BY <1>2, <1>3, <1>4
  <2>2. QED
    BY <2>1, CellFacts
<1>5. \A h \in DOMAIN r : \A i \in 2..Len(r[h]) : r[h][i] \in Clusters
  <2>1. \A h \in DOMAIN r : Len(r[h]) \in Nat
    BY <1>2
  <2>2. \A h \in DOMAIN r : \A i \in 2..Len(r[h]) : i \in 1..Len(r[h]) /\ i # 1
    BY <2>1
  <2>3. QED
    BY <1>4, <2>2
<1>6. QED
  BY <1>1, <1>2, <1>4, <1>5

\* The cells a to b of a sequence.
LEMMA PartIs ==
  ASSUME NEW S, NEW s \in Seq(S), NEW a \in 1..(Len(s) + 1), NEW b \in (a - 1)..Len(s)
  PROVE  /\ SubSeq(s, a, b) \in Seq(S) /\ Len(SubSeq(s, a, b)) = b - a + 1
         /\ \A i \in 1..(b - a + 1) : SubSeq(s, a, b)[i] = s[a + i - 1]
<1>1. Len(s) \in Nat /\ s \in [1..Len(s) -> S]
  BY LenProperties
<1>2. a \in Int /\ b \in Int /\ \A i \in a..b : i \in 1..Len(s)
  BY <1>1
<1>3. \A i \in a..b : s[i] \in S
  BY <1>1, <1>2
<1>4. QED
  BY <1>1, <1>2, <1>3, SubSeqProperties

\* From a cluster of a run the chain is the rest of the run.
LEMMA HeapRest ==
  ASSUME NEW fat, NEW r, Heap(fat, r), NEW h \in DOMAIN r, NEW k \in 1..Len(r[h]),
         r[h][k] \in Clusters
  PROVE  Chain(fat, r[h][k]) = SubSeq(r[h], k, Len(r[h]))
<1> DEFINE u == r[h]
           n == Len(u)
           s == SubSeq(u, k, n)
<1>1. /\ fat \in Fats /\ n \in Nat \ {0} /\ u \in Seq(Cells) /\ u \in [1..n -> Cells]
      /\ \A i \in 1..(n - 1) : fat[u[i]] = u[i + 1]
      /\ fat[u[n]] = Eoc
      /\ \A i \in 2..n : u[i] \in Clusters
      /\ \A i, j \in 1..n : u[i] = u[j] => i = j
  BY HeapFacts
<1>2. u[k] \in Clusters /\ k \in 1..n
  OBVIOUS
<1> HIDE DEF u
<1>3. s \in Seq(Cells) /\ Len(s) = n - k + 1
      /\ \A i \in 1..(n - k + 1) : s[i] = u[k + i - 1]
  <2>1. k \in 1..(Len(u) + 1) /\ n \in (k - 1)..Len(u)
    BY <1>1, <1>2
  <2> HIDE DEF n
  <2>2. QED
    BY <1>1, <2>1, PartIs
<1> HIDE DEF n
<1>4. \A i \in 1..(n - k + 1) : s[i] = u[k + i - 1] /\ k + i - 1 \in 1..n
  BY <1>1, <1>2, <1>3
<1>5. \A i \in 1..(n - k + 1) : s[i] \in Clusters
  BY <1>1, <1>2, <1>4
<1>6. s \in Seq(Clusters)
  <2> HIDE DEF s
  <2>1. n - k + 1 \in Nat
    BY <1>1, <1>2
  <2>2. s = [i \in 1..(n - k + 1) |-> s[i]]
    BY <1>3, LenProperties
  <2>3. [i \in 1..(n - k + 1) |-> s[i]] \in Seq(Clusters)
    BY <1>5, <2>1, IsASeq
  <2>4. QED
    BY <2>2, <2>3
<1> HIDE DEF s
<1>7. \A i, j \in 1..Len(s) : s[i] = s[j] => i = j
  BY <1>1, <1>2, <1>3, <1>4
<1>8. Len(s) <= MaxCluster /\ Len(s) > 0
  <2>1. Len(s) > 0
    BY <1>1, <1>2, <1>3
  <2>2. QED
    BY <1>6, <1>7, <2>1, RunIsShort
<1>9. \A i \in 1..(Len(s) - 1) : fat[s[i]] = s[i + 1]
  <2>1. ASSUME NEW i \in 1..(n - k) PROVE fat[s[i]] = s[i + 1]
    <3>1. k + i - 1 \in 1..(n - 1) /\ k + (i + 1) - 1 = (k + i - 1) + 1
          /\ i \in 1..(n - k + 1) /\ i + 1 \in 1..(n - k + 1)
      BY <1>1, <1>2
    <3>2. QED
      BY <1>1, <1>4, <3>1
  <2>2. Len(s) - 1 = n - k
    BY <1>1, <1>2, <1>3
  <2>3. QED
    BY <2>1, <2>2
<1>10. fat[s[Len(s)]] \notin Clusters
  <2>1. Len(s) \in 1..(n - k + 1) /\ k + Len(s) - 1 = n
    BY <1>1, <1>2, <1>3
  <2>2. s[Len(s)] = u[n]
    BY <1>4, <2>1
  <2>3. QED
    BY <1>1, <2>2, CellFacts
<1>11. s[1] = u[k]
  BY <1>1, <1>2, <1>4
<1>12. Chain(fat, s[1]) = s
  BY <1>1, <1>6, <1>8, <1>9, <1>10, ChainIs
<1>13. QED
  BY <1>11, <1>12 DEF s, n, u

\* The chain at the name of a run is the run; the one that hangs off cell 0 is
\* what follows it.
LEMMA HeapChain ==
  ASSUME NEW fat, NEW r, Heap(fat, r), NEW h \in DOMAIN r, h # 0
  PROVE  Chain(fat, h) = r[h] /\ r[h] \in Seq(Clusters)
<1>1. r[h][1] = h /\ 1 \in 1..Len(r[h]) /\ r[h] \in Seq(Cells) /\ h \in Clusters
      /\ Len(r[h]) \in Nat /\ r[h] \in [1..Len(r[h]) -> Cells]
      /\ \A i \in 1..Len(r[h]) : r[h][i] \in Clusters
  BY HeapFacts
<1>2. Chain(fat, h) = SubSeq(r[h], 1, Len(r[h]))
  BY <1>1, HeapRest
<1>3. r[h] \in [1..Len(r[h]) -> Clusters]
  BY <1>1
<1>4. r[h] \in Seq(Clusters)
  <2> DEFINE s == r[h]
  <2>1. s = [i \in 1..Len(s) |-> s[i]] /\ Len(s) \in Nat /\ \A i \in 1..Len(s) : s[i] \in Clusters
    BY <1>1
  <2> HIDE DEF s
  <2>2. [i \in 1..Len(s) |-> s[i]] \in Seq(Clusters)
    BY <2>1, IsASeq
  <2>3. QED
    BY <2>1, <2>2 DEF s
<1>5. SubSeq(r[h], 1, Len(r[h])) = r[h]
  BY <1>4, SubSeqFull
<1>6. QED
  BY <1>2, <1>4, <1>5

\* There is no chain at 0 or at a mark.
LEMMA NoChain ==
  ASSUME NEW fat, NEW c, c \notin Clusters
  PROVE  Chain(fat, c) = <<>>
  BY DEF Chain

\* A free cluster is in no run, and only those.
LEMMA HeapFree ==
  ASSUME NEW fat, NEW r, Heap(fat, r), NEW c \in Clusters
  PROVE  fat[c] = Free <=> \A h \in DOMAIN r : \A i \in 1..Len(r[h]) : r[h][i] # c
<1>1. ASSUME fat[c] # Free PROVE \E h \in DOMAIN r : \E i \in 1..Len(r[h]) : r[h][i] = c
  BY <1>1 DEF Heap, Runs
<1>2. ASSUME NEW h \in DOMAIN r, NEW i \in 1..Len(r[h]), r[h][i] = c PROVE fat[c] # Free
  <2>1. CASE i < Len(r[h])
    <3>1. Len(r[h]) \in Nat /\ i \in 1..(Len(r[h]) - 1) /\ i + 1 \in 2..Len(r[h])
      BY <2>1, HeapFacts
    <3>2. fat[c] = r[h][i + 1] /\ r[h][i + 1] \in Clusters
      BY <1>2, <3>1, HeapFacts
    <3>3. QED
      BY <3>2, CellFacts
  <2>2. CASE i = Len(r[h])
    BY <1>2, <2>2, HeapFacts, CellFacts
  <2>3. QED
    <3>1. Len(r[h]) \in Nat
      BY HeapFacts
    <3>2. QED
      BY <2>1, <2>2, <3>1
<1>3. QED
  BY <1>1, <1>2

\* The three parts of Runs, as the steps below have them.
Linked(fat, r) ==
  \A h \in DOMAIN r :
    /\ r[h] \in Seq(Cells) /\ Len(r[h]) \in Nat \ {0} /\ r[h][1] = h
    /\ \A i \in 1..(Len(r[h]) - 1) : fat[r[h][i]] = r[h][i + 1]
    /\ fat[r[h][Len(r[h])]] = Eoc
Apart(r) ==
  \A g, h \in DOMAIN r : \A i \in 1..Len(r[g]), j \in 1..Len(r[h]) :
    r[g][i] = r[h][j] => g = h /\ i = j
Covers(fat, r) ==
  \A c \in Clusters : fat[c] # Free =>
    \E h \in DOMAIN r : \E i \in 1..Len(r[h]) : r[h][i] = c

\* Chains that are linked, apart and cover what is allocated make a heap.
LEMMA HeapMade ==
  ASSUME NEW fat \in Fats, NEW r, r = [h \in DOMAIN r |-> r[h]],
         DOMAIN r \subseteq Cells, 0 \in DOMAIN r, Root \in DOMAIN r,
         Linked(fat, r), Apart(r), Covers(fat, r)
  PROVE  Heap(fat, r)
<1>0. /\ \A h \in DOMAIN r :
           /\ r[h] \in Seq(Cells) /\ Len(r[h]) \in Nat \ {0} /\ r[h][1] = h
           /\ \A i \in 1..(Len(r[h]) - 1) : fat[r[h][i]] = r[h][i + 1]
           /\ fat[r[h][Len(r[h])]] = Eoc
      /\ \A g, h \in DOMAIN r : \A i \in 1..Len(r[g]), j \in 1..Len(r[h]) :
           r[g][i] = r[h][j] => g = h /\ i = j
      /\ \A c \in Clusters : fat[c] # Free =>
           \E h \in DOMAIN r : \E i \in 1..Len(r[h]) : r[h][i] = c
  BY DEF Linked, Apart, Covers
<1>1. ASSUME NEW h \in DOMAIN r, NEW i \in 1..Len(r[h])
      PROVE  r[h] # <<>> /\ fat[r[h][i]] = IF i < Len(r[h]) THEN r[h][i + 1] ELSE Eoc
  <2> DEFINE s == r[h]
  <2>1. s \in Seq(Cells) /\ Len(s) \in Nat \ {0} /\ fat[s[Len(s)]] = Eoc
        /\ (\A k \in 1..(Len(s) - 1) : fat[s[k]] = s[k + 1]) /\ i \in 1..Len(s)
    BY <1>0
  <2> HIDE DEF s
  <2>2. s # <<>>
    BY <2>1, EmptySeq
  <2>3. fat[s[i]] = IF i < Len(s) THEN s[i + 1] ELSE Eoc
    <3>1. CASE i < Len(s)
      <4>1. i \in 1..(Len(s) - 1)
        BY <2>1, <3>1
      <4>2. QED
        BY <2>1, <3>1, <4>1
    <3>2. CASE ~(i < Len(s))
      <4>1. i = Len(s)
        BY <2>1, <3>2
      <4>2. QED
        BY <2>1, <3>2, <4>1
    <3>3. QED
      BY <3>1, <3>2
  <2>4. QED
    BY <2>2, <2>3 DEF s
<1>2. \A h \in DOMAIN r : r[h] # <<>>
  BY <1>0, EmptySeq
<1>3. Runs(fat, r)
  BY <1>0, <1>1, <1>2 DEF Runs
<1>4. QED
  BY <1>0, <1>3 DEF Heap

\* A free cluster is not the name of a run.
LEMMA FreshName ==
  ASSUME NEW fat, NEW r, Heap(fat, r), NEW c \in Clusters, fat[c] = Free
  PROVE  c \notin DOMAIN r
<1>1. \A h \in DOMAIN r : \A i \in 1..Len(r[h]) : r[h][i] # c
  BY HeapFree
<1>2. \A h \in DOMAIN r : 1 \in 1..Len(r[h]) /\ r[h][1] = h
  BY HeapFacts
<1>3. QED
  BY <1>1, <1>2

\* A free cluster becomes a run of its own.
LEMMA HeapAlloc ==
  ASSUME NEW fat, NEW r, Heap(fat, r), NEW c \in Clusters, fat[c] = Free
  PROVE  Heap([fat EXCEPT ![c] = Eoc],
              [x \in DOMAIN r \cup {c} |-> IF x = c THEN <<c>> ELSE r[x]])
<1> DEFINE f == [fat EXCEPT ![c] = Eoc]
           q == [x \in DOMAIN r \cup {c} |-> IF x = c THEN <<c>> ELSE r[x]]
<1>1. c \notin DOMAIN r /\ \A h \in DOMAIN r : \A i \in 1..Len(r[h]) : r[h][i] # c
  BY FreshName, HeapFree
<1>2. c \in Cells /\ fat \in Fats
  BY CellFacts, HeapFacts
<1>3. f \in Fats /\ f[c] = Eoc /\ \A x \in Cells : x # c => f[x] = fat[x]
  BY <1>2 DEF Fats
<1>4. DOMAIN q = DOMAIN r \cup {c} /\ q[c] = <<c>> /\ (\A h \in DOMAIN r : q[h] = r[h])
      /\ q = [x \in DOMAIN q |-> q[x]]
  BY <1>1
<1>5. <<c>> \in Seq(Cells) /\ Len(<<c>>) = 1 /\ <<c>>[1] = c
  BY <1>2
<1> HIDE DEF f, q
<1>6. DOMAIN q \subseteq Cells /\ 0 \in DOMAIN q /\ Root \in DOMAIN q
  BY <1>2, <1>4, HeapFacts
<1>7. ASSUME NEW h \in DOMAIN q
      PROVE  /\ q[h] \in Seq(Cells) /\ Len(q[h]) \in Nat \ {0} /\ q[h][1] = h
             /\ \A i \in 1..(Len(q[h]) - 1) : f[q[h][i]] = q[h][i + 1]
             /\ f[q[h][Len(q[h])]] = Eoc
  <2>1. CASE h = c
    BY <1>3, <1>4, <1>5, <2>1
  <2>2. CASE h \in DOMAIN r
    <3>1. /\ r[h] \in Seq(Cells) /\ Len(r[h]) \in Nat \ {0} /\ r[h] \in [1..Len(r[h]) -> Cells]
          /\ r[h][1] = h
          /\ \A i \in 1..(Len(r[h]) - 1) : fat[r[h][i]] = r[h][i + 1]
          /\ fat[r[h][Len(r[h])]] = Eoc
      BY <2>2, HeapFacts
    <3>2. \A i \in 1..Len(r[h]) : f[r[h][i]] = fat[r[h][i]]
      BY <1>1, <1>3, <2>2, <3>1
    <3>3. \A i \in 1..(Len(r[h]) - 1) : i \in 1..Len(r[h])
      BY <3>1
    <3>4. QED
      BY <1>4, <2>2, <3>1, <3>2, <3>3
  <2>3. QED
    BY <1>4, <2>1, <2>2
<1>8. ASSUME NEW g \in DOMAIN q, NEW h \in DOMAIN q,
             NEW i \in 1..Len(q[g]), NEW j \in 1..Len(q[h]), q[g][i] = q[h][j]
      PROVE  g = h /\ i = j
  <2>1. CASE g \in DOMAIN r /\ h \in DOMAIN r
    BY <1>4, <1>8, <2>1, HeapFacts
  <2>2. CASE g = c /\ h = c
    <3>1. Len(q[g]) = 1 /\ Len(q[h]) = 1
      BY <1>4, <1>5, <2>2
    <3>2. i = 1 /\ j = 1
      BY <3>1
    <3>3. QED
      BY <2>2, <3>2
  <2>3. CASE g = c /\ h \in DOMAIN r
    BY <1>1, <1>4, <1>5, <1>8, <2>3
  <2>4. CASE g \in DOMAIN r /\ h = c
    BY <1>1, <1>4, <1>5, <1>8, <2>4
  <2>5. QED
    BY <1>4, <2>1, <2>2, <2>3, <2>4
<1>9. ASSUME NEW d \in Clusters, f[d] # Free
      PROVE  \E h \in DOMAIN q : \E i \in 1..Len(q[h]) : q[h][i] = d
  <2>1. CASE d = c
    BY <1>4, <1>5, <2>1
  <2>2. CASE d # c
    <3>1. fat[d] # Free
      BY <1>3, <1>9, <2>2, CellFacts
    <3>2. PICK h \in DOMAIN r : \E i \in 1..Len(r[h]) : r[h][i] = d
      BY <3>1, HeapFree
    <3>3. QED
      BY <1>4, <3>2
  <2>3. QED
    BY <2>1, <2>2
<1>10. Heap(f, q)
  <2>1. Linked(f, q)
    BY <1>7 DEF Linked
  <2>2. Apart(q)
    BY <1>8 DEF Apart
  <2>3. Covers(f, q)
    BY <1>9 DEF Covers
  <2>4. QED
    BY <1>3, <1>4, <1>6, <2>1, <2>2, <2>3, HeapMade
<1>11. QED
  BY <1>10 DEF f, q

\* A free cluster is linked to the end of a run.
LEMMA HeapLink ==
  ASSUME NEW fat, NEW r, Heap(fat, r), NEW c \in Clusters, fat[c] = Free, NEW h \in DOMAIN r
  PROVE  Heap([fat EXCEPT ![c] = Eoc, ![r[h][Len(r[h])]] = c],
              [r EXCEPT ![h] = Append(@, c)])
<1> DEFINE n == Len(r[h])
           z == r[h][n]
           f == [fat EXCEPT ![c] = Eoc, ![z] = c]
           t == Append(r[h], c)
           q == [r EXCEPT ![h] = t]
<1>1. \A g \in DOMAIN r : \A i \in 1..Len(r[g]) : r[g][i] # c
  BY HeapFree
<1>2. c \in Cells /\ fat \in Fats /\ n \in Nat \ {0} /\ r[h] \in Seq(Cells) /\ z \in Cells /\ z # c
  BY <1>1, CellFacts, HeapFacts
<1>3. f \in Fats /\ f[c] = Eoc /\ f[z] = c /\ \A x \in Cells : x # c /\ x # z => f[x] = fat[x]
  BY <1>2 DEF Fats
<1>4. DOMAIN q = DOMAIN r /\ q[h] = t /\ (\A g \in DOMAIN r : g # h => q[g] = r[g])
      /\ q = [x \in DOMAIN q |-> q[x]]
  OBVIOUS
<1>5. /\ t \in Seq(Cells) /\ Len(t) = n + 1 /\ t[n + 1] = c
      /\ \A i \in 1..n : t[i] = r[h][i]
  BY <1>2, AppendProperties
<1> HIDE DEF f, q, t
<1>6. ASSUME NEW g \in DOMAIN r, NEW i \in 1..Len(r[g]), r[g][i] = z PROVE g = h /\ i = n
  BY <1>2, <1>6, HeapFacts
<1>7. ASSUME NEW g \in DOMAIN r
      PROVE  /\ q[g] \in Seq(Cells) /\ Len(q[g]) \in Nat \ {0} /\ q[g][1] = g
             /\ \A i \in 1..(Len(q[g]) - 1) : f[q[g][i]] = q[g][i + 1]
             /\ f[q[g][Len(q[g])]] = Eoc
  <2>1. /\ r[g] \in Seq(Cells) /\ Len(r[g]) \in Nat \ {0} /\ r[g] \in [1..Len(r[g]) -> Cells]
        /\ r[g][1] = g
        /\ \A i \in 1..(Len(r[g]) - 1) : fat[r[g][i]] = r[g][i + 1]
        /\ fat[r[g][Len(r[g])]] = Eoc
    BY HeapFacts
  <2>2. \A i \in 1..Len(r[g]) : r[g][i] # z => f[r[g][i]] = fat[r[g][i]]
    BY <1>1, <1>3, <2>1
  <2>3. \A i \in 1..(Len(r[g]) - 1) : i \in 1..Len(r[g]) /\ i # Len(r[g])
    <3>1. Len(r[g]) \in Nat
      BY <2>1
    <3>2. QED
      BY <3>1
  <2>4. CASE g = h
    <3>1. \A i \in 1..n : i = n \/ i \in 1..(n - 1)
      BY <1>2
    <3>2. \A i \in 1..(n - 1) : f[t[i]] = t[i + 1]
      <4>1. \A i \in 1..(n - 1) : i \in 1..n /\ i # n /\ i + 1 \in 1..n
        BY <1>2
      <4> HIDE DEF z, n
      <4>2. SUFFICES ASSUME NEW i \in 1..(n - 1) PROVE f[t[i]] = t[i + 1]
        OBVIOUS
      <4>3. r[h][i] # z /\ fat[r[h][i]] = r[h][i + 1] /\ i \in 1..n /\ i + 1 \in 1..n
        BY <1>6, <2>1, <2>4, <4>1 DEF n
      <4>4. f[r[h][i]] = fat[r[h][i]]
        BY <2>2, <2>4, <4>3 DEF n
      <4>5. QED
        BY <1>5, <4>3, <4>4
    <3>3. f[t[n]] = t[n + 1]
      BY <1>2, <1>3, <1>5
    <3>4. f[t[n + 1]] = Eoc /\ t[1] = h
      BY <1>2, <1>3, <1>5, <2>1, <2>4
    <3> HIDE DEF n, z
    <3>5. \A i \in 1..((n + 1) - 1) : f[t[i]] = t[i + 1]
      BY <1>2, <3>1, <3>2, <3>3
    <3>6. QED
      BY <1>2, <1>4, <1>5, <2>4, <3>4, <3>5
  <2>5. CASE g # h
    <3>1. \A i \in 1..Len(r[g]) : r[g][i] # z
      BY <1>6, <2>5
    <3>2. Len(r[g]) \in 1..Len(r[g])
      BY <2>1
    <3> HIDE DEF n, z
    <3>3. QED
      BY <1>4, <2>1, <2>2, <2>3, <2>5, <3>1, <3>2
  <2>6. QED
    BY <2>4, <2>5
<1>8. ASSUME NEW g \in DOMAIN r, NEW i \in 1..Len(q[g])
      PROVE  \/ i \in 1..Len(r[g]) /\ q[g][i] = r[g][i]
             \/ g = h /\ i = n + 1 /\ q[g][i] = c
  <2>1. CASE g = h
    <3>1. i \in 1..(n + 1)
      BY <1>4, <1>5, <2>1
    <3>2. i \in 1..n \/ i = n + 1
      BY <1>2, <3>1
    <3>3. QED
      BY <1>4, <1>5, <2>1, <3>2
  <2>2. CASE g # h
    BY <1>4, <2>2
  <2>3. QED
    BY <2>1, <2>2
<1>9. ASSUME NEW g \in DOMAIN r, NEW k \in DOMAIN r,
             NEW i \in 1..Len(q[g]), NEW j \in 1..Len(q[k]), q[g][i] = q[k][j]
      PROVE  g = k /\ i = j
  <2> HIDE DEF n, z
  <2>1. CASE i \in 1..Len(r[g]) /\ q[g][i] = r[g][i] /\ j \in 1..Len(r[k]) /\ q[k][j] = r[k][j]
    <3>1. r[g][i] = r[k][j]
      BY <1>9, <2>1
    <3>2. QED
      BY <2>1, <3>1, HeapFacts
  <2>2. QED
    BY <1>1, <1>8, <1>9, <2>1
<1>10. ASSUME NEW d \in Clusters, f[d] # Free
      PROVE  \E g \in DOMAIN r : \E i \in 1..Len(q[g]) : q[g][i] = d
  <2>1. CASE d = c
    <3>1. n + 1 \in 1..Len(q[h]) /\ q[h][n + 1] = c
      BY <1>2, <1>4, <1>5
    <3>2. QED
      BY <2>1, <3>1
  <2>2. CASE d # c
    <3>1. fat[d] # Free
      <4>1. CASE d = z
        BY <1>2, <4>1, HeapFacts, CellFacts
      <4>2. CASE d # z
        BY <1>3, <1>10, <2>2, <4>2, CellFacts
      <4>3. QED
        BY <4>1, <4>2
    <3>20. PICK g \in DOMAIN r : \E i \in 1..Len(r[g]) : r[g][i] = d
      BY <3>1, HeapFree
    <3>2. PICK i \in 1..Len(r[g]) : r[g][i] = d
      BY <3>20
    <3>3. i \in 1..Len(q[g]) /\ q[g][i] = d
      <4>1. CASE g = h
        <5>1. i \in 1..n /\ i \in 1..(n + 1)
          BY <1>2, <3>2, <4>1
        <5>2. QED
          BY <1>4, <1>5, <3>2, <4>1, <5>1
      <4>2. CASE g # h
        BY <1>4, <3>2, <4>2
      <4>3. QED
        BY <4>1, <4>2
    <3>4. QED
      BY <3>3
  <2>3. QED
    BY <2>1, <2>2
<1>11. DOMAIN q \subseteq Cells /\ 0 \in DOMAIN q /\ Root \in DOMAIN q
  BY <1>4, HeapFacts
<1>12. Heap(f, q)
  <2> HIDE DEF n, z
  <2>1. Linked(f, q)
    BY <1>4, <1>7 DEF Linked
  <2>2. Apart(q)
    BY <1>4, <1>9 DEF Apart
  <2>3. Covers(f, q)
    BY <1>4, <1>10 DEF Covers
  <2>4. QED
    BY <1>3, <1>4, <1>11, <2>1, <2>2, <2>3, HeapMade
<1>13. q = [r EXCEPT ![h] = Append(@, c)] /\ f = [fat EXCEPT ![c] = Eoc, ![r[h][Len(r[h])]] = c]
  BY DEF q, t, f
<1>14. QED
  BY <1>12, <1>13

\* What a run has from place k on.
RestOf(r, h, k) == {r[h][j] : j \in k..Len(r[h])}

\* The clusters that Chain finds from cell k of a run are the rest of the run.
LEMMA RestSet ==
  ASSUME NEW fat, NEW r, Heap(fat, r), NEW h \in DOMAIN r, NEW k \in 1..Len(r[h]),
         r[h][k] \in Clusters
  PROVE  ToSet(Chain(fat, r[h][k])) = RestOf(r, h, k)
<1> DEFINE s == Chain(fat, r[h][k])
           u == r[h]
<1>1. u \in Seq(Cells) /\ Len(u) \in Nat \ {0} /\ s = SubSeq(u, k, Len(u)) /\ k \in 1..Len(u)
  BY HeapFacts, HeapRest
<1> HIDE DEF s, u
<1>2. k \in 1..(Len(u) + 1) /\ Len(u) \in (k - 1)..Len(u)
  BY <1>1
<1>3. /\ s \in Seq(Cells) /\ Len(s) = Len(u) - k + 1
      /\ \A i \in 1..(Len(u) - k + 1) : s[i] = u[k + i - 1]
  BY <1>1, <1>2, PartIs
<1>4. DOMAIN s = 1..(Len(u) - k + 1)
  BY <1>3, LenProperties
<1>5. \A i \in 1..(Len(u) - k + 1) : k + i - 1 \in k..Len(u)
  BY <1>1
<1>6. \A j \in k..Len(u) : j - k + 1 \in 1..(Len(u) - k + 1) /\ k + (j - k + 1) - 1 = j
  BY <1>1
<1>7. \A x : x \in ToSet(s) <=> \E i \in 1..(Len(u) - k + 1) : x = s[i]
  BY <1>4 DEF ToSet
<1>8. ASSUME NEW x PROVE x \in ToSet(s) <=> \E j \in k..Len(u) : x = u[j]
  <2>1. ASSUME NEW i \in 1..(Len(u) - k + 1), x = s[i] PROVE \E j \in k..Len(u) : x = u[j]
    BY <1>3, <1>5, <2>1
  <2>2. ASSUME NEW j \in k..Len(u), x = u[j] PROVE \E i \in 1..(Len(u) - k + 1) : x = s[i]
    BY <1>3, <1>6, <2>2
  <2>3. QED
    BY <1>7, <2>1, <2>2
<1>9. \A x : x \in RestOf(r, h, k) <=> \E j \in k..Len(u) : x = u[j]
  BY DEF RestOf, u
<1> HIDE DEF u
<1>10. ToSet(s) = RestOf(r, h, k)
  BY <1>8, <1>9
<1>11. QED
  BY <1>10 DEF s

\* free_chain gives a run back: the other runs make up the heap.
LEMMA HeapDrop ==
  ASSUME NEW fat, NEW r, Heap(fat, r), NEW h \in DOMAIN r, h # 0, h # Root
  PROVE  Heap(FreeChain(fat, h), [x \in DOMAIN r \ {h} |-> r[x]])
<1> DEFINE f == FreeChain(fat, h)
           q == [x \in DOMAIN r \ {h} |-> r[x]]
           X == ToSet(Chain(fat, h))
<1>1. fat \in Fats /\ DOMAIN r \subseteq Cells /\ 0 \in DOMAIN r /\ Root \in DOMAIN r
  BY HeapFacts
<1>2. \A x : x \in X <=> \E i \in 1..Len(r[h]) : x = r[h][i]
  <2>1. 1 \in 1..Len(r[h]) /\ r[h][1] = h /\ h \in Clusters
    BY <1>1, HeapFacts, CellFacts
  <2>2. X = RestOf(r, h, 1)
    BY <2>1, RestSet
  <2> HIDE DEF X
  <2>3. QED
    BY <2>2 DEF RestOf
<1>3. f = [x \in Cells |-> IF x \in X THEN Free ELSE fat[x]]
  BY <1>1 DEF FreeChain, Fats
<1> HIDE DEF X
<1>4. f \in Fats
  BY <1>1, <1>3, CellFacts DEF Fats, Free
<1>5. DOMAIN q = DOMAIN r \ {h} /\ (\A g \in DOMAIN q : q[g] = r[g]) /\ q = [x \in DOMAIN q |-> q[x]]
  OBVIOUS
<1> HIDE DEF f, q
<1>6. \A g \in DOMAIN q : \A i \in 1..Len(r[g]) : r[g][i] \notin X
  BY <1>2, <1>5, HeapFacts
<1>7. Linked(f, q)
  <2>1. SUFFICES ASSUME NEW g \in DOMAIN q
        PROVE  /\ q[g] \in Seq(Cells) /\ Len(q[g]) \in Nat \ {0} /\ q[g][1] = g
               /\ \A i \in 1..(Len(q[g]) - 1) : f[q[g][i]] = q[g][i + 1]
               /\ f[q[g][Len(q[g])]] = Eoc
    BY DEF Linked
  <2>2. g \in DOMAIN r
    BY <1>5
  <2>3. /\ r[g] \in Seq(Cells) /\ Len(r[g]) \in Nat \ {0} /\ r[g] \in [1..Len(r[g]) -> Cells]
        /\ r[g][1] = g
        /\ \A i \in 1..(Len(r[g]) - 1) : fat[r[g][i]] = r[g][i + 1]
        /\ fat[r[g][Len(r[g])]] = Eoc
    BY <2>2, HeapFacts
  <2>4. \A i \in 1..Len(r[g]) : f[r[g][i]] = fat[r[g][i]]
    BY <1>3, <1>6, <2>3
  <2>5. Len(r[g]) \in 1..Len(r[g]) /\ \A i \in 1..(Len(r[g]) - 1) : i \in 1..Len(r[g])
    <3>1. Len(r[g]) \in Nat \ {0}
      BY <2>3
    <3>2. QED
      BY <3>1
  <2>6. QED
    BY <1>5, <2>3, <2>4, <2>5
<1>8. Apart(q)
  <2>1. Apart(r)
    BY HeapFacts DEF Apart
  <2>2. QED
    BY <1>5, <2>1 DEF Apart
<1>9. Covers(f, q)
  <2>1. SUFFICES ASSUME NEW c \in Clusters, f[c] # Free
        PROVE  \E g \in DOMAIN q : \E i \in 1..Len(q[g]) : q[g][i] = c
    BY DEF Covers
  <2>2. c \notin X /\ fat[c] # Free
    BY <1>3, <2>1, CellFacts
  <2>3. PICK g \in DOMAIN r : \E i \in 1..Len(r[g]) : r[g][i] = c
    BY <2>2, HeapFree
  <2>4. g # h
    BY <1>2, <2>2, <2>3
  <2>5. QED
    BY <1>5, <2>3, <2>4
<1>10. Heap(f, q)
  BY <1>1, <1>4, <1>5, <1>7, <1>8, <1>9, HeapMade
<1>11. QED
  BY <1>10 DEF f, q

\* What follows cell n of a run is freed, and cell n ends it.
LEMMA HeapCut ==
  ASSUME NEW fat, NEW r, Heap(fat, r), NEW h \in DOMAIN r, NEW n \in 1..Len(r[h])
  PROVE  Heap([FreeChain(fat, fat[r[h][n]]) EXCEPT ![r[h][n]] = Eoc],
              [r EXCEPT ![h] = SubSeq(r[h], 1, n)])
<1> DEFINE m == Len(r[h])
           z == r[h][n]
           X == ToSet(Chain(fat, fat[z]))
           f == [FreeChain(fat, fat[z]) EXCEPT ![z] = Eoc]
           t == SubSeq(r[h], 1, n)
           q == [r EXCEPT ![h] = t]
<1>1. /\ fat \in Fats /\ DOMAIN r \subseteq Cells /\ 0 \in DOMAIN r /\ Root \in DOMAIN r
      /\ r[h] \in Seq(Cells) /\ m \in Nat \ {0} /\ n \in 1..m /\ z \in Cells
  BY HeapFacts
<1>2. \A x : x \in X <=> \E i \in (n + 1)..m : x = r[h][i]
  <2>1. CASE n = m
    <3>1. fat[z] = Eoc /\ Eoc \notin Clusters
      BY <2>1, HeapFacts, CellFacts
    <3>2. Chain(fat, fat[z]) = <<>>
      BY <3>1, NoChain
    <3>3. X = {}
      BY <3>2 DEF ToSet
    <3> HIDE DEF m, X
    <3>4. (n + 1)..m = {}
      BY <1>1, <2>1
    <3>5. QED
      BY <3>3, <3>4
  <2>2. CASE n # m
    <3>1. n \in 1..(m - 1) /\ n + 1 \in 1..m /\ n + 1 \in 2..m
      BY <1>1, <2>2
    <3>2. fat[z] = r[h][n + 1] /\ r[h][n + 1] \in Clusters
      BY <3>1, HeapFacts
    <3>3. X = RestOf(r, h, n + 1)
      BY <3>1, <3>2, RestSet
    <3> HIDE DEF X
    <3>4. QED
      BY <3>3 DEF RestOf
  <2>3. QED
    BY <2>1, <2>2
<1>3. f = [x \in Cells |-> IF x = z THEN Eoc ELSE IF x \in X THEN Free ELSE fat[x]]
  BY <1>1 DEF FreeChain, Fats
<1>4. /\ t \in Seq(Cells) /\ Len(t) = n
      /\ \A i \in 1..n : t[i] = r[h][i]
  <2>1. 1 \in 1..(Len(r[h]) + 1) /\ n \in (1 - 1)..Len(r[h])
    BY <1>1
  <2>2. /\ t \in Seq(Cells) /\ Len(t) = n - 1 + 1
        /\ \A i \in 1..(n - 1 + 1) : t[i] = r[h][1 + i - 1]
    BY <1>1, <2>1, PartIs
  <2> HIDE DEF t
  <2>3. QED
    BY <1>1, <2>2
<1> HIDE DEF X, t
<1>5. f \in Fats
  BY <1>1, <1>3, CellFacts DEF Fats, Free
<1>6. DOMAIN q = DOMAIN r /\ q[h] = t /\ (\A g \in DOMAIN r : g # h => q[g] = r[g])
      /\ q = [x \in DOMAIN q |-> q[x]]
  OBVIOUS
<1> HIDE DEF f, q
<1>7. ASSUME NEW g \in DOMAIN r, NEW i \in 1..Len(r[g]), r[g][i] = z PROVE g = h /\ i = n
  BY <1>1, <1>7, HeapFacts
<1>8. ASSUME NEW g \in DOMAIN r, NEW i \in 1..Len(r[g]), r[g][i] \in X
      PROVE  g = h /\ i > n
  <2>1. PICK j \in (n + 1)..m : r[g][i] = r[h][j]
    BY <1>2, <1>8
  <2>2. j \in 1..m /\ j > n
    BY <1>1, <2>1
  <2>3. QED
    BY <2>1, <2>2, HeapFacts
<1>9. ASSUME NEW g \in DOMAIN r
      PROVE  /\ q[g] \in Seq(Cells) /\ Len(q[g]) \in Nat \ {0} /\ q[g][1] = g
             /\ \A i \in 1..(Len(q[g]) - 1) : f[q[g][i]] = q[g][i + 1]
             /\ f[q[g][Len(q[g])]] = Eoc
  <2>1. /\ r[g] \in Seq(Cells) /\ Len(r[g]) \in Nat \ {0} /\ r[g] \in [1..Len(r[g]) -> Cells]
        /\ r[g][1] = g
        /\ \A i \in 1..(Len(r[g]) - 1) : fat[r[g][i]] = r[g][i + 1]
        /\ fat[r[g][Len(r[g])]] = Eoc
    BY HeapFacts
  <2>2. CASE g = h
    <3>1. \A i \in 1..(n - 1) : i \in 1..m /\ i \in 1..(m - 1) /\ i # n /\ ~(i > n)
                                /\ i \in 1..n /\ i + 1 \in 1..n
      BY <1>1
    <3> HIDE DEF m, z
    <3>2. ASSUME NEW i \in 1..(n - 1) PROVE f[t[i]] = t[i + 1]
      <4>1. r[h][i] # z /\ r[h][i] \notin X /\ r[h][i] \in Cells
        BY <1>7, <1>8, <2>1, <2>2, <3>1 DEF m
      <4>2. f[r[h][i]] = fat[r[h][i]]
        BY <1>3, <4>1
      <4>3. fat[r[h][i]] = r[h][i + 1]
        BY <2>1, <2>2, <3>1 DEF m
      <4>4. QED
        BY <1>4, <3>1, <4>2, <4>3
    <3>3. f[t[n]] = Eoc /\ t[1] = h
      BY <1>1, <1>3, <1>4, <2>1, <2>2 DEF z
    <3>4. QED
      BY <1>1, <1>4, <1>6, <2>2, <3>2, <3>3
  <2>3. CASE g # h
    <3>1. \A i \in 1..Len(r[g]) : f[r[g][i]] = fat[r[g][i]]
      BY <1>3, <1>7, <1>8, <2>1, <2>3
    <3>2. Len(r[g]) \in 1..Len(r[g]) /\ \A i \in 1..(Len(r[g]) - 1) : i \in 1..Len(r[g])
      <4>1. Len(r[g]) \in Nat \ {0}
        BY <2>1
      <4>2. QED
        BY <4>1
    <3>3. QED
      BY <1>6, <2>1, <2>3, <3>1, <3>2
  <2>4. QED
    BY <2>2, <2>3
<1>10. Linked(f, q)
  BY <1>6, <1>9 DEF Linked
<1>11. \A g \in DOMAIN r : \A i \in 1..Len(q[g]) : i \in 1..Len(r[g]) /\ q[g][i] = r[g][i]
  <2>1. \A i \in 1..n : i \in 1..m
    BY <1>1
  <2>2. \A i \in 1..Len(q[h]) : i \in 1..Len(r[h]) /\ q[h][i] = r[h][i]
    BY <1>4, <1>6, <2>1
  <2>3. QED
    BY <1>6, <2>2
<1>12. Apart(q)
  <2>1. Apart(r)
    BY HeapFacts DEF Apart
  <2>2. QED
    BY <1>6, <1>11, <2>1 DEF Apart
<1>13. Covers(f, q)
  <2>1. SUFFICES ASSUME NEW c \in Clusters, f[c] # Free
        PROVE  \E g \in DOMAIN q : \E i \in 1..Len(q[g]) : q[g][i] = c
    BY DEF Covers
  <2>2. CASE c = z
    BY <1>1, <1>4, <1>6, <2>2
  <2>3. CASE c # z
    <3>1. c \notin X /\ fat[c] # Free
      BY <1>3, <2>1, <2>3, CellFacts
    <3>2. PICK g \in DOMAIN r : \E i \in 1..Len(r[g]) : r[g][i] = c
      BY <3>1, HeapFree
    <3>3. PICK i \in 1..Len(r[g]) : r[g][i] = c
      BY <3>2
    <3>4. CASE g = h
      <4>1. i \in 1..m /\ i \notin (n + 1)..m
        BY <1>2, <3>1, <3>3, <3>4
      <4>2. i \in 1..n
        BY <1>1, <4>1
      <4>3. i \in 1..Len(q[h]) /\ q[h][i] = c
        BY <1>4, <1>6, <3>3, <3>4, <4>2
      <4>4. QED
        BY <1>6, <4>3
    <3>5. CASE g # h
      BY <1>6, <3>2, <3>5
    <3>6. QED
      BY <3>4, <3>5
  <2>4. QED
    BY <2>2, <2>3
<1>14. Heap(f, q)
  BY <1>1, <1>5, <1>6, <1>10, <1>12, <1>13, HeapMade
<1>15. QED
  BY <1>14 DEF f, q, t

-----------------------------------------------------------------------------
(* The opened partition and the trail of its writes. *)

\* Writes of blocks: to a cluster, or astray.
ClusterWrites == [kind : {"cluster"}, at : Clusters, val : Blocks]
                 \cup [kind : {"astray"}, at : {0}, val : Blocks]
Parts == [fat : Fats, data : Datas, log : Seq(ClusterWrites),
          hint : Nat, got : Cells, ok : BOOLEAN]

ClusterWrite(c, v) == [kind |-> "cluster", at |-> c, val |-> v]

\* Write w takes the clusters from a to b; astray, it leaves them alone.
Stepped(w, a, b) ==
  \/ \E c \in Clusters, v \in Blocks : w = ClusterWrite(c, v) /\ b = [a EXCEPT ![c] = v]
  \/ \E v \in Blocks : w = Astray(v) /\ b = a

\* The writes in log take the clusters from d to e, through contents in G only.
Trail(G, d, log, e) ==
  /\ log \in Seq(ClusterWrites)
  /\ \E t \in [0..Len(log) -> G] :
       /\ t[0] = d /\ t[Len(log)] = e
       /\ \A i \in 1..Len(log) : Stepped(log[i], t[i - 1], t[i])

\* A call that wrote nothing leaves a trail without steps.
LEMMA TrailNone ==
  ASSUME NEW G, NEW d \in G
  PROVE  Trail(G, d, <<>>, d)
<1> DEFINE t == [i \in 0..0 |-> d]
<1>1. t \in [0..0 -> G] /\ t[0] = d
  OBVIOUS
<1> HIDE DEF t
<1>2. Len(<<>>) = 0 /\ <<>> \in Seq(ClusterWrites)
  BY EmptySeq
<1>3. \A i \in 1..0 : FALSE
  OBVIOUS
<1>4. QED
  BY <1>1, <1>2, <1>3 DEF Trail

\* A write makes the trail one step longer.
LEMMA TrailStep ==
  ASSUME NEW G, NEW d, NEW log, NEW e, Trail(G, d, log, e),
         NEW w \in ClusterWrites, NEW x \in G, Stepped(w, e, x)
  PROVE  Trail(G, d, Append(log, w), x)
<1> DEFINE n == Len(log)
           m == Append(log, w)
<1>1. log \in Seq(ClusterWrites) /\ n \in Nat
  BY LenProperties DEF Trail
<1>2. PICK t \in [0..n -> G] :
        /\ t[0] = d /\ t[n] = e
        /\ \A i \in 1..n : Stepped(log[i], t[i - 1], t[i])
  BY DEF Trail
<1>4. m \in Seq(ClusterWrites) /\ Len(m) = n + 1 /\ m[n + 1] = w /\ \A i \in 1..n : m[i] = log[i]
  BY <1>1, AppendProperties
<1> DEFINE u == [i \in 0..(n + 1) |-> IF i = n + 1 THEN x ELSE t[i]]
<1> HIDE DEF m, n
<1>5. u \in [0..(n + 1) -> G] /\ u[0] = d /\ u[n + 1] = x /\ \A i \in 0..n : u[i] = t[i]
  <2>1. \A i \in 0..(n + 1) : i = n + 1 \/ i \in 0..n
    BY <1>1
  <2>3. \A i \in 0..n : i # n + 1 /\ i \in 0..(n + 1)
    BY <1>1
  <2>4. \A i \in 0..n : u[i] = t[i]
    BY <2>3
  <2>5. u[n + 1] = x /\ 0 \in 0..n
    BY <1>1
  <2>6. u \in [0..(n + 1) -> G]
    BY <1>2, <2>1
  <2>7. QED
    BY <1>2, <2>4, <2>5, <2>6
<1> HIDE DEF u
<1>6. ASSUME NEW i \in 1..(n + 1)
      PROVE  Stepped(m[i], u[i - 1], u[i])
  <2>1. CASE i = n + 1
    <3>1. u[i - 1] = e /\ u[i] = x /\ m[i] = w
      BY <1>1, <1>2, <1>4, <1>5, <2>1
    <3>2. QED
      BY <3>1
  <2>2. CASE i # n + 1
    <3>1. i \in 1..n /\ i - 1 \in 0..n /\ i \in 0..n
      BY <1>1, <2>2
    <3>2. QED
      BY <1>2, <1>4, <1>5, <3>1
  <2>3. QED
    BY <2>1, <2>2
<1>7. Trail(G, d, m, x)
  BY <1>1, <1>4, <1>5, <1>6 DEF Trail
<1>8. QED
  BY <1>7 DEF m

\* A write to a cluster is such a step if the content it leads to is in G.
LEMMA TrailPut ==
  ASSUME NEW G, NEW d, NEW log, NEW e, Trail(G, d, log, e),
         NEW c \in Clusters, NEW v \in Blocks, [e EXCEPT ![c] = v] \in G
  PROVE  Trail(G, d, Append(log, ClusterWrite(c, v)), [e EXCEPT ![c] = v])
<1> DEFINE x == [e EXCEPT ![c] = v]
           w == ClusterWrite(c, v)
<1>1. w \in ClusterWrites
  BY DEF ClusterWrites, ClusterWrite
<1>2. Stepped(w, e, x)
  BY DEF Stepped
<1>3. x \in G
  OBVIOUS
<1> HIDE DEF x, w
<1>4. Trail(G, d, Append(log, w), x)
  BY <1>1, <1>2, <1>3, TrailStep
<1>5. QED
  BY <1>4 DEF x, w

\* A write astray is always one.
LEMMA TrailAstray ==
  ASSUME NEW G, NEW d, NEW log, NEW e, Trail(G, d, log, e), NEW v \in Blocks
  PROVE  Trail(G, d, Append(log, Astray(v)), e)
<1>1. Astray(v) \in ClusterWrites
  BY DEF ClusterWrites, Astray
<1>2. Stepped(Astray(v), e, e)
  BY DEF Stepped
<1>3. e \in G
  <2>1. Len(log) \in Nat
    BY LenProperties DEF Trail
  <2>2. Len(log) \in 0..Len(log)
    BY <2>1
  <2>3. QED
    BY <2>2 DEF Trail
<1>4. QED
  BY <1>1, <1>2, <1>3, TrailStep

\* What is left of a trail after its first write is a trail.
LEMMA TrailNext ==
  ASSUME NEW G, NEW d, NEW log, NEW e, Trail(G, d, log, e), log # <<>>
  PROVE  \/ \E c \in Clusters, v \in Blocks :
              /\ log[1] = ClusterWrite(c, v)
              /\ Trail(G, [d EXCEPT ![c] = v], Tail(log), e)
         \/ \E v \in Blocks : log[1] = Astray(v) /\ Trail(G, d, Tail(log), e)
<1> DEFINE n == Len(log)
           m == Tail(log)
<1>1. log \in Seq(ClusterWrites) /\ n \in Nat \ {0}
  BY EmptySeq DEF Trail
<1>2. PICK t \in [0..n -> G] :
        /\ t[0] = d /\ t[n] = e
        /\ \A i \in 1..n : Stepped(log[i], t[i - 1], t[i])
  BY DEF Trail
<1>3. m \in Seq(ClusterWrites) /\ Len(m) = n - 1 /\ \A i \in 1..(n - 1) : m[i] = log[i + 1]
  BY <1>1, HeadTailProperties
<1>4. Stepped(log[1], d, t[1])
  <2>1. 1 \in 1..n /\ 1 - 1 = 0
    BY <1>1
  <2>2. QED
    BY <1>2, <2>1
<1> DEFINE u == [i \in 0..(n - 1) |-> t[i + 1]]
<1> HIDE DEF m, n
<1>7. u \in [0..(n - 1) -> G] /\ u[0] = t[1] /\ u[n - 1] = e
  <2>1. \A i \in 0..(n - 1) : i + 1 \in 0..n
    BY <1>1
  <2>2. 0 \in 0..(n - 1) /\ n - 1 \in 0..(n - 1) /\ (n - 1) + 1 = n
    BY <1>1
  <2>3. QED
    BY <1>2, <2>1, <2>2
<1>8. ASSUME NEW i \in 1..(n - 1)
      PROVE  Stepped(m[i], u[i - 1], u[i])
  <2>1. i + 1 \in 1..n /\ i - 1 \in 0..(n - 1) /\ i \in 0..(n - 1) /\ (i - 1) + 1 = i
        /\ (i + 1) - 1 = i
    BY <1>1
  <2>2. u[i] = t[i + 1] /\ u[i - 1] = t[i] /\ m[i] = log[i + 1]
    BY <1>3, <2>1
  <2> HIDE DEF u
  <2>3. QED
    BY <1>2, <2>1, <2>2
<1> HIDE DEF u
<1>9. Trail(G, t[1], m, e)
  BY <1>3, <1>7, <1>8 DEF Trail
<1>10. QED
  BY <1>4, <1>9 DEF m, Stepped

\* A trail begins and ends in G.
LEMMA TrailEnds ==
  ASSUME NEW G, NEW d, NEW log, NEW e, Trail(G, d, log, e)
  PROVE  d \in G /\ e \in G /\ (log = <<>> => d = e)
<1>1. Len(log) \in Nat /\ (log = <<>> => Len(log) = 0)
  BY LenProperties DEF Trail
<1>2. 0 \in 0..Len(log) /\ Len(log) \in 0..Len(log)
  BY <1>1
<1>3. QED
  BY <1>1, <1>2 DEF Trail

-----------------------------------------------------------------------------
(* Writes and allocations. *)

\* What the clusters F hold does not matter to G.
Open(G, F) ==
  \A e \in G, x \in Datas : (\A c \in Clusters \ F : x[c] = e[c]) => x \in G

\* The types of a partition's fields.
LEMMA PartFacts ==
  ASSUME NEW p \in Parts
  PROVE  /\ p.fat \in Fats /\ p.data \in Datas /\ p.log \in Seq(ClusterWrites)
         /\ p.hint \in Nat /\ p.got \in Cells /\ p.ok \in BOOLEAN
         /\ p = [fat |-> p.fat, data |-> p.data, log |-> p.log,
                 hint |-> p.hint, got |-> p.got, ok |-> p.ok]
  BY DEF Parts

\* What writing a block to a cluster changes.
LEMMA PutIs ==
  ASSUME NEW p \in Parts, NEW c \in Clusters, NEW v \in Blocks,
         NEW G, NEW d, Trail(G, d, p.log, p.data), [p.data EXCEPT ![c] = v] \in G
  PROVE  /\ Put(p, c, v) = [p EXCEPT !.data = [p.data EXCEPT ![c] = v],
                                     !.log = Append(p.log, ClusterWrite(c, v))]
         /\ Put(p, c, v) \in Parts
         /\ Trail(G, d, Put(p, c, v).log, Put(p, c, v).data)
<1> DEFINE x == [p.data EXCEPT ![c] = v]
           m == Append(p.log, ClusterWrite(c, v))
           q == Put(p, c, v)
<1>1. q = [p EXCEPT !.data = x, !.log = m]
  BY DEF Put, ClusterWrite, Parts
<1>2. Trail(G, d, m, x)
  BY TrailPut
<1>3. x \in Datas
  BY DEF Parts, Datas
<1>4. m \in Seq(ClusterWrites)
  BY <1>2 DEF Trail
<1> HIDE DEF x, m
<1>5. q \in Parts /\ q.log = m /\ q.data = x
  BY <1>1, <1>3, <1>4 DEF Parts
<1>6. QED
  BY <1>1, <1>2, <1>5 DEF x, m

\* A zeroed cluster is a block.
LEMMA BlankIs == Blank \in Blocks
  BY DEF Blank, Blocks, Slots

\* A content in G stays in it when a free cluster is overwritten.
LEMMA OpenPut ==
  ASSUME NEW G, NEW F, Open(G, F), NEW e \in G, e \in Datas,
         NEW c \in Clusters, c \in F, NEW v \in Blocks
  PROVE  [e EXCEPT ![c] = v] \in G /\ [e EXCEPT ![c] = v] \in Datas
<1> DEFINE x == [e EXCEPT ![c] = v]
<1>1. x \in Datas /\ \A a \in Clusters : a # c => x[a] = e[a]
  BY DEF Datas
<1> HIDE DEF x
<1>2. x \in G
  BY <1>1 DEF Open
<1>3. QED
  BY <1>1, <1>2 DEF x

\* alloc_cluster takes a free cluster, which becomes a run of its own, or fails.
LEMMA AllocIs ==
  ASSUME NEW p \in Parts, p.ok, NEW G, NEW F, NEW d, Trail(G, d, p.log, p.data),
         Open(G, F), \A c \in Clusters : p.fat[c] = Free => c \in F
  PROVE  /\ Alloc(p) \in Parts
         /\ Trail(G, d, Alloc(p).log, Alloc(p).data)
         /\ Alloc(p).ok =>
              /\ Alloc(p).got \in Clusters /\ p.fat[Alloc(p).got] = Free
              /\ Alloc(p).fat = [p.fat EXCEPT ![Alloc(p).got] = Eoc]
              /\ Alloc(p).data = [p.data EXCEPT ![Alloc(p).got] = Blank]
<1> DEFINE free == {c \in Clusters : p.fat[c] = Free}
           ahead == {c \in free : c >= p.hint}
           S == IF ahead # {} THEN ahead ELSE free
           c == Min(S)
           a == Alloc(p)
           m == [p EXCEPT !.fat[c] = Eoc, !.hint = c + 1, !.got = c]
<1>0. /\ p.fat \in Fats /\ p.data \in Datas /\ p.log \in Seq(ClusterWrites)
      /\ p.hint \in Nat /\ p.got \in Cells /\ p.ok \in BOOLEAN
  BY PartFacts
<1>1. CASE free = {}
  <2>1. a = [p EXCEPT !.ok = FALSE]
    BY <1>1 DEF Alloc
  <2>2. a \in Parts /\ a.log = p.log /\ a.data = p.data /\ ~a.ok
    BY <2>1 DEF Parts
  <2>3. QED
    BY <2>2
<1>2. CASE free # {}
  <2>1. S \in SUBSET Nat /\ S # {} /\ S \subseteq free
    BY <1>2, CellFacts
  <2> HIDE DEF S
  <2>2. c \in S
    <3>1. \E x \in S : \A y \in S : x <= y
      BY <2>1, LeastNat
    <3>2. QED
      BY <3>1 DEF Min
  <2>3. c \in Clusters /\ p.fat[c] = Free /\ c \in F /\ c \in Nat /\ c \in Cells
    BY <2>1, <2>2, CellFacts
  <2>4. a = Put(m, c, Blank)
    BY <1>2 DEF Alloc, S
  <2> HIDE DEF free, c
  <2>5. /\ m \in Parts /\ m.data = p.data /\ m.log = p.log /\ m.got = c /\ m.ok = p.ok
        /\ m.fat = [p.fat EXCEPT ![c] = Eoc]
    <3> DEFINE f == [p.fat EXCEPT ![c] = Eoc]
    <3>1. f \in Fats
      BY <1>0, <2>3 DEF Fats
    <3> HIDE DEF f, m
    <3>2. m = [fat |-> f, data |-> p.data, log |-> p.log,
               hint |-> c + 1, got |-> c, ok |-> p.ok]
      <4>1. m = [p EXCEPT !.fat = f, !.hint = c + 1, !.got = c]
        BY DEF f, m
      <4>2. p = [fat |-> p.fat, data |-> p.data, log |-> p.log,
                 hint |-> p.hint, got |-> p.got, ok |-> p.ok]
        BY PartFacts
      <4>3. QED
        BY <4>1, <4>2
    <3>3. m \in Parts /\ m.data = p.data /\ m.log = p.log /\ m.got = c /\ m.ok = p.ok /\ m.fat = f
      BY <1>0, <2>3, <3>1, <3>2 DEF Parts
    <3>4. QED
      BY <3>3 DEF f
  <2> HIDE DEF m, a
  <2>6. [p.data EXCEPT ![c] = Blank] \in G
    BY <1>0, <2>3, BlankIs, OpenPut, TrailEnds
  <2>7. /\ a = [m EXCEPT !.data = [m.data EXCEPT ![c] = Blank],
                         !.log = Append(m.log, ClusterWrite(c, Blank))]
        /\ a \in Parts
        /\ Trail(G, d, a.log, a.data)
    <3>1. Trail(G, d, m.log, m.data) /\ [m.data EXCEPT ![c] = Blank] \in G
      BY <2>5, <2>6
    <3>2. m \in Parts /\ c \in Clusters /\ Blank \in Blocks /\ a = Put(m, c, Blank)
      BY <2>3, <2>4, <2>5, BlankIs
    <3>3. /\ Put(m, c, Blank) = [m EXCEPT !.data = [m.data EXCEPT ![c] = Blank],
                                          !.log = Append(m.log, ClusterWrite(c, Blank))]
          /\ Put(m, c, Blank) \in Parts
          /\ Trail(G, d, Put(m, c, Blank).log, Put(m, c, Blank).data)
      BY <3>1, <3>2, PutIs
    <3>4. QED
      BY <3>2, <3>3
  <2>8. a.got = c /\ a.fat = m.fat /\ a.data = [p.data EXCEPT ![c] = Blank]
    BY <2>5, <2>7 DEF Parts
  <2>9. QED
    BY <2>3, <2>5, <2>7, <2>8 DEF a
<1>3. QED
  BY <1>1, <1>2

-----------------------------------------------------------------------------
(* Contents that a call passes through: blocks written to a run. *)

\* The data after the first k of the blocks vals went to the clusters cs.
After(data, cs, vals, k) ==
  [c \in Clusters |-> IF \E i \in 1..k : cs[i] = c
                      THEN vals[CHOOSE i \in 1..k : cs[i] = c] ELSE data[c]]

\* When the clusters are different, each holds its block and the others what they held.
LEMMA AfterIs ==
  ASSUME NEW data \in Datas, NEW n \in Nat, NEW vals \in [1..n -> Blocks],
         NEW cs \in [1..n -> Cells], \A i, j \in 1..n : cs[i] = cs[j] => i = j,
         NEW k \in 0..n
  PROVE  /\ After(data, cs, vals, k) \in Datas
         /\ \A i \in 1..k : cs[i] \in Clusters => After(data, cs, vals, k)[cs[i]] = vals[i]
         /\ \A c \in Clusters : (\A i \in 1..k : cs[i] # c) => After(data, cs, vals, k)[c] = data[c]
<1>1. \A i \in 1..k : i \in 1..n
  OBVIOUS
<1>2. ASSUME NEW c \in Clusters PROVE After(data, cs, vals, k)[c] \in Blocks
  <2>1. CASE \E i \in 1..k : cs[i] = c
    BY <1>1, <2>1 DEF After
  <2>2. CASE ~\E i \in 1..k : cs[i] = c
    BY <2>2 DEF After, Datas
  <2>3. QED
    BY <2>1, <2>2
<1>3. After(data, cs, vals, k) \in Datas
  BY <1>2 DEF After, Datas
<1>4. ASSUME NEW i \in 1..k, cs[i] \in Clusters
      PROVE  After(data, cs, vals, k)[cs[i]] = vals[i]
  <2>1. (CHOOSE j \in 1..k : cs[j] = cs[i]) = i
    BY <1>1
  <2>2. QED
    BY <1>4, <2>1 DEF After
<1>5. QED
  BY <1>3, <1>4 DEF After

\* The contents after k blocks come from those after k - 1 by one write.
LEMMA AfterNext ==
  ASSUME NEW data \in Datas, NEW n \in Nat, NEW vals \in [1..n -> Blocks],
         NEW cs \in [1..n -> Cells], \A i, j \in 1..n : cs[i] = cs[j] => i = j,
         NEW k \in 1..n
  PROVE  IF cs[k] \in Clusters
         THEN After(data, cs, vals, k) = [After(data, cs, vals, k - 1) EXCEPT ![cs[k]] = vals[k]]
         ELSE After(data, cs, vals, k) = After(data, cs, vals, k - 1)
<1> DEFINE a == After(data, cs, vals, k)
           b == After(data, cs, vals, k - 1)
<1>1. k - 1 \in 0..n /\ k \in 0..n /\ \A i \in 1..k : i \in 1..n /\ (i = k \/ i \in 1..(k - 1))
  OBVIOUS
<1>2. \A i \in 1..(k - 1) : i \in 1..k /\ i # k
  OBVIOUS
<1>3. /\ a \in Datas /\ \A i \in 1..k : cs[i] \in Clusters => a[cs[i]] = vals[i]
      /\ \A c \in Clusters : (\A i \in 1..k : cs[i] # c) => a[c] = data[c]
  BY <1>1, AfterIs
<1>4. /\ b \in Datas /\ \A i \in 1..(k - 1) : cs[i] \in Clusters => b[cs[i]] = vals[i]
      /\ \A c \in Clusters : (\A i \in 1..(k - 1) : cs[i] # c) => b[c] = data[c]
  BY <1>1, AfterIs
<1> HIDE DEF a, b
<1>5. ASSUME NEW c \in Clusters, c # cs[k] PROVE a[c] = b[c]
  <2>1. CASE \E i \in 1..(k - 1) : cs[i] = c
    BY <1>2, <1>3, <1>4, <2>1
  <2>2. CASE ~\E i \in 1..(k - 1) : cs[i] = c
    BY <1>1, <1>3, <1>4, <1>5, <2>2
  <2>3. QED
    BY <2>1, <2>2
<1>6. CASE cs[k] \in Clusters
  <2>1. a[cs[k]] = vals[k]
    BY <1>1, <1>3, <1>6
  <2>2. a = [b EXCEPT ![cs[k]] = vals[k]]
    BY <1>3, <1>4, <1>5, <1>6, <2>1 DEF Datas
  <2>3. QED
    BY <1>6, <2>2 DEF a, b
<1>7. CASE cs[k] \notin Clusters
  <2>1. \A c \in Clusters : a[c] = b[c]
    BY <1>5, <1>7
  <2>2. a = b
    BY <1>3, <1>4, <2>1 DEF Datas
  <2>3. QED
    BY <1>7, <2>2 DEF a, b
<1>8. QED
  BY <1>6, <1>7

\* A write leaves a partition a partition.
LEMMA PutType ==
  ASSUME NEW p \in Parts, NEW c, NEW v \in Blocks
  PROVE  /\ Put(p, c, v) \in Parts
         /\ Put(p, c, v).fat = p.fat /\ Put(p, c, v).hint = p.hint
         /\ Put(p, c, v).got = p.got /\ Put(p, c, v).ok = p.ok
<1>1. CASE c \notin Clusters
  <2> DEFINE m == Append(p.log, Astray(v))
  <2>1. m \in Seq(ClusterWrites)
    <3>1. Astray(v) \in ClusterWrites /\ p.log \in Seq(ClusterWrites)
      BY PartFacts DEF Astray, ClusterWrites
    <3>2. QED
      BY <3>1, AppendProperties
  <2>2. Put(p, c, v) = [p EXCEPT !.log = m]
    BY <1>1 DEF Put, Parts
  <2> HIDE DEF m
  <2>3. p = [fat |-> p.fat, data |-> p.data, log |-> p.log,
             hint |-> p.hint, got |-> p.got, ok |-> p.ok]
    BY PartFacts
  <2>4. Put(p, c, v) = [fat |-> p.fat, data |-> p.data, log |-> m,
                        hint |-> p.hint, got |-> p.got, ok |-> p.ok]
    BY <2>2, <2>3
  <2>5. QED
    BY <2>1, <2>4, PartFacts DEF Parts
<1>2. CASE c \in Clusters
  <2> DEFINE x == [p.data EXCEPT ![c] = v]
             m == Append(p.log, ClusterWrite(c, v))
  <2>1. x \in Datas
    BY <1>2 DEF Parts, Datas
  <2>2. m \in Seq(ClusterWrites)
    <3>1. ClusterWrite(c, v) \in ClusterWrites /\ p.log \in Seq(ClusterWrites)
      BY <1>2, PartFacts DEF ClusterWrite, ClusterWrites
    <3>2. QED
      BY <3>1, AppendProperties
  <2>3. Put(p, c, v) = [p EXCEPT !.data = x, !.log = m]
    BY <1>2 DEF Put, ClusterWrite, Parts
  <2> HIDE DEF x, m
  <2>4. p = [fat |-> p.fat, data |-> p.data, log |-> p.log,
             hint |-> p.hint, got |-> p.got, ok |-> p.ok]
    BY PartFacts
  <2>5. Put(p, c, v) = [fat |-> p.fat, data |-> x, log |-> m,
                        hint |-> p.hint, got |-> p.got, ok |-> p.ok]
    BY <2>3, <2>4
  <2>6. QED
    BY <2>1, <2>2, <2>5, PartFacts DEF Parts
<1>3. QED
  BY <1>1, <1>2

\* f[k] is the partition after k of the writes of PutAll.
PuttingAll(f, p, cs, n, vals) ==
  /\ f \in [0..n -> Parts] /\ f[0] = p
  /\ \A k \in 1..n : f[k] = Put(f[k - 1], cs[k], vals[k])

\* The recursion of PutAll.
LEMMA PutAllStep ==
  ASSUME NEW p \in Parts, NEW cs, NEW n \in Nat, NEW vals, Len(vals) = n,
         \A i \in 1..n : vals[i] \in Blocks
  PROVE  \E f : PuttingAll(f, p, cs, n, vals) /\ PutAll(p, cs, vals) = f[n]
<1> DEFINE Is(w) == w = [k \in 0..n |-> IF k = 0 THEN p ELSE Put(w[k - 1], cs[k], vals[k])]
           F == [q \in Parts |-> [k \in 1..n |-> Put(q, cs[k], vals[k])]]
           put == CHOOSE w : Is(w)
<1>1. F \in [Parts -> [1..n -> Parts]]
  BY PutType
<1> HIDE DEF F
<1>2. PICK g \in [0..n -> Parts] : g[0] = p /\ \A i \in 1..n : g[i] = F[g[i - 1]][i]
  <2> DEFINE V == Parts
  <2>1. p \in V /\ F \in [V -> [1..n -> V]]
    BY <1>1
  <2> HIDE DEF V
  <2>2. \E g : Recursive(g, n, V, p, F)
    BY <2>1, RecursionExists
  <2>3. QED
    BY <2>2 DEF V, Recursive
<1>3. \A k \in 0..n : g[k] = IF k = 0 THEN p ELSE Put(g[k - 1], cs[k], vals[k])
  <2>1. SUFFICES ASSUME NEW k \in 1..n PROVE g[k] = Put(g[k - 1], cs[k], vals[k])
    BY <1>2
  <2>2. g[k] = F[g[k - 1]][k] /\ g[k - 1] \in Parts
    BY <1>2
  <2>3. QED
    BY <2>2 DEF F
<1>4. Is(g)
  BY <1>2, <1>3
<1>5. Is(put)
  <2> HIDE DEF Is
  <2>1. QED
    BY <1>4
<1>6. PutAll(p, cs, vals) = put[n]
  BY DEF PutAll
<1> HIDE DEF put
<1>7. put[0] = p /\ \A k \in 1..n : put[k] = Put(put[k - 1], cs[k], vals[k])
  <2>1. \A k \in 0..n : put[k] = IF k = 0 THEN p ELSE Put(put[k - 1], cs[k], vals[k])
    BY <1>5
  <2>2. 0 \in 0..n /\ \A k \in 1..n : k \in 0..n /\ k # 0
    OBVIOUS
  <2>3. QED
    BY <2>1, <2>2
<1> DEFINE T == {k \in 0..n : put[k] \in Parts}
<1>8. \A k \in 0..n : k \in T
  <2>1. 0 \in T
    BY <1>7
  <2>2. \A i \in 0..(n - 1) : i \in T => i + 1 \in T
    <3> SUFFICES ASSUME NEW i \in 0..(n - 1), i \in T PROVE i + 1 \in T
      OBVIOUS
    <3>1. i + 1 \in 1..n /\ i + 1 \in 0..n /\ (i + 1) - 1 = i
      OBVIOUS
    <3>2. put[i + 1] = Put(put[i], cs[i + 1], vals[i + 1]) /\ put[i] \in Parts
      BY <1>7, <3>1
    <3>3. put[i + 1] \in Parts
      BY <3>1, <3>2, PutType
    <3>4. QED
      BY <3>1, <3>3
  <2> HIDE DEF T
  <2>3. QED
    BY <2>1, <2>2, UpTo
<1>9. put = [k \in 0..n |-> put[k]]
  BY <1>5
<1>10. put \in [0..n -> Parts]
  BY <1>8, <1>9
<1>11. QED
  BY <1>6, <1>7, <1>10 DEF PuttingAll

\* What writing blocks to a run does.
LEMMA PutAllIs ==
  ASSUME NEW p \in Parts, NEW vals \in Seq(Blocks), NEW cs \in Seq(Cells), Len(cs) = Len(vals),
         \A i, j \in 1..Len(cs) : cs[i] = cs[j] => i = j,
         NEW G, NEW d, Trail(G, d, p.log, p.data),
         \A k \in 0..Len(vals) : After(p.data, cs, vals, k) \in G
  PROVE  /\ PutAll(p, cs, vals) \in Parts
         /\ PutAll(p, cs, vals).fat = p.fat /\ PutAll(p, cs, vals).hint = p.hint
         /\ PutAll(p, cs, vals).got = p.got /\ PutAll(p, cs, vals).ok = p.ok
         /\ PutAll(p, cs, vals).data = After(p.data, cs, vals, Len(vals))
         /\ Trail(G, d, PutAll(p, cs, vals).log, PutAll(p, cs, vals).data)
<1> DEFINE n == Len(vals)
<1>1. /\ n \in Nat /\ vals \in [1..n -> Blocks] /\ cs \in [1..n -> Cells] /\ p.data \in Datas
      /\ \A i, j \in 1..n : cs[i] = cs[j] => i = j
  BY LenProperties, PartFacts
<1>2. PICK f \in [0..n -> Parts] :
           /\ PutAll(p, cs, vals) = f[n] /\ f[0] = p
           /\ \A k \in 1..n : f[k] = Put(f[k - 1], cs[k], vals[k])
  <2>1. \A i \in 1..n : vals[i] \in Blocks
    BY <1>1
  <2>2. n \in Nat /\ Len(vals) = n
    BY <1>1
  <2> HIDE DEF n
  <2>3. \E f : PuttingAll(f, p, cs, n, vals) /\ PutAll(p, cs, vals) = f[n]
    BY <2>1, <2>2, PutAllStep
  <2>4. QED
    BY <2>3 DEF PuttingAll
<1> DEFINE D(k) == After(p.data, cs, vals, k)
           Good(k) == /\ f[k].fat = p.fat /\ f[k].hint = p.hint /\ f[k].got = p.got
                      /\ f[k].ok = p.ok /\ f[k].data = D(k)
                      /\ Trail(G, d, f[k].log, f[k].data)
           T == {k \in 0..n : Good(k)}
<1>3. \A k \in 0..n : D(k) \in G
  OBVIOUS
<1> HIDE DEF n
<1>4. 0 \in T
  <2>1. 0 \in 0..n /\ \A i \in 1..0 : FALSE
    BY <1>1
  <2>2. D(0) \in Datas /\ \A c \in Clusters : (\A i \in 1..0 : cs[i] # c) => D(0)[c] = p.data[c]
    BY <1>1, <2>1, AfterIs
  <2> HIDE DEF D
  <2>3. D(0) = p.data
    BY <1>1, <2>1, <2>2 DEF Datas
  <2>4. QED
    BY <1>2, <2>1, <2>3
<1>5. \A i \in 0..(n - 1) : i \in T => i + 1 \in T
  <2> SUFFICES ASSUME NEW i \in 0..(n - 1), Good(i) PROVE Good(i + 1)
    BY <1>1
  <2> DEFINE k == i + 1
  <2>1. k \in 1..n /\ k \in 0..n /\ k - 1 = i /\ i \in 0..n
    BY <1>1
  <2> HIDE DEF k
  <2>2. f[k] = Put(f[i], cs[k], vals[k]) /\ vals[k] \in Blocks /\ f[i] \in Parts
    BY <1>1, <1>2, <2>1
  <2>3. f[k].fat = p.fat /\ f[k].hint = p.hint /\ f[k].got = p.got /\ f[k].ok = p.ok
    BY <2>2, PutType
  <2>4. IF cs[k] \in Clusters THEN D(k) = [D(i) EXCEPT ![cs[k]] = vals[k]] ELSE D(k) = D(i)
    BY <1>1, <2>1, AfterNext
  <2>5. D(k) \in G
    BY <1>3, <2>1
  <2> HIDE DEF D
  <2>6. CASE cs[k] \in Clusters
    <3>1. [f[i].data EXCEPT ![cs[k]] = vals[k]] = D(k)
      BY <2>4, <2>6
    <3> DEFINE q == f[i]
               c == cs[k]
               v == vals[k]
    <3>2. /\ q \in Parts /\ c \in Clusters /\ v \in Blocks /\ f[k] = Put(q, c, v)
          /\ Trail(G, d, q.log, q.data) /\ [q.data EXCEPT ![c] = v] \in G
      BY <2>2, <2>5, <2>6, <3>1
    <3> HIDE DEF q, c, v
    <3>20. /\ Put(q, c, v) = [q EXCEPT !.data = [q.data EXCEPT ![c] = v],
                                       !.log = Append(q.log, ClusterWrite(c, v))]
           /\ Trail(G, d, Put(q, c, v).log, Put(q, c, v).data)
      BY <3>2, PutIs
    <3>3. f[k].data = [f[i].data EXCEPT ![cs[k]] = vals[k]]
      <4>1. Put(q, c, v).data = [q.data EXCEPT ![c] = v]
        BY <3>2, <3>20 DEF Parts
      <4>2. QED
        BY <3>2, <4>1 DEF q, c, v
    <3>4. QED
      BY <2>3, <3>1, <3>2, <3>20, <3>3 DEF k
  <2>7. CASE cs[k] \notin Clusters
    <3> DEFINE q == f[i]
               c == cs[k]
               v == vals[k]
    <3>1. /\ q \in Parts /\ c \notin Clusters /\ v \in Blocks /\ f[k] = Put(q, c, v)
          /\ Trail(G, d, q.log, q.data)
      BY <2>2, <2>7
    <3> HIDE DEF q, c, v
    <3>2. f[k].log = Append(q.log, Astray(v)) /\ f[k].data = q.data
      BY <3>1 DEF Put, Parts
    <3>3. Trail(G, d, f[k].log, f[k].data)
      BY <3>1, <3>2, TrailAstray
    <3>4. f[k].data = D(k)
      BY <2>4, <2>7, <3>2 DEF q
    <3>5. QED
      BY <2>3, <3>3, <3>4 DEF k
  <2>8. QED
    BY <2>6, <2>7
<1>6. Good(n)
  <2> HIDE DEF Good
  <2>1. \A k \in 0..n : k \in T
    <3> HIDE DEF T
    <3>1. QED
      BY <1>1, <1>4, <1>5, UpTo
  <2>2. n \in 0..n
    BY <1>1
  <2>3. QED
    BY <2>1, <2>2
<1>7. f[n] \in Parts
  BY <1>1, <1>2
<1>8. QED
  BY <1>2, <1>6, <1>7 DEF n

\* An allocation leaves a partition a partition.
LEMMA AllocType ==
  ASSUME NEW p \in Parts
  PROVE  Alloc(p) \in Parts
<1> DEFINE free == {c \in Clusters : p.fat[c] = Free}
           ahead == {c \in free : c >= p.hint}
           S == IF ahead # {} THEN ahead ELSE free
           c == Min(S)
           f == [p.fat EXCEPT ![c] = Eoc]
           m == [p EXCEPT !.fat[c] = Eoc, !.hint = c + 1, !.got = c]
<1>1. CASE free = {}
  <2>1. Alloc(p) = [p EXCEPT !.ok = FALSE]
    BY <1>1 DEF Alloc
  <2>2. QED
    BY <2>1 DEF Parts
<1>2. CASE free # {}
  <2>1. S \in SUBSET Nat /\ S # {} /\ S \subseteq free
    BY <1>2, CellFacts
  <2>2. Alloc(p) = Put(m, c, Blank)
    BY <1>2 DEF Alloc
  <2> HIDE DEF S
  <2>3. c \in S
    <3>1. \E x \in S : \A y \in S : x <= y
      BY <2>1, LeastNat
    <3>2. QED
      BY <3>1 DEF Min
  <2>4. c \in Clusters /\ c \in Nat /\ c \in Cells
    BY <2>1, <2>3, CellFacts
  <2> HIDE DEF free, c
  <2>5. f \in Fats
    BY <2>4, PartFacts DEF Fats
  <2>6. m = [fat |-> f, data |-> p.data, log |-> p.log, hint |-> c + 1, got |-> c, ok |-> p.ok]
    <3> HIDE DEF f, m
    <3>1. m = [p EXCEPT !.fat = f, !.hint = c + 1, !.got = c]
      BY DEF f, m
    <3>2. p = [fat |-> p.fat, data |-> p.data, log |-> p.log,
               hint |-> p.hint, got |-> p.got, ok |-> p.ok]
      BY PartFacts
    <3>3. QED
      BY <3>1, <3>2
  <2> HIDE DEF f, m
  <2>7. m \in Parts
    BY <2>4, <2>5, <2>6, PartFacts DEF Parts
  <2>8. QED
    BY <2>2, <2>7, BlankIs, PutType
<1>3. QED
  BY <1>1, <1>2

\* What Reserve works on.
Grows == [p : Parts, cs : Seq(Cells)]

\* One step of Reserve keeps partition and clusters what they are.
LEMMA GrowType ==
  ASSUME NEW g \in Grows
  PROVE  Grow(g) \in Grows
<1> DEFINE c == Last(g.cs)
           a == Alloc(g.p)
           p == [a EXCEPT !.fat[c] = a.got]
<1>1. g = [p |-> g.p, cs |-> g.cs] /\ g.p \in Parts /\ g.cs \in Seq(Cells) /\ a \in Parts
  BY AllocType DEF Grows
<1> HIDE DEF c, a
<1>2. p \in Parts
  <2> DEFINE f == [a.fat EXCEPT ![c] = a.got]
  <2>1. f \in Fats
    BY <1>1, PartFacts DEF Fats
  <2> HIDE DEF f
  <2>2. p = [a EXCEPT !.fat = f]
    BY DEF f
  <2>3. QED
    BY <1>1, <2>1, <2>2 DEF Parts
<1>3. ASSUME g.p.fat[c] \in Clusters PROVE [g EXCEPT !.cs = Append(@, g.p.fat[c])] \in Grows
  <2>1. Append(g.cs, g.p.fat[c]) \in Seq(Cells)
    BY <1>1, <1>3, CellFacts, AppendProperties
  <2>2. QED
    BY <1>1, <2>1 DEF Grows
<1>4. ASSUME a.ok PROVE [p |-> p, cs |-> Append(g.cs, a.got)] \in Grows
  <2>1. Append(g.cs, a.got) \in Seq(Cells)
    BY <1>1, PartFacts, AppendProperties
  <2>2. QED
    BY <1>2, <2>1 DEF Grows
<1>5. [g EXCEPT !.p = a] \in Grows
  BY <1>1 DEF Grows
<1>6. Grow(g) = IF ~g.p.ok THEN g
                ELSE IF g.p.fat[c] \in Clusters THEN [g EXCEPT !.cs = Append(@, g.p.fat[c])]
                ELSE IF a.ok THEN [p |-> p, cs |-> Append(g.cs, a.got)]
                ELSE [g EXCEPT !.p = a]
  BY DEF Grow, c, a
<1> HIDE DEF p
<1>7. a.ok \in BOOLEAN /\ g.p.ok \in BOOLEAN
  BY <1>1, PartFacts
<1>8. QED
  BY <1>3, <1>4, <1>5, <1>6, <1>7

\* f[k] is what Reserve has with k clusters.
Reserving(f, p, h, n) ==
  /\ f \in [1..n -> Grows] /\ f[1] = [p |-> p, cs |-> <<h>>]
  /\ \A k \in 2..n : f[k] = Grow(f[k - 1])

\* The recursion of Reserve.
LEMMA ReserveStep ==
  ASSUME NEW p \in Parts, NEW h \in Cells, NEW n \in Nat \ {0}
  PROVE  \E f : Reserving(f, p, h, n) /\ Reserve(p, h, n) = f[n]
<1> DEFINE Is(w) == w = [k \in 1..n |-> IF k = 1 THEN [p |-> p, cs |-> <<h>>] ELSE Grow(w[k - 1])]
           m == n - 1
           F == [q \in Grows |-> [k \in 1..m |-> Grow(q)]]
           v == [p |-> p, cs |-> <<h>>]
           grown == CHOOSE w : Is(w)
<1>1. m \in Nat
  OBVIOUS
<1>2. v \in Grows
  BY DEF Grows
<1>3. F \in [Grows -> [1..m -> Grows]]
  BY GrowType
<1> HIDE DEF F, m, v
<1>4. PICK g : Recursive(g, m, Grows, v, F)
  BY <1>1, <1>2, <1>3, RecursionExists
<1>5. g \in [0..m -> Grows] /\ g[0] = v /\ \A i \in 1..m : g[i] = F[g[i - 1]][i]
  BY <1>4 DEF Recursive
<1>6. \A i \in 1..m : g[i - 1] \in Grows /\ g[i] = Grow(g[i - 1])
  <2>1. SUFFICES ASSUME NEW i \in 1..m PROVE g[i - 1] \in Grows /\ g[i] = Grow(g[i - 1])
    OBVIOUS
  <2>2. i - 1 \in 0..m
    BY <1>1
  <2>3. g[i - 1] \in Grows /\ g[i] = F[g[i - 1]][i]
    BY <1>5, <2>2
  <2>4. QED
    BY <2>3 DEF F
<1> DEFINE f == [k \in 1..n |-> g[k - 1]]
<1>7. \A k \in 1..n : k - 1 \in 0..m
  BY DEF m
<1>8. f \in [1..n -> Grows] /\ f[1] = v
  BY <1>5, <1>7
<1>9. \A k \in 2..n : f[k] = Grow(f[k - 1])
  <2>1. SUFFICES ASSUME NEW k \in 2..n PROVE f[k] = Grow(f[k - 1])
    OBVIOUS
  <2>2. k \in 1..n /\ k - 1 \in 1..n /\ k - 1 \in 1..m
    BY DEF m
  <2>3. f[k] = g[k - 1] /\ f[k - 1] = g[(k - 1) - 1]
    BY <2>2
  <2> HIDE DEF f
  <2>4. g[k - 1] = Grow(g[(k - 1) - 1])
    BY <1>6, <2>2
  <2>5. QED
    BY <2>3, <2>4
<1>10. \A k \in 1..n : f[k] = IF k = 1 THEN v ELSE Grow(f[k - 1])
  <2> HIDE DEF f
  <2>1. \A k \in 1..n : k = 1 \/ k \in 2..n
    OBVIOUS
  <2>2. \A k \in 2..n : k # 1
    OBVIOUS
  <2>3. QED
    BY <1>8, <1>9, <2>1, <2>2
<1>11. Is(f)
  <2>1. f = [k \in 1..n |-> f[k]]
    OBVIOUS
  <2> HIDE DEF f
  <2>2. QED
    BY <1>10, <2>1 DEF v
<1>12. Is(grown)
  <2> HIDE DEF Is, f
  <2>1. QED
    BY <1>11
<1>13. Reserve(p, h, n) = grown[n]
  BY DEF Reserve
<1> HIDE DEF grown, f
<1>14. grown[1] = v /\ \A k \in 2..n : grown[k] = Grow(grown[k - 1])
  <2>1. \A k \in 1..n : grown[k] = IF k = 1 THEN v ELSE Grow(grown[k - 1])
    BY <1>12 DEF v
  <2>2. 1 \in 1..n /\ \A k \in 2..n : k \in 1..n /\ k # 1
    OBVIOUS
  <2>3. QED
    BY <2>1, <2>2
<1> HIDE DEF Is
<1> DEFINE T == {k \in 0..m : grown[k + 1] = f[k + 1]}
<1>15. \A k \in 0..m : k \in T
  <2>1. 0 \in T
    BY <1>1, <1>8, <1>14
  <2>2. \A i \in 0..(m - 1) : i \in T => i + 1 \in T
    <3> SUFFICES ASSUME NEW i \in 0..(m - 1), i \in T PROVE i + 1 \in T
      OBVIOUS
    <3>1. (i + 1) + 1 \in 2..n /\ ((i + 1) + 1) - 1 = i + 1 /\ i + 1 \in 0..m
      BY <1>1 DEF m
    <3>2. grown[(i + 1) + 1] = Grow(grown[i + 1]) /\ f[(i + 1) + 1] = Grow(f[i + 1])
      BY <1>9, <1>14, <3>1
    <3>3. QED
      BY <3>1, <3>2
  <2> HIDE DEF T
  <2>3. QED
    BY <1>1, <2>1, <2>2, UpTo
<1>16. grown[n] = f[n]
  <2>1. m \in 0..m /\ m + 1 = n
    BY <1>1 DEF m
  <2>2. QED
    BY <1>15, <2>1
<1>17. QED
  BY <1>8, <1>9, <1>13, <1>16 DEF Reserving, v

\* Run t is run u and clusters that were free in fat.
Extends(t, u, fat) ==
  /\ Len(u) <= Len(t) /\ \A i \in 1..Len(u) : t[i] = u[i]
  /\ \A i \in (Len(u) + 1)..Len(t) : t[i] \in Clusters /\ fat[t[i]] = Free

\* g is what Reserve has with k clusters for run h of p: its clusters begin
\* run t, which is longer than it was only where there was no more of it.
Grown(g, p, r, h, k, t) ==
  /\ t \in Seq(Cells) /\ Heap(g.p.fat, [r EXCEPT ![h] = t])
  /\ Extends(t, r[h], p.fat)
  /\ k <= Len(t) /\ (Len(t) > Len(r[h]) => Len(t) = k)
  /\ g.cs = SubSeq(t, 1, k)
  /\ \A c \in Clusters : p.fat[c] # Free => g.p.data[c] = p.data[c]
  /\ k <= Len(r[h]) => g.p = p

\* Growing a run takes free clusters only.
LEMMA ExtendsFree ==
  ASSUME NEW fat, NEW f2, NEW r, NEW h \in DOMAIN r, NEW t,
         Heap(fat, r), t \in Seq(Cells), Heap(f2, [r EXCEPT ![h] = t]), Extends(t, r[h], fat),
         NEW c \in Clusters, f2[c] = Free
  PROVE  fat[c] = Free
<1> DEFINE q == [r EXCEPT ![h] = t]
<1>1. q[h] = t /\ DOMAIN q = DOMAIN r /\ \A g \in DOMAIN r : g # h => q[g] = r[g]
  OBVIOUS
<1> HIDE DEF q
<1>2. Heap(f2, q)
  BY DEF q
<1>3. \A g \in DOMAIN r : \A i \in 1..Len(q[g]) : q[g][i] # c
  BY <1>1, <1>2, HeapFree
<1>4. ASSUME NEW g \in DOMAIN r, NEW i \in 1..Len(r[g]) PROVE r[g][i] # c
  <2>1. CASE g = h
    <3>1. Len(t) \in Nat /\ Len(r[h]) \in Nat /\ Len(r[h]) <= Len(t)
      BY LenProperties, HeapFacts DEF Extends
    <3>2. i \in 1..Len(t) /\ t[i] = r[h][i]
      BY <2>1, <3>1 DEF Extends
    <3>3. QED
      BY <1>1, <1>3, <2>1, <3>2
  <2>2. CASE g # h
    BY <1>1, <1>3, <2>2
  <2>3. QED
    BY <2>1, <2>2
<1>5. QED
  BY <1>4, HeapFree

\* A part of a run with the cluster that follows it is a part one longer.
LEMMA PartNext ==
  ASSUME NEW t \in Seq(Cells), NEW k \in 1..(Len(t) - 1)
  PROVE  Append(SubSeq(t, 1, k), t[k + 1]) = SubSeq(t, 1, k + 1)
<1>1. Len(t) \in Nat /\ t \in [1..Len(t) -> Cells]
  BY LenProperties
<1>2. /\ 1 \in 1..(Len(t) + 1) /\ k \in (1 - 1)..Len(t) /\ k + 1 \in (1 - 1)..Len(t)
      /\ k + 1 \in 1..Len(t) /\ k \in Nat
  BY <1>1
<1> DEFINE a == SubSeq(t, 1, k)
           b == SubSeq(t, 1, k + 1)
           x == t[k + 1]
<1>3. a \in Seq(Cells) /\ Len(a) = k - 1 + 1 /\ \A i \in 1..(k - 1 + 1) : a[i] = t[1 + i - 1]
  BY <1>2, PartIs
<1>4. b \in Seq(Cells) /\ Len(b) = (k + 1) - 1 + 1
      /\ \A i \in 1..((k + 1) - 1 + 1) : b[i] = t[1 + i - 1]
  BY <1>2, PartIs
<1>5. x \in Cells
  BY <1>1, <1>2
<1> HIDE DEF a, b, x
<1>6. /\ Append(a, x) \in Seq(Cells) /\ Len(Append(a, x)) = Len(a) + 1
      /\ Append(a, x)[Len(a) + 1] = x /\ \A i \in 1..Len(a) : Append(a, x)[i] = a[i]
  BY <1>3, <1>5, AppendProperties
<1>7. Len(a) = k /\ Len(b) = k + 1 /\ (\A i \in 1..k : a[i] = t[i])
      /\ (\A i \in 1..(k + 1) : b[i] = t[i])
  BY <1>2, <1>3, <1>4
<1>8. \A i \in 1..(k + 1) : Append(a, x)[i] = b[i]
  <2>1. SUFFICES ASSUME NEW i \in 1..(k + 1) PROVE Append(a, x)[i] = b[i]
    OBVIOUS
  <2>2. CASE i = k + 1
    BY <1>2, <1>6, <1>7, <2>2 DEF x
  <2>3. CASE i # k + 1
    <3>1. i \in 1..k
      BY <1>2, <2>3
    <3>2. QED
      BY <1>6, <1>7, <3>1
  <2>4. QED
    BY <2>2, <2>3
<1>9. Append(a, x) = b
  BY <1>4, <1>6, <1>7, <1>8, SeqEqual
<1>10. QED
  BY <1>9 DEF a, b, x

\* One step of Reserve makes the run a cluster longer, or fails.
LEMMA GrowIs ==
  ASSUME NEW p \in Parts, NEW r, Heap(p.fat, r), NEW h \in DOMAIN r,
         NEW G, NEW F, NEW d, Open(G, F), \A c \in Clusters : p.fat[c] = Free => c \in F,
         NEW g \in Grows, NEW k \in Nat \ {0},
         Trail(G, d, g.p.log, g.p.data), g.p.ok => \E t : Grown(g, p, r, h, k, t)
  PROVE  /\ Trail(G, d, Grow(g).p.log, Grow(g).p.data)
         /\ Grow(g).p.ok => \E t : Grown(Grow(g), p, r, h, k + 1, t)
         /\ g.p.ok /\ k + 1 <= Len(r[h]) => Grow(g).p.ok
<1>1. CASE ~g.p.ok
  BY <1>1 DEF Grow
<1>2. CASE g.p.ok
  <2>1. PICK t : Grown(g, p, r, h, k, t)
    BY <1>2
  <2> DEFINE q == [r EXCEPT ![h] = t]
             c == Last(g.cs)
             a == Alloc(g.p)
             u == r[h]
  <2>2. /\ t \in Seq(Cells) /\ Heap(g.p.fat, q) /\ Extends(t, u, p.fat)
        /\ k <= Len(t) /\ (Len(t) > Len(u) => Len(t) = k)
        /\ g.cs = SubSeq(t, 1, k)
        /\ \A x \in Clusters : p.fat[x] # Free => g.p.data[x] = p.data[x]
        /\ k <= Len(u) => g.p = p
    BY <2>1 DEF Grown
  <2>3. q[h] = t /\ DOMAIN q = DOMAIN r /\ h \in DOMAIN q
    OBVIOUS
  <2>4. Len(t) \in Nat \ {0} /\ Len(u) \in Nat \ {0} /\ t \in [1..Len(t) -> Cells] /\ k \in 1..Len(t)
    <3>1. Len(t) \in Nat \ {0} /\ t \in [1..Len(t) -> Cells]
      BY <2>2, <2>3, HeapFacts
    <3>2. Len(u) \in Nat \ {0}
      BY HeapFacts
    <3>3. QED
      BY <2>2, <3>1, <3>2
  <2>5. c = t[k]
    <3>1. 1 \in 1..(Len(t) + 1) /\ k \in (1 - 1)..Len(t)
      BY <2>4
    <3>2. Len(g.cs) = k - 1 + 1 /\ \A i \in 1..(k - 1 + 1) : g.cs[i] = t[1 + i - 1]
      BY <2>2, <3>1, PartIs
    <3>3. Len(g.cs) = k /\ g.cs[k] = t[k]
      BY <3>2
    <3>4. QED
      BY <3>3 DEF Last
  <2>6. g.p \in Parts /\ g = [p |-> g.p, cs |-> g.cs]
    BY DEF Grows
  <2> HIDE DEF q, c, a, u
  <2>7. CASE k < Len(t)
    <3>1. k \in 1..(Len(t) - 1) /\ k + 1 \in 2..Len(t)
      BY <2>4, <2>7
    <3>2. g.p.fat[c] = t[k + 1] /\ t[k + 1] \in Clusters
      BY <2>2, <2>3, <2>5, <3>1, HeapFacts
    <3>3. Grow(g) = [g EXCEPT !.cs = Append(@, t[k + 1])]
      BY <1>2, <3>2 DEF Grow, c
    <3>4. Grow(g).p = g.p /\ Grow(g).cs = Append(g.cs, t[k + 1])
      BY <2>6, <3>3
    <3>5. Grow(g).cs = SubSeq(t, 1, k + 1)
      BY <2>2, <3>1, <3>4, PartNext
    <3>6. Len(t) = Len(u) /\ k + 1 <= Len(t) /\ k <= Len(u)
      <4>1. Len(u) <= Len(t)
        BY <2>2 DEF Extends
      <4>2. k <= Len(t) /\ (Len(t) > Len(u) => Len(t) = k) /\ k \in Nat
        BY <2>2
      <4>3. Len(u) \in Nat /\ Len(t) \in Nat
        BY <2>4
      <4>4. QED
        BY <2>7, <4>1, <4>2, <4>3
    <3>7. Grown(Grow(g), p, r, h, k + 1, t)
      BY <2>2, <3>4, <3>5, <3>6 DEF Grown, q, u
    <3>8. QED
      BY <1>2, <3>4, <3>7
  <2>8. CASE ~(k < Len(t))
    <3>1. k = Len(t) /\ k >= Len(u)
      <4>1. Len(u) <= Len(t)
        BY <2>2 DEF Extends
      <4>2. QED
        BY <2>2, <2>4, <2>8, <4>1
    <3>2. g.p.fat[c] = Eoc /\ Eoc \notin Clusters
      <4>1. c = q[h][Len(q[h])]
        BY <2>3, <2>5, <3>1
      <4>2. g.p.fat[q[h][Len(q[h])]] = Eoc
        BY <2>2, <2>3, HeapFacts
      <4>3. QED
        BY <4>1, <4>2, CellFacts
    <3>3. Grow(g) = IF a.ok THEN [p |-> [a EXCEPT !.fat[c] = a.got], cs |-> Append(g.cs, a.got)]
                    ELSE [g EXCEPT !.p = a]
      BY <1>2, <3>2 DEF Grow, c, a
    <3>4. ASSUME NEW x \in Clusters, g.p.fat[x] = Free PROVE x \in F /\ p.fat[x] = Free
      <4>1. p.fat[x] = Free
        BY <2>2, <3>4, ExtendsFree DEF q, u
      <4>2. QED
        BY <4>1
    <3>5. /\ a \in Parts
          /\ Trail(G, d, a.log, a.data)
          /\ a.ok =>
               /\ a.got \in Clusters /\ g.p.fat[a.got] = Free
               /\ a.fat = [g.p.fat EXCEPT ![a.got] = Eoc]
               /\ a.data = [g.p.data EXCEPT ![a.got] = Blank]
      BY <1>2, <2>6, <3>4, AllocIs DEF a
    <3>50. ~(k + 1 <= Len(r[h]))
      BY <2>4, <3>1 DEF u
    <3>6. CASE ~a.ok
      <4>1. Grow(g).p = a
        BY <2>6, <3>3, <3>6
      <4>2. QED
        BY <3>5, <3>50, <3>6, <4>1
    <3>7. CASE a.ok
      <4> DEFINE b == a.got
                 s == Append(t, b)
                 f == [g.p.fat EXCEPT ![b] = Eoc, ![c] = b]
      <4>1. /\ b \in Clusters /\ g.p.fat[b] = Free /\ p.fat[b] = Free
            /\ a.fat = [g.p.fat EXCEPT ![b] = Eoc]
            /\ a.data = [g.p.data EXCEPT ![b] = Blank]
        BY <3>4, <3>5, <3>7
      <4>2. Grow(g) = [p |-> [a EXCEPT !.fat[c] = b], cs |-> Append(g.cs, b)]
        BY <3>3, <3>7
      <4>3. [a EXCEPT !.fat[c] = b] = [a EXCEPT !.fat = f]
        BY <4>1
      <4>4. /\ Grow(g).p.fat = f /\ Grow(g).p.data = a.data /\ Grow(g).p.log = a.log
            /\ Grow(g).cs = Append(g.cs, b)
        <5> HIDE DEF f, b
        <5>1. Grow(g).p = [a EXCEPT !.fat = f]
          BY <4>2, <4>3
        <5>2. a = [fat |-> a.fat, data |-> a.data, log |-> a.log,
                   hint |-> a.hint, got |-> a.got, ok |-> a.ok]
          BY <3>5, PartFacts
        <5>3. QED
          BY <4>2, <5>1, <5>2
      <4> HIDE DEF b
      <4>5. Heap(f, [q EXCEPT ![h] = Append(@, b)])
        <5>1. c = q[h][Len(q[h])]
          BY <2>3, <2>5, <3>1
        <5> HIDE DEF f
        <5>2. f = [g.p.fat EXCEPT ![b] = Eoc, ![q[h][Len(q[h])]] = b]
          BY <5>1 DEF f
        <5>3. QED
          BY <2>2, <2>3, <4>1, <5>2, HeapLink
      <4>6. [q EXCEPT ![h] = Append(@, b)] = [r EXCEPT ![h] = s]
        BY DEF q
      <4>7. /\ s \in Seq(Cells) /\ Len(s) = k + 1 /\ s[k + 1] = b /\ \A i \in 1..k : s[i] = t[i]
        <5>1. b \in Cells
          BY <4>1, CellFacts
        <5>2. QED
          BY <2>2, <3>1, <5>1, AppendProperties
      <4> HIDE DEF s, f
      <4>8. Extends(s, u, p.fat)
        <5>1. Len(u) <= k + 1 /\ (\A i \in 1..Len(u) : i \in 1..k)
              /\ \A i \in (Len(u) + 1)..(k + 1) : i = k + 1 \/ (i \in 1..k /\ i \in (Len(u) + 1)..Len(t))
          BY <2>4, <3>1
        <5>2. \A i \in 1..Len(u) : s[i] = u[i]
          BY <2>2, <4>7, <5>1 DEF Extends
        <5>3. \A i \in (Len(u) + 1)..(k + 1) : s[i] \in Clusters /\ p.fat[s[i]] = Free
          BY <2>2, <4>1, <4>7, <5>1 DEF Extends
        <5>4. QED
          BY <4>7, <5>1, <5>2, <5>3 DEF Extends
      <4>9. Grow(g).cs = SubSeq(s, 1, k + 1)
        <5>1. g.cs = t
          BY <2>2, <3>1, SubSeqFull
        <5>2. s = SubSeq(s, 1, k + 1)
          BY <4>7, SubSeqFull
        <5>3. QED
          BY <4>4, <5>1, <5>2 DEF s
      <4>10. \A x \in Clusters : p.fat[x] # Free => Grow(g).p.data[x] = p.data[x]
        <5>1. g.p.data \in Datas
          BY <2>6, PartFacts
        <5>2. \A x \in Clusters : x # b => a.data[x] = g.p.data[x]
          BY <4>1, <5>1 DEF Datas
        <5>3. QED
          BY <2>2, <4>1, <4>4, <5>2
      <4>11. k + 1 <= Len(s) /\ Len(s) = k + 1 /\ ~(k + 1 <= Len(u))
        BY <2>4, <3>1, <4>7
      <4>12. Heap(Grow(g).p.fat, [r EXCEPT ![h] = s])
        BY <4>4, <4>5, <4>6
      <4>13. Grown(Grow(g), p, r, h, k + 1, s)
        BY <4>7, <4>8, <4>9, <4>10, <4>11, <4>12 DEF Grown, u
      <4>14. QED
        BY <3>5, <3>50, <4>4, <4>13
    <3>8. QED
      BY <3>6, <3>7
  <2>9. QED
    BY <2>7, <2>8
<1>3. QED
  BY <1>1, <1>2

\* Reserve grows the run at its start to n clusters, or fails.
LEMMA ReserveIs ==
  ASSUME NEW p \in Parts, p.ok, NEW r, Heap(p.fat, r), NEW h \in DOMAIN r,
         NEW G, NEW F, NEW d, Open(G, F), \A c \in Clusters : p.fat[c] = Free => c \in F,
         Trail(G, d, p.log, p.data), NEW n \in Nat \ {0}
  PROVE  /\ Reserve(p, h, n) \in Grows
         /\ Trail(G, d, Reserve(p, h, n).p.log, Reserve(p, h, n).p.data)
         /\ Reserve(p, h, n).p.ok => \E t : Grown(Reserve(p, h, n), p, r, h, n, t)
         /\ n <= Len(r[h]) => Reserve(p, h, n).p.ok
<1> DEFINE Good(g, k) == /\ Trail(G, d, g.p.log, g.p.data)
                         /\ g.p.ok => \E t : Grown(g, p, r, h, k, t)
                         /\ k <= Len(r[h]) => g.p.ok
<1>1. h \in Cells /\ r[h] \in Seq(Cells) /\ Len(r[h]) \in Nat \ {0} /\ r[h][1] = h
      /\ r[h] \in [1..Len(r[h]) -> Cells]
  BY HeapFacts
<1>2. PICK f : Reserving(f, p, h, n) /\ Reserve(p, h, n) = f[n]
  BY <1>1, ReserveStep
<1>3. /\ f \in [1..n -> Grows] /\ f[1] = [p |-> p, cs |-> <<h>>]
      /\ \A k \in 2..n : f[k] = Grow(f[k - 1])
  BY <1>2 DEF Reserving
<1>4. Good(f[1], 1)
  <2>1. f[1].p = p /\ f[1].cs = <<h>>
    BY <1>3
  <2>2. SubSeq(r[h], 1, 1) = <<h>>
    <3>1. 1 \in 1..(Len(r[h]) + 1) /\ 1 \in (1 - 1)..Len(r[h])
      BY <1>1
    <3>2. /\ SubSeq(r[h], 1, 1) \in Seq(Cells) /\ Len(SubSeq(r[h], 1, 1)) = 1 - 1 + 1
          /\ \A i \in 1..(1 - 1 + 1) : SubSeq(r[h], 1, 1)[i] = r[h][1 + i - 1]
      BY <1>1, <3>1, PartIs
    <3> DEFINE s == SubSeq(r[h], 1, 1)
    <3>3. s \in Seq(Cells) /\ Len(s) = 1 /\ s[1] = h
      BY <1>1, <3>2
    <3> HIDE DEF s
    <3>4. s = <<h>>
      BY <3>3
    <3>5. QED
      BY <3>4 DEF s
  <2>3. [r EXCEPT ![h] = r[h]] = r
    BY DEF Heap
  <2>4. Extends(r[h], r[h], p.fat)
    <3>1. \A i \in (Len(r[h]) + 1)..Len(r[h]) : FALSE
      BY <1>1
    <3>2. Len(r[h]) <= Len(r[h])
      BY <1>1
    <3>3. QED
      BY <3>1, <3>2 DEF Extends
  <2>5. 1 <= Len(r[h]) /\ ~(Len(r[h]) > Len(r[h]))
    BY <1>1
  <2>6. Grown(f[1], p, r, h, 1, r[h])
    BY <1>1, <2>1, <2>2, <2>3, <2>4, <2>5 DEF Grown
  <2>7. QED
    BY <2>1, <2>6
<1>5. ASSUME NEW k \in 1..(n - 1), Good(f[k], k) PROVE Good(f[k + 1], k + 1)
  <2>1. k + 1 \in 2..n /\ (k + 1) - 1 = k /\ k \in 1..n /\ k \in Nat \ {0}
    OBVIOUS
  <2>2. f[k + 1] = Grow(f[k]) /\ f[k] \in Grows
    BY <1>3, <2>1
  <2> DEFINE g == f[k]
  <2>3. /\ g \in Grows /\ Trail(G, d, g.p.log, g.p.data)
        /\ g.p.ok => \E t : Grown(g, p, r, h, k, t)
        /\ k <= Len(r[h]) => g.p.ok
    BY <1>5, <2>2
  <2> HIDE DEF g
  <2>4. /\ Trail(G, d, Grow(g).p.log, Grow(g).p.data)
        /\ Grow(g).p.ok => \E t : Grown(Grow(g), p, r, h, k + 1, t)
        /\ g.p.ok /\ k + 1 <= Len(r[h]) => Grow(g).p.ok
    BY <2>1, <2>3, GrowIs
  <2>40. k + 1 <= Len(r[h]) => k <= Len(r[h])
    BY <1>1, <2>1
  <2>5. QED
    BY <2>2, <2>3, <2>4, <2>40 DEF g
<1> HIDE DEF Good
<1> DEFINE m == n - 1
           T == {k \in 0..m : Good(f[k + 1], k + 1)}
<1>6. n \in 1..n /\ Good(f[n], n)
  <2>1. m \in Nat /\ m \in 0..m /\ m + 1 = n
    OBVIOUS
  <2>2. 0 \in T
    BY <1>4, <2>1
  <2>3. \A i \in 0..(m - 1) : i \in T => i + 1 \in T
    <3> SUFFICES ASSUME NEW i \in 0..(m - 1), i \in T PROVE i + 1 \in T
      OBVIOUS
    <3>1. i + 1 \in 1..(n - 1) /\ i + 1 \in 0..m
      OBVIOUS
    <3>2. QED
      BY <1>5, <3>1
  <2> HIDE DEF T, m
  <2>4. \A i \in 0..m : i \in T
    BY <2>1, <2>2, <2>3, UpTo
  <2>5. Good(f[n], n)
    BY <2>1, <2>4 DEF T
  <2>6. QED
    BY <2>5
<1>7. QED
  BY <1>2, <1>3, <1>6 DEF Good

\* Cutting a run after cell n leaves its first n clusters and frees the others.
LEMMA CutAfterIs ==
  ASSUME NEW p \in Parts, NEW r, Heap(p.fat, r), NEW h \in DOMAIN r, NEW n \in 1..Len(r[h])
  PROVE  /\ CutAfter(p, r[h][n]) \in Parts
         /\ Heap(CutAfter(p, r[h][n]).fat, [r EXCEPT ![h] = SubSeq(r[h], 1, n)])
         /\ CutAfter(p, r[h][n]).data = p.data /\ CutAfter(p, r[h][n]).log = p.log
         /\ CutAfter(p, r[h][n]).ok = p.ok /\ CutAfter(p, r[h][n]).got = p.got
         /\ n = Len(r[h]) => CutAfter(p, r[h][n]) = p
<1> DEFINE c == r[h][n]
           f == [FreeChain(p.fat, p.fat[c]) EXCEPT ![c] = Eoc]
           q == [r EXCEPT ![h] = SubSeq(r[h], 1, n)]
<1>1. Heap(f, q)
  BY HeapCut
<1>2. f \in Fats
  <2> HIDE DEF f, q
  <2>1. QED
    BY <1>1 DEF Heap
<1>3. CutAfter(p, c) = [p EXCEPT !.fat = f]
  BY DEF CutAfter
<1>4. n = Len(r[h]) => f = p.fat
  <2> SUFFICES ASSUME n = Len(r[h]) PROVE f = p.fat
    OBVIOUS
  <2>1. p.fat \in Fats /\ p.fat[c] = Eoc /\ c \in Cells
    BY HeapFacts
  <2>2. Chain(p.fat, p.fat[c]) = <<>>
    BY <2>1, CellFacts, NoChain
  <2>3. \A x : x \notin ToSet(<<>>)
    BY DEF ToSet
  <2>4. FreeChain(p.fat, p.fat[c]) = p.fat
    BY <2>1, <2>2, <2>3 DEF FreeChain, Fats
  <2> HIDE DEF c
  <2>5. QED
    BY <2>1, <2>4 DEF Fats
<1> HIDE DEF c, f, q
<1>5. p = [fat |-> p.fat, data |-> p.data, log |-> p.log, hint |-> p.hint, got |-> p.got, ok |-> p.ok]
  BY PartFacts
<1>6. CutAfter(p, c) = [fat |-> f, data |-> p.data, log |-> p.log,
                        hint |-> p.hint, got |-> p.got, ok |-> p.ok]
  BY <1>3, <1>5
<1>7. CutAfter(p, c) \in Parts
  BY <1>2, <1>6, PartFacts DEF Parts
<1>8. QED
  BY <1>1, <1>4, <1>5, <1>6, <1>7 DEF c, q

\* p works on the heap r; what it wrote so far, and whatever it writes to the
\* clusters F, keeps to G, and all free clusters are in F.
Ready(p, r, G, F, d) ==
  /\ p \in Parts /\ p.ok /\ Heap(p.fat, r) /\ Open(G, F)
  /\ \A c \in Clusters : p.fat[c] = Free => c \in F
  /\ Trail(G, d, p.log, p.data)

\* So does the data after every write of a sequence of blocks.
Passing(G, data, cs, vals) ==
  \A k \in 0..Len(vals) : After(data, cs, vals, k) \in G

\* The clusters of a run are in F.
RunIn(u, F) == \A i \in 1..Len(u) : u[i] \in Clusters => u[i] \in F

\* w is p with vals in run h, which is now s.
Filled(w, p, r, F, h, vals, s) ==
  /\ Heap(w.fat, [r EXCEPT ![h] = s]) /\ Len(s) = Len(vals)
  /\ \A i \in 1..Len(s) : \/ \E j \in 1..Len(r[h]) : s[i] = r[h][j]
                          \/ s[i] \in Clusters /\ p.fat[s[i]] = Free
  /\ \A i \in 1..Len(s) : s[i] \in Clusters => w.data[s[i]] = vals[i]
  /\ \A c \in Clusters : p.fat[c] # Free /\ (\A j \in 1..Len(r[h]) : r[h][j] # c)
                           => w.data[c] = p.data[c]
  /\ \A c \in Clusters : w.fat[c] = Free => c \in F

\* Blocks written to a run that has as many clusters.
LEMMA WriteSameIs ==
  ASSUME NEW p, NEW r, NEW G, NEW F, NEW d, Ready(p, r, G, F, d), NEW h \in DOMAIN r,
         NEW vals \in Seq(Blocks), Len(vals) = Len(r[h]), Passing(G, p.data, r[h], vals)
  PROVE  /\ WriteChain(p, h, vals) \in Parts
         /\ Trail(G, d, WriteChain(p, h, vals).log, WriteChain(p, h, vals).data)
         /\ WriteChain(p, h, vals).fat = p.fat /\ WriteChain(p, h, vals).got = p.got
         /\ WriteChain(p, h, vals).ok
         /\ WriteChain(p, h, vals).data = After(p.data, r[h], vals, Len(vals))
<1>0. /\ p \in Parts /\ p.ok /\ Heap(p.fat, r) /\ Open(G, F)
      /\ \A c \in Clusters : p.fat[c] = Free => c \in F
      /\ Trail(G, d, p.log, p.data)
      /\ \A k \in 0..Len(vals) : After(p.data, r[h], vals, k) \in G
  BY DEF Ready, Passing
<1> USE <1>0
<1> DEFINE n == Len(vals)
           g == Reserve(p, h, n)
           u == r[h]
<1>1. /\ u \in Seq(Cells) /\ Len(u) \in Nat \ {0} /\ n = Len(u) /\ n \in Nat \ {0}
      /\ \A i, j \in 1..Len(u) : u[i] = u[j] => i = j
  BY HeapFacts
<1>2. g \in Grows /\ g.p.ok /\ \E t : Grown(g, p, r, h, n, t)
  <2>1. n <= Len(r[h])
    BY <1>1
  <2>2. g \in Grows /\ g.p.ok
    BY <1>1, <2>1, ReserveIs
  <2>3. g.p.ok => \E t : Grown(g, p, r, h, n, t)
    BY <1>1, ReserveIs
  <2>4. QED
    BY <2>2, <2>3
<1> HIDE DEF g
<1>3. PICK t : Grown(g, p, r, h, n, t)
  BY <1>2
<1>4. t \in Seq(Cells) /\ Extends(t, u, p.fat) /\ (Len(t) > Len(u) => Len(t) = n)
      /\ n <= Len(t) /\ g.cs = SubSeq(t, 1, n) /\ (n <= Len(u) => g.p = p)
  BY <1>3 DEF Grown
<1>5. Len(t) = Len(u) /\ \A i \in 1..Len(u) : t[i] = u[i]
  <2>1. Len(t) \in Nat /\ Len(u) <= Len(t)
    BY <1>4, LenProperties DEF Extends
  <2>2. (Len(t) > Len(u) => Len(t) = n) /\ n = Len(u) /\ Len(u) \in Nat
    BY <1>1, <1>4
  <2>3. QED
    BY <1>4, <2>1, <2>2 DEF Extends
<1>6. t = u
  BY <1>1, <1>4, <1>5, SeqEqual
<1>7. g.p = p /\ g.cs = u
  <2>1. SubSeq(t, 1, Len(t)) = t
    BY <1>4, SubSeqFull
  <2>2. n <= Len(u)
    BY <1>1
  <2>3. QED
    BY <1>1, <1>4, <1>6, <2>1, <2>2
<1>8. CutAfter(p, Last(u)) = p
  <2>1. Len(u) \in 1..Len(u)
    BY <1>1
  <2>2. CutAfter(p, r[h][Len(r[h])]) = p
    BY <2>1, CutAfterIs
  <2>3. QED
    BY <2>2 DEF Last
<1>9. WriteChain(p, h, vals) = PutAll(p, u, vals)
  BY <1>7, <1>8 DEF WriteChain, Fill, g
<1>10. /\ PutAll(p, u, vals) \in Parts
       /\ PutAll(p, u, vals).fat = p.fat
       /\ PutAll(p, u, vals).got = p.got /\ PutAll(p, u, vals).ok = p.ok
       /\ PutAll(p, u, vals).data = After(p.data, u, vals, Len(vals))
       /\ Trail(G, d, PutAll(p, u, vals).log, PutAll(p, u, vals).data)
  BY <1>1, PutAllIs
<1>11. QED
  BY <1>9, <1>10

\* Blocks written to a run of any length, if there is room.
LEMMA WriteChainIs ==
  ASSUME NEW p, NEW r, NEW G, NEW F, NEW d, Ready(p, r, G, F, d), NEW h \in DOMAIN r,
         RunIn(r[h], F), NEW vals \in Seq(Blocks), Len(vals) > 0
  PROVE  LET w == WriteChain(p, h, vals) IN
         /\ w \in Parts /\ Trail(G, d, w.log, w.data)
         /\ w.ok => \E s \in Seq(Cells) : Filled(w, p, r, F, h, vals, s)
<1>0. /\ p \in Parts /\ p.ok /\ Heap(p.fat, r) /\ Open(G, F)
      /\ \A c \in Clusters : p.fat[c] = Free => c \in F
      /\ Trail(G, d, p.log, p.data)
      /\ \A i \in 1..Len(r[h]) : r[h][i] \in Clusters => r[h][i] \in F
  BY DEF Ready, RunIn
<1> USE <1>0
<1> DEFINE n == Len(vals)
           g == Reserve(p, h, n)
           u == r[h]
           w == WriteChain(p, h, vals)
<1>1. /\ u \in Seq(Cells) /\ Len(u) \in Nat \ {0} /\ n \in Nat \ {0}
      /\ \A i, j \in 1..Len(u) : u[i] = u[j] => i = j
  BY HeapFacts, LenProperties
<1>2. g \in Grows /\ Trail(G, d, g.p.log, g.p.data) /\ (g.p.ok => \E t : Grown(g, p, r, h, n, t))
  BY <1>1, ReserveIs
<1>3. g.p \in Parts /\ g.p.ok \in BOOLEAN /\ g.p.data \in Datas
  <2> HIDE DEF g
  <2>1. g.p \in Parts
    BY <1>2 DEF Grows
  <2>2. QED
    BY <2>1, PartFacts
<1>4. w = IF ~g.p.ok THEN g.p ELSE PutAll(CutAfter(g.p, Last(g.cs)), g.cs, vals)
  BY DEF WriteChain, Fill
<1> HIDE DEF g, w, u, n
<1>5. CASE ~g.p.ok
  BY <1>2, <1>3, <1>4, <1>5 DEF w
<1>6. CASE g.p.ok
  <2>1. PICK t : Grown(g, p, r, h, n, t)
    BY <1>2, <1>6
  <2> DEFINE q == [r EXCEPT ![h] = t]
             s == SubSeq(t, 1, n)
             c == t[n]
             p2 == CutAfter(g.p, c)
             q2 == [r EXCEPT ![h] = s]
  <2>2. /\ t \in Seq(Cells) /\ Heap(g.p.fat, q) /\ Extends(t, u, p.fat)
        /\ n <= Len(t) /\ g.cs = s
        /\ \A x \in Clusters : p.fat[x] # Free => g.p.data[x] = p.data[x]
    BY <2>1 DEF Grown, u
  <2>3. q[h] = t /\ DOMAIN q = DOMAIN r /\ h \in DOMAIN q
        /\ [q EXCEPT ![h] = SubSeq(q[h], 1, n)] = q2
    OBVIOUS
  <2>4. Len(t) \in Nat /\ t \in [1..Len(t) -> Cells] /\ n \in 1..Len(t) /\ n \in 1..Len(q[h])
    <3>1. Len(t) \in Nat /\ t \in [1..Len(t) -> Cells]
      BY <2>2, LenProperties
    <3>2. QED
      BY <1>1, <2>2, <2>3, <3>1
  <2>5. s \in Seq(Cells) /\ Len(s) = n /\ \A i \in 1..n : s[i] = t[i]
    <3>1. 1 \in 1..(Len(t) + 1) /\ n \in (1 - 1)..Len(t)
      BY <2>4
    <3>2. s \in Seq(Cells) /\ Len(s) = n - 1 + 1 /\ \A i \in 1..(n - 1 + 1) : s[i] = t[1 + i - 1]
      BY <2>2, <3>1, PartIs
    <3> HIDE DEF s
    <3>3. QED
      BY <1>1, <3>2
  <2>6. Last(g.cs) = c
    <3> HIDE DEF s
    <3>1. s[Len(s)] = t[n]
      BY <1>1, <2>5
    <3>2. QED
      BY <2>2, <3>1 DEF Last
  <2>7. /\ p2 \in Parts /\ Heap(p2.fat, q2)
        /\ p2.data = g.p.data /\ p2.log = g.p.log /\ p2.ok = g.p.ok
    <3> HIDE DEF q2
    <3>1. c = q[h][n]
      BY <2>3
    <3> HIDE DEF q, c, p2
    <3>2. /\ CutAfter(g.p, q[h][n]) \in Parts
          /\ Heap(CutAfter(g.p, q[h][n]).fat, [q EXCEPT ![h] = SubSeq(q[h], 1, n)])
          /\ CutAfter(g.p, q[h][n]).data = g.p.data /\ CutAfter(g.p, q[h][n]).log = g.p.log
          /\ CutAfter(g.p, q[h][n]).ok = g.p.ok
      <4> DEFINE v == g.p
      <4>1. v \in Parts /\ Heap(v.fat, q) /\ h \in DOMAIN q /\ n \in 1..Len(q[h])
        BY <1>3, <2>2, <2>3, <2>4
      <4> HIDE DEF v, s, q2
      <4>2. /\ CutAfter(v, q[h][n]) \in Parts
            /\ Heap(CutAfter(v, q[h][n]).fat, [q EXCEPT ![h] = SubSeq(q[h], 1, n)])
            /\ CutAfter(v, q[h][n]).data = v.data /\ CutAfter(v, q[h][n]).log = v.log
            /\ CutAfter(v, q[h][n]).ok = v.ok
        BY <4>1, CutAfterIs
      <4>3. QED
        BY <4>2 DEF v
    <3>3. [q EXCEPT ![h] = SubSeq(q[h], 1, n)] = q2
      BY <2>3
    <3>4. p2 = CutAfter(g.p, q[h][n])
      BY <3>1 DEF p2
    <3>5. QED
      BY <3>2, <3>3, <3>4
  <2> HIDE DEF q, c, p2, s
  <2>8. q2[h] = s /\ DOMAIN q2 = DOMAIN r /\ \A x \in DOMAIN r : x # h => q2[x] = r[x]
    OBVIOUS
  <2> HIDE DEF q2
  <2>9. \A i, j \in 1..n : s[i] = s[j] => i = j
    BY <2>5, <2>7, <2>8, HeapFacts
  <2>10. w = PutAll(p2, s, vals)
    BY <1>4, <1>6, <2>2, <2>6 DEF p2
  <2>11. ASSUME NEW i \in 1..n
         PROVE  \/ \E j \in 1..Len(u) : s[i] = u[j]
                \/ s[i] \in Clusters /\ p.fat[s[i]] = Free
    <3>1. i \in 1..Len(u) \/ i \in (Len(u) + 1)..Len(t)
      BY <1>1, <2>4
    <3>2. CASE i \in 1..Len(u)
      BY <2>2, <2>5, <3>2 DEF Extends
    <3>3. CASE i \in (Len(u) + 1)..Len(t)
      BY <2>2, <2>5, <3>3 DEF Extends
    <3>4. QED
      BY <3>1, <3>2, <3>3
  <2>12. \A i \in 1..n : s[i] \in Clusters => s[i] \in F
    BY <2>11 DEF u
  <2>13. vals \in [1..n -> Blocks] /\ s \in [1..n -> Cells] /\ Len(s) = Len(vals)
    BY <2>5, LenProperties DEF n
  <2>14. ASSUME NEW k \in 0..n PROVE After(p2.data, s, vals, k) \in G
    <3> DEFINE e == After(p2.data, s, vals, k)
    <3>1. /\ e \in Datas
          /\ \A x \in Clusters : (\A i \in 1..k : s[i] # x) => e[x] = g.p.data[x]
      <4>1. p2.data \in Datas /\ p2.data = g.p.data /\ n \in Nat
        BY <1>1, <1>3, <2>7
      <4>2. QED
        BY <2>9, <2>13, <4>1, AfterIs
    <3>2. \A i \in 1..k : i \in 1..n
      BY <1>1
    <3> HIDE DEF e
    <3>3. \A x \in Clusters \ F : e[x] = g.p.data[x]
      BY <2>12, <3>1, <3>2
    <3>4. g.p.data \in G
      BY <1>2, TrailEnds
    <3>5. e \in G
      BY <3>1, <3>3, <3>4 DEF Open
    <3>6. QED
      BY <3>5 DEF e
  <2>15. /\ w \in Parts /\ w.fat = p2.fat /\ w.ok = p2.ok
         /\ w.data = After(p2.data, s, vals, n)
         /\ Trail(G, d, w.log, w.data)
    <3>1. Trail(G, d, p2.log, p2.data)
      BY <1>2, <2>7
    <3>2. \A i, j \in 1..Len(s) : s[i] = s[j] => i = j
      BY <2>5, <2>9
    <3>3. \A k \in 0..Len(vals) : After(p2.data, s, vals, k) \in G
      BY <2>14 DEF n
    <3>4. QED
      BY <2>5, <2>7, <2>10, <2>13, <3>1, <3>2, <3>3, PutAllIs DEF n
  <2>16. /\ \A i \in 1..n : s[i] \in Clusters => w.data[s[i]] = vals[i]
         /\ \A x \in Clusters : (\A i \in 1..n : s[i] # x) => w.data[x] = g.p.data[x]
    <3>1. n \in 0..n /\ n \in Nat /\ p2.data \in Datas /\ p2.data = g.p.data
      BY <1>1, <1>3, <2>7
    <3> DEFINE e == After(p2.data, s, vals, n)
    <3>2. /\ \A i \in 1..n : s[i] \in Clusters => e[s[i]] = vals[i]
          /\ \A x \in Clusters : (\A i \in 1..n : s[i] # x) => e[x] = p2.data[x]
      BY <2>9, <2>13, <3>1, AfterIs
    <3> HIDE DEF e
    <3>3. w.data = e
      BY <2>15 DEF e
    <3>4. QED
      BY <3>1, <3>2, <3>3
  <2>17. ASSUME NEW x \in Clusters, p.fat[x] # Free, \A j \in 1..Len(u) : u[j] # x
         PROVE  w.data[x] = p.data[x]
    BY <2>2, <2>11, <2>16, <2>17
  <2>18. ASSUME NEW x \in Clusters, w.fat[x] = Free PROVE x \in F
    <3>1. \A a \in DOMAIN r : \A i \in 1..Len(q2[a]) : q2[a][i] # x
      BY <2>7, <2>8, <2>15, <2>18, HeapFree
    <3>2. CASE p.fat[x] = Free
      BY <3>2
    <3>3. CASE p.fat[x] # Free
      <4>1. PICK a \in DOMAIN r : \E i \in 1..Len(r[a]) : r[a][i] = x
        BY <3>3, HeapFree
      <4>2. a = h
        BY <2>8, <3>1, <4>1
      <4>3. QED
        BY <4>1, <4>2
    <3>4. QED
      BY <3>2, <3>3
  <2>19. /\ s \in Seq(Cells) /\ Heap(w.fat, q2) /\ Len(s) = Len(vals) /\ w.ok
    BY <1>6, <2>5, <2>7, <2>15 DEF n
  <2>20. /\ \A i \in 1..Len(s) : \/ \E j \in 1..Len(r[h]) : s[i] = r[h][j]
                                 \/ s[i] \in Clusters /\ p.fat[s[i]] = Free
         /\ \A i \in 1..Len(s) : s[i] \in Clusters => w.data[s[i]] = vals[i]
         /\ \A x \in Clusters : p.fat[x] # Free /\ (\A j \in 1..Len(r[h]) : r[h][j] # x)
                                  => w.data[x] = p.data[x]
         /\ \A x \in Clusters : w.fat[x] = Free => x \in F
    BY <2>5, <2>11, <2>16, <2>17, <2>18 DEF u
  <2>21. Filled(w, p, r, F, h, vals, s)
    BY <2>19, <2>20 DEF Filled, q2
  <2>22. QED
    BY <2>15, <2>19, <2>21 DEF w
<1>7. QED
  BY <1>3, <1>5, <1>6

-----------------------------------------------------------------------------
(* Directories: slots and the clusters they are in. *)

\* Products keep the order.
LEMMA TimesMono ==
  ASSUME NEW a \in Int, NEW b \in Int, NEW m \in Nat, a <= b
  PROVE  a * m <= b * m
  OBVIOUS

\* Quotient and remainder.
LEMMA DivMod ==
  ASSUME NEW x \in Nat, NEW m \in Nat \ {0}
  PROVE  \E q \in Nat, z \in 0..(m - 1) : q = x \div m /\ z = x % m /\ x = m * q + z
<1>1. x \div m \in Nat
  OBVIOUS
<1>2. x % m \in 0..(m - 1)
  OBVIOUS
<1>3. PICK q \in Nat : q = x \div m
  BY <1>1
<1>4. PICK z \in 0..(m - 1) : z = x % m
  BY <1>2
<1>5. x = m * q + z
  BY <1>3, <1>4
<1>6. QED
  BY <1>3, <1>4, <1>5

\* Quotient and remainder are determined by the product and the rest.
LEMMA DivIs ==
  ASSUME NEW m \in Nat \ {0}, NEW q \in Nat, NEW z \in 0..(m - 1)
  PROVE  (q * m + z) \div m = q /\ (q * m + z) % m = z
<1> DEFINE x == q * m + z
           a == x \div m
           b == x % m
<1>1. x \in Nat
  OBVIOUS
<1>2. a \in Nat /\ b \in 0..(m - 1) /\ x = m * a + b
  <2> HIDE DEF x
  <2>1. PICK i \in Nat, j \in 0..(m - 1) : i = x \div m /\ j = x % m /\ x = m * i + j
    BY <1>1, DivMod
  <2>2. a = i /\ b = j
    BY <2>1
  <2> HIDE DEF a, b
  <2>3. QED
    BY <2>1, <2>2
<1> HIDE DEF a, b
<1>3. m * a + b = q * m + z
  BY <1>2
<1>4. a * m + b = q * m + z
  BY <1>2, <1>3
<1>5. ~(a < q)
  <2>1. SUFFICES ASSUME a + 1 <= q PROVE FALSE
    BY <1>2
  <2>2. (a + 1) * m <= q * m
    BY <1>2, <2>1, TimesMono
  <2>3. (a + 1) * m = a * m + m
    BY <1>2
  <2>4. QED
    BY <1>2, <1>4, <2>2, <2>3
<1>6. ~(q < a)
  <2>1. SUFFICES ASSUME q + 1 <= a PROVE FALSE
    BY <1>2
  <2>2. (q + 1) * m <= a * m
    BY <1>2, <2>1, TimesMono
  <2>3. (q + 1) * m = q * m + m
    BY <1>2
  <2>4. QED
    BY <1>2, <1>4, <2>2, <2>3
<1>7. a = q /\ b = z
  BY <1>2, <1>4, <1>5, <1>6
<1>8. QED
  BY <1>7 DEF a, b, x

\* How many slots a cluster has.
LEMMA SlotCount == SlotsPer \in Nat \ {0} /\ SlotsPer >= 2
  BY GeometryAssumption, CallsAssumption

\* Slot j of cluster i, counted from the start of the directory.
At(i, j) == (i - 1) * SlotsPer + j

\* Slot j of cluster i lies where Flat looks for it.
LEMMA AtIs ==
  ASSUME NEW n \in Nat, NEW i \in 1..n, NEW j \in 1..SlotsPer
  PROVE  /\ At(i, j) \in 1..(n * SlotsPer)
         /\ (At(i, j) - 1) \div SlotsPer + 1 = i
         /\ ((At(i, j) - 1) % SlotsPer) + 1 = j
<1> DEFINE m == SlotsPer
           q == i - 1
           z == j - 1
<1>1. m \in Nat \ {0} /\ q \in Nat /\ z \in 0..(m - 1) /\ q + 1 <= n
  BY SlotCount
<1>2. At(i, j) = q * m + z + 1
  <2>1. j = z + 1 /\ j \in Int
    BY SlotCount
  <2>2. q * m \in Int
    BY <1>1
  <2> HIDE DEF z
  <2>3. q * m + j = q * m + z + 1
    BY <1>1, <2>1, <2>2
  <2>4. QED
    BY <2>3 DEF At
<1> HIDE DEF m, q, z
<1>3. q * m \in Nat
  BY <1>1
<1>4. (q * m + z) \div m = q /\ (q * m + z) % m = z
  BY <1>1, DivIs
<1>5. At(i, j) - 1 = q * m + z
  BY <1>1, <1>2, <1>3
<1>6. (q + 1) * m <= n * m /\ (q + 1) * m = q * m + m
  BY <1>1, TimesMono
<1>7. At(i, j) \in 1..(n * m)
  BY <1>1, <1>2, <1>3, <1>6
<1>8. (At(i, j) - 1) \div m = i - 1 /\ (At(i, j) - 1) % m = j - 1
  BY <1>4, <1>5 DEF q, z
<1>9. (i - 1) + 1 = i /\ (j - 1) + 1 = j
  BY SlotCount
<1>10. QED
  BY <1>7, <1>8, <1>9 DEF m

\* Every slot of a directory is some slot of some cluster.
LEMMA AtAll ==
  ASSUME NEW n \in Nat, NEW k \in 1..(n * SlotsPer)
  PROVE  \E i \in 1..n, j \in 1..SlotsPer : k = At(i, j)
<1> DEFINE m == SlotsPer
<1>1. m \in Nat \ {0}
  BY SlotCount
<1> HIDE DEF m
<1>2. n * m \in Nat
  BY <1>1
<1>3. k \in 1..(n * m)
  BY DEF m
<1>4. k - 1 \in Nat /\ k \in Nat /\ k <= n * m
  BY <1>2, <1>3
<1>5. PICK q \in Nat, z \in 0..(m - 1) :
        q = (k - 1) \div m /\ z = (k - 1) % m /\ k - 1 = m * q + z
  BY <1>1, <1>4, DivMod
<1>6. q < n
  <2>1. SUFFICES ASSUME n <= q PROVE FALSE
    BY <1>5
  <2>2. n * m <= q * m
    BY <1>1, <1>5, <2>1, TimesMono
  <2>3. m * q = q * m /\ q * m \in Nat
    BY <1>1
  <2>4. QED
    BY <1>1, <1>2, <1>4, <1>5, <2>2, <2>3
<1>7. q + 1 \in 1..n /\ z + 1 \in 1..m /\ (q + 1) - 1 = q
  BY <1>1, <1>5, <1>6
<1>8. k = q * m + (z + 1)
  <2>1. m * q = q * m /\ q * m \in Nat
    BY <1>1
  <2>2. QED
    BY <1>4, <1>5, <2>1
<1>9. k = At(q + 1, z + 1)
  BY <1>7, <1>8 DEF At, m
<1>10. QED
  BY <1>7, <1>9 DEF m

\* The slots in the clusters s, one after the other.
Flat(data, s) ==
  [k \in 1..(Len(s) * SlotsPer) |-> data[s[(k - 1) \div SlotsPer + 1]][((k - 1) % SlotsPer) + 1]]

\* What a sequence of slots is.
SlotSeq(n) == [1..(n * SlotsPer) -> Slots]

\* The slots in a run of clusters are as many as these hold, each at its place.
LEMMA FlatIs ==
  ASSUME NEW data \in Datas, NEW s \in Seq(Clusters)
  PROVE  /\ Flat(data, s) \in SlotSeq(Len(s))
         /\ \A i \in 1..Len(s), j \in 1..SlotsPer : Flat(data, s)[At(i, j)] = data[s[i]][j]
<1>1. Len(s) \in Nat /\ s \in [1..Len(s) -> Clusters]
  BY LenProperties
<1>2. ASSUME NEW i \in 1..Len(s), NEW j \in 1..SlotsPer
      PROVE  Flat(data, s)[At(i, j)] = data[s[i]][j]
  <2>1. /\ At(i, j) \in 1..(Len(s) * SlotsPer)
        /\ (At(i, j) - 1) \div SlotsPer + 1 = i
        /\ ((At(i, j) - 1) % SlotsPer) + 1 = j
    BY <1>1, AtIs
  <2>2. QED
    BY <2>1 DEF Flat
<1>3. ASSUME NEW k \in 1..(Len(s) * SlotsPer) PROVE Flat(data, s)[k] \in Slots
  <2>1. PICK i \in 1..Len(s), j \in 1..SlotsPer : k = At(i, j)
    BY <1>1, AtAll
  <2>2. s[i] \in Clusters
    BY <1>1
  <2>3. data[s[i]] \in [1..SlotsPer -> Slots]
    BY <2>2 DEF Datas, Blocks
  <2>4. data[s[i]][j] \in Slots
    BY <2>3
  <2>5. QED
    BY <1>2, <2>1, <2>4
<1>4. Flat(data, s) = [k \in 1..(Len(s) * SlotsPer) |-> Flat(data, s)[k]]
  BY DEF Flat
<1>5. Flat(data, s) \in SlotSeq(Len(s))
  BY <1>3, <1>4 DEF SlotSeq
<1>6. QED
  BY <1>2, <1>5

\* Two intervals from 1 are the same only if they end at the same place.
LEMMA UpToEqual ==
  ASSUME NEW l \in Nat, NEW m \in Nat, 1..l = 1..m
  PROVE  l = m
<1>1. ~(l < m)
  <2>1. l < m => m \in 1..m /\ m \notin 1..l
    OBVIOUS
  <2>2. QED
    BY <2>1
<1>2. ~(m < l)
  <2>1. m < l => l \in 1..l /\ l \notin 1..m
    OBVIOUS
  <2>2. QED
    BY <2>1
<1>3. QED
  BY <1>1, <1>2

\* Sequences of slots that agree are the same.
LEMMA SlotSeqEqual ==
  ASSUME NEW n \in Nat, NEW x \in SlotSeq(n), NEW y \in SlotSeq(n),
         \A k \in 1..(n * SlotsPer) : x[k] = y[k]
  PROVE  x = y
<1> DEFINE m == n * SlotsPer
<1>1. x \in [1..m -> Slots] /\ y \in [1..m -> Slots]
  BY DEF SlotSeq
<1>2. \A k \in 1..m : x[k] = y[k]
  OBVIOUS
<1> HIDE DEF m
<1>3. x = [k \in 1..m |-> x[k]] /\ y = [k \in 1..m |-> y[k]]
  BY <1>1
<1>4. [k \in 1..m |-> x[k]] = [k \in 1..m |-> y[k]]
  BY <1>2
<1>5. QED
  BY <1>3, <1>4

\* What is known of the slots of n clusters as a sequence.
LEMMA SlotSeqIs ==
  ASSUME NEW n \in Nat, NEW t \in SlotSeq(n)
  PROVE  /\ n * SlotsPer \in Nat /\ DOMAIN t = 1..(n * SlotsPer)
         /\ Len(t) = n * SlotsPer /\ t \in Seq(Slots)
         /\ Len(t) \div SlotsPer = n
         /\ \A k \in 1..(n * SlotsPer) : t[k] \in Slots
<1> DEFINE m == n * SlotsPer
<1>1. m \in Nat
  BY SlotCount
<1>2. t \in [1..m -> Slots]
  BY DEF SlotSeq
<1>3. m \div SlotsPer = n
  <2>1. (n * SlotsPer + 0) \div SlotsPer = n
    BY SlotCount, DivIs
  <2>2. n * SlotsPer + 0 = n * SlotsPer
    BY <1>1
  <2>3. QED
    BY <2>1, <2>2
<1> HIDE DEF m
<1>4. t = [k \in 1..m |-> t[k]] /\ \A k \in 1..m : t[k] \in Slots
  BY <1>2
<1>5. [k \in 1..m |-> t[k]] \in Seq(Slots)
  BY <1>1, <1>4, IsASeq
<1>6. t \in Seq(Slots) /\ DOMAIN t = 1..m
  BY <1>4, <1>5
<1>7. Len(t) = m
  <2>1. Len(t) \in Nat /\ DOMAIN t = 1..Len(t)
    BY <1>6, LenProperties
  <2>2. QED
    BY <1>1, <1>6, <2>1, UpToEqual
<1>8. QED
  BY <1>1, <1>3, <1>4, <1>6, <1>7 DEF m

\* Data that differ in no slot of s and nowhere else are the same.
LEMMA FlatSame ==
  ASSUME NEW a \in Datas, NEW b \in Datas, NEW s \in Seq(Clusters),
         \A c \in Clusters : (\A i \in 1..Len(s) : s[i] # c) => a[c] = b[c],
         \A k \in 1..(Len(s) * SlotsPer) : Flat(a, s)[k] = Flat(b, s)[k]
  PROVE  a = b
<1>1. Len(s) \in Nat
  BY LenProperties
<1>2. ASSUME NEW i \in 1..Len(s), s[i] \in Clusters PROVE a[s[i]] = b[s[i]]
  <2>1. a[s[i]] \in [1..SlotsPer -> Slots] /\ b[s[i]] \in [1..SlotsPer -> Slots]
    BY <1>2 DEF Datas, Blocks
  <2>2. ASSUME NEW j \in 1..SlotsPer PROVE a[s[i]][j] = b[s[i]][j]
    <3>1. At(i, j) \in 1..(Len(s) * SlotsPer)
      BY <1>1, AtIs
    <3>2. Flat(a, s)[At(i, j)] = a[s[i]][j] /\ Flat(b, s)[At(i, j)] = b[s[i]][j]
      BY FlatIs
    <3>3. QED
      BY <3>1, <3>2
  <2> DEFINE x == a[s[i]]
             y == b[s[i]]
  <2>3. /\ x \in [1..SlotsPer -> Slots] /\ y \in [1..SlotsPer -> Slots]
        /\ \A j \in 1..SlotsPer : x[j] = y[j]
    BY <2>1, <2>2
  <2> HIDE DEF x, y
  <2>4. x = [j \in 1..SlotsPer |-> x[j]] /\ y = [j \in 1..SlotsPer |-> y[j]]
    BY <2>3
  <2>5. [j \in 1..SlotsPer |-> x[j]] = [j \in 1..SlotsPer |-> y[j]]
    BY <2>3
  <2>6. x = y
    BY <2>4, <2>5
  <2>7. QED
    BY <2>6 DEF x, y
<1>3. \A c \in Clusters : a[c] = b[c]
  BY <1>2
<1>4. QED
  BY <1>3 DEF Datas

\* The slots of a directory are those in its run.
LEMMA DirIs ==
  ASSUME NEW fat, NEW r, Heap(fat, r), NEW d \in DOMAIN r, d # 0, NEW data
  PROVE  DirSlots(fat, data, d) = Flat(data, r[d])
<1>1. Chain(fat, d) = r[d]
  BY HeapChain
<1>2. QED
  BY <1>1 DEF DirSlots, Flat

\* The blocks that WriteDir makes of the slots.
Cut(slots) == [i \in 1..(Len(slots) \div SlotsPer) |->
                 [j \in 1..SlotsPer |-> slots[(i - 1) * SlotsPer + j]]]

\* WriteDir makes of the slots of n clusters n blocks, each slot at its place.
LEMMA CutIs ==
  ASSUME NEW n \in Nat, NEW t \in SlotSeq(n)
  PROVE  /\ Cut(t) \in Seq(Blocks) /\ Len(Cut(t)) = n
         /\ \A i \in 1..n, j \in 1..SlotsPer : Cut(t)[i][j] = t[At(i, j)]
<1>1. Len(t) \div SlotsPer = n /\ \A k \in 1..(n * SlotsPer) : t[k] \in Slots
  BY SlotSeqIs
<1>2. Cut(t) = [i \in 1..n |-> [j \in 1..SlotsPer |-> t[At(i, j)]]]
  BY <1>1 DEF Cut, At
<1> DEFINE v == [i \in 1..n |-> [j \in 1..SlotsPer |-> t[At(i, j)]]]
<1>3. ASSUME NEW i \in 1..n PROVE v[i] \in Blocks
  <2>1. ASSUME NEW j \in 1..SlotsPer PROVE t[At(i, j)] \in Slots
    <3>1. At(i, j) \in 1..(n * SlotsPer)
      BY AtIs
    <3>2. QED
      BY <1>1, <3>1
  <2>2. [j \in 1..SlotsPer |-> t[At(i, j)]] \in Blocks
    BY <2>1 DEF Blocks
  <2>3. QED
    BY <2>2
<1>4. \A i \in 1..n, j \in 1..SlotsPer : v[i][j] = t[At(i, j)]
  OBVIOUS
<1> HIDE DEF v
<1>5. v = [i \in 1..n |-> v[i]] /\ DOMAIN v = 1..n
  BY DEF v
<1>6. v \in Seq(Blocks)
  <2>1. [i \in 1..n |-> v[i]] \in Seq(Blocks)
    BY <1>3, IsASeq
  <2>2. QED
    BY <1>5, <2>1
<1>7. Len(v) = n
  <2>1. Len(v) \in Nat /\ DOMAIN v = 1..Len(v)
    BY <1>6, LenProperties
  <2>2. QED
    BY <1>5, <2>1, UpToEqual
<1>8. QED
  BY <1>2, <1>4, <1>6, <1>7 DEF v

\* x is b but for the clusters in u.
SameBut(b, x, u) ==
  \A c \in Clusters : (\A i \in 1..Len(u) : u[i] # c) => x[c] = b[c]

\* Every content in which some slots of u are those of b and the others those
\* of t is in G.
Mixed(G, b, u, t) ==
  \A x \in Datas :
    SameBut(b, x, u) /\ (\A k \in 1..(Len(u) * SlotsPer) : Flat(x, u)[k] \in {Flat(b, u)[k], t[k]})
      => x \in G

\* Writing a directory: cluster after cluster the new slots take the place of
\* the old ones.
LEMMA WriteDirIs ==
  ASSUME NEW p, NEW r, NEW G, NEW F, NEW b, Ready(p, r, G, F, b),
         NEW d \in DOMAIN r, d # 0, NEW t \in SlotSeq(Len(r[d])), Mixed(G, p.data, r[d], t)
  PROVE  /\ Ready(WriteDir(p, d, t), r, G, F, b)
         /\ WriteDir(p, d, t).fat = p.fat /\ WriteDir(p, d, t).got = p.got
         /\ SameBut(p.data, WriteDir(p, d, t).data, r[d])
         /\ Flat(WriteDir(p, d, t).data, r[d]) = t
<1>0. p \in Parts /\ p.ok /\ Heap(p.fat, r) /\ Trail(G, b, p.log, p.data)
  BY DEF Ready
<1> USE <1>0
<1> DEFINE u == r[d]
           n == Len(u)
           v == Cut(t)
           x(k) == After(p.data, u, v, k)
<1>1. /\ u \in Seq(Cells) /\ n \in Nat \ {0} /\ u \in [1..n -> Cells]
      /\ \A i, j \in 1..n : u[i] = u[j] => i = j
  BY HeapFacts
<1>2. u \in Seq(Clusters) /\ \A i \in 1..n : u[i] \in Clusters
  BY HeapChain, HeapFacts
<1>3. /\ v \in Seq(Blocks) /\ Len(v) = n /\ v \in [1..n -> Blocks]
      /\ \A i \in 1..n, j \in 1..SlotsPer : v[i][j] = t[At(i, j)]
  BY <1>1, CutIs, LenProperties
<1>4. p.data \in Datas
  BY PartFacts
<1>5. WriteDir(p, d, t) = WriteChain(p, d, v)
  BY DEF WriteDir, Cut
<1> HIDE DEF u, n, v
<1>6. ASSUME NEW k \in 0..n
      PROVE  /\ x(k) \in Datas /\ SameBut(p.data, x(k), u)
             /\ \A i \in 1..n, j \in 1..SlotsPer :
                  Flat(x(k), u)[At(i, j)] = IF i <= k THEN t[At(i, j)] ELSE Flat(p.data, u)[At(i, j)]
  <2> DEFINE e == x(k)
             y == p.data
  <2>0. y \in Datas /\ n \in Nat
    BY <1>1, <1>4
  <2> HIDE DEF y
  <2>1. /\ After(y, u, v, k) \in Datas
        /\ \A i \in 1..k : u[i] \in Clusters => After(y, u, v, k)[u[i]] = v[i]
        /\ \A c \in Clusters : (\A i \in 1..k : u[i] # c) => After(y, u, v, k)[c] = y[c]
    BY <1>1, <1>3, <2>0, AfterIs
  <2>10. /\ e \in Datas
         /\ \A i \in 1..k : u[i] \in Clusters => e[u[i]] = v[i]
         /\ \A c \in Clusters : (\A i \in 1..k : u[i] # c) => e[c] = p.data[c]
    BY <2>1 DEF y
  <2> HIDE DEF e
  <2>2. \A i \in 1..k : i \in 1..n
    BY <1>1
  <2>3. SameBut(p.data, e, u)
    BY <2>2, <2>10 DEF SameBut, n
  <2>4. ASSUME NEW i \in 1..n, NEW j \in 1..SlotsPer
        PROVE  Flat(e, u)[At(i, j)] = IF i <= k THEN t[At(i, j)] ELSE Flat(p.data, u)[At(i, j)]
    <3>1. Flat(e, u)[At(i, j)] = e[u[i]][j] /\ Flat(p.data, u)[At(i, j)] = p.data[u[i]][j]
      BY <1>2, <1>4, <2>10, FlatIs DEF n
    <3>2. CASE i <= k
      <4>1. i \in 1..k
        BY <1>1, <3>2
      <4>2. e[u[i]] = v[i]
        BY <1>2, <2>10, <4>1
      <4>3. QED
        BY <1>3, <3>1, <3>2, <4>2
    <3>3. CASE ~(i <= k)
      <4>1. \A a \in 1..k : u[a] # u[i]
        <5>1. \A a \in 1..k : a \in 1..n /\ a # i
          BY <1>1, <3>3
        <5>2. QED
          BY <1>1, <5>1
      <4>2. e[u[i]] = p.data[u[i]]
        BY <1>2, <2>10, <4>1
      <4>3. QED
        BY <3>1, <3>3, <4>2
    <3>4. QED
      BY <3>2, <3>3
  <2>5. QED
    BY <2>3, <2>4, <2>10 DEF e
<1> HIDE DEF x
<1>7. ASSUME NEW k \in 0..n PROVE x(k) \in G
  <2>1. \A q \in 1..(n * SlotsPer) : Flat(x(k), u)[q] \in {Flat(p.data, u)[q], t[q]}
    <3> SUFFICES ASSUME NEW q \in 1..(n * SlotsPer)
                 PROVE  Flat(x(k), u)[q] \in {Flat(p.data, u)[q], t[q]}
      OBVIOUS
    <3>1. PICK i \in 1..n, j \in 1..SlotsPer : q = At(i, j)
      BY <1>1, AtAll
    <3>2. QED
      BY <1>6, <3>1
  <2>2. x(k) \in Datas /\ SameBut(p.data, x(k), u)
    BY <1>6
  <2>3. QED
    BY <2>1, <2>2 DEF Mixed, u, n
<1>8. Passing(G, p.data, r[d], v)
  BY <1>3, <1>7 DEF x, u, Passing
<1> DEFINE w == WriteChain(p, d, v)
<1>9. /\ w \in Parts /\ Trail(G, b, w.log, w.data)
      /\ w.fat = p.fat /\ w.got = p.got /\ w.ok /\ w.data = x(n)
  <2>1. Len(v) = Len(r[d]) /\ v \in Seq(Blocks)
    BY <1>3 DEF u, n
  <2>2. /\ w \in Parts /\ Trail(G, b, w.log, w.data)
        /\ w.fat = p.fat /\ w.got = p.got /\ w.ok /\ w.data = After(p.data, r[d], v, Len(v))
    BY <1>8, <2>1, WriteSameIs
  <2>3. QED
    BY <1>3, <2>2 DEF x, u, n
<1> HIDE DEF w
<1>10. n \in 0..n
  BY <1>1
<1>11. x(n) \in Datas /\ SameBut(p.data, x(n), u)
  BY <1>6, <1>10
<1>12. Flat(x(n), u) = t
  <2> DEFINE y == Flat(x(n), u)
             m == n * SlotsPer
  <2>1. y \in SlotSeq(n) /\ t \in SlotSeq(n)
    BY <1>2, <1>11, FlatIs DEF n, u
  <2>2. ASSUME NEW q \in 1..m PROVE y[q] = t[q]
    <3>1. PICK i \in 1..n, j \in 1..SlotsPer : q = At(i, j)
      BY <1>1, AtAll
    <3>2. i <= n
      BY <1>1
    <3>3. QED
      BY <1>6, <1>10, <3>1, <3>2
  <2> HIDE DEF y
  <2>3. y = t
    BY <1>1, <2>1, <2>2, SlotSeqEqual
  <2>4. QED
    BY <2>3 DEF y
<1>13. Ready(w, r, G, F, b)
  BY <1>9 DEF Ready
<1>14. QED
  BY <1>5, <1>9, <1>11, <1>12, <1>13 DEF w, u

-----------------------------------------------------------------------------
(* What a scan of a directory sees. *)

\* The end is the first zero slot, or after the last slot.
LEMMA EndOfIs ==
  ASSUME NEW t \in Seq(Slots)
  PROVE  /\ EndOf(t) \in 1..(Len(t) + 1)
         /\ \A k \in 1..Len(t) : k < EndOf(t) => t[k] # Zero
         /\ EndOf(t) <= Len(t) => t[EndOf(t)] = Zero
<1> DEFINE T == {k \in DOMAIN t : t[k] = Zero} \cup {Len(t) + 1}
<1>1. Len(t) \in Nat /\ DOMAIN t = 1..Len(t)
  BY LenProperties
<1>2. T \in SUBSET Nat /\ T # {}
  BY <1>1
<1>3. PICK x \in T : \A y \in T : x <= y
  BY <1>2, LeastNat
<1>4. EndOf(t) = CHOOSE y \in T : \A z \in T : y <= z
  BY DEF EndOf, Min
<1> DEFINE e == EndOf(t)
<1>5. e \in T /\ \A y \in T : e <= y
  BY <1>3, <1>4
<1>6. \A k \in T : k \in 1..(Len(t) + 1) /\ (k <= Len(t) => t[k] = Zero)
  BY <1>1
<1>7. \A k \in 1..Len(t) : t[k] = Zero => k \in T
  BY <1>1
<1> HIDE DEF T, e
<1>8. \A k \in 1..Len(t) : k < e => t[k] # Zero
  BY <1>1, <1>2, <1>5, <1>7
<1>9. QED
  BY <1>5, <1>6, <1>8 DEF e

\* A zero slot with none before it is the end.
LEMMA EndOfMade ==
  ASSUME NEW t \in Seq(Slots), NEW m \in 1..(Len(t) + 1),
         \A k \in 1..Len(t) : k < m => t[k] # Zero, m <= Len(t) => t[m] = Zero
  PROVE  EndOf(t) = m
<1> DEFINE e == EndOf(t)
<1>1. Len(t) \in Nat
  BY LenProperties
<1>2. /\ e \in 1..(Len(t) + 1) /\ \A k \in 1..Len(t) : k < e => t[k] # Zero
      /\ e <= Len(t) => t[e] = Zero
  BY EndOfIs
<1> HIDE DEF e
<1>3. ~(e < m)
  <2>1. e < m => e \in 1..Len(t)
    BY <1>1, <1>2
  <2>2. QED
    BY <1>2, <2>1
<1>4. ~(m < e)
  <2>1. m < e => m \in 1..Len(t)
    BY <1>1, <1>2
  <2>2. QED
    BY <1>2, <2>1
<1>5. e = m
  BY <1>1, <1>2, <1>3, <1>4
<1>6. QED
  BY <1>5 DEF e

\* Slot x matches name n.
Hit(x, n) == x.kind = "entry" /\ x.short = Short[n]

\* Lookup finds the first match before the end.
LEMMA LookupIs ==
  ASSUME NEW t \in Seq(Slots), NEW n
  PROVE  /\ Lookup(t, n) \in 0..Len(t)
         /\ Lookup(t, n) # 0 =>
              /\ Lookup(t, n) < EndOf(t) /\ Hit(t[Lookup(t, n)], n)
              /\ \A k \in 1..Len(t) : k < Lookup(t, n) => ~Hit(t[k], n)
         /\ Lookup(t, n) = 0 => \A k \in 1..Len(t) : k < EndOf(t) => ~Hit(t[k], n)
<1> DEFINE T == {k \in 1..(EndOf(t) - 1) : t[k].kind = "entry" /\ t[k].short = Short[n]}
           l == Lookup(t, n)
           e == EndOf(t)
<1>1. Len(t) \in Nat /\ e \in 1..(Len(t) + 1)
  BY LenProperties, EndOfIs
<1>2. l = IF T = {} THEN 0 ELSE Min(T)
  BY DEF Lookup
<1>3. \A k : k \in T <=> k \in 1..(e - 1) /\ Hit(t[k], n)
  BY DEF Hit
<1> HIDE DEF T, l, e
<1>4. T \in SUBSET Nat
  BY <1>1, <1>3
<1>5. CASE T = {}
  <2>1. \A k \in 1..Len(t) : k < e => k \in 1..(e - 1)
    BY <1>1
  <2>2. l = 0 /\ \A k \in 1..Len(t) : k < e => ~Hit(t[k], n)
    BY <1>2, <1>3, <1>5, <2>1
  <2>3. QED
    BY <1>1, <2>2 DEF l, e
<1>6. CASE T # {}
  <2>1. PICK x \in T : \A y \in T : x <= y
    BY <1>4, <1>6, LeastNat
  <2>2. l = CHOOSE y \in T : \A z \in T : y <= z
    BY <1>2, <1>6 DEF Min
  <2>3. l \in T /\ \A y \in T : l <= y
    BY <2>1, <2>2
  <2>4. l \in 1..(e - 1) /\ Hit(t[l], n)
    BY <1>3, <2>3
  <2>5. l \in 0..Len(t) /\ l # 0 /\ l < e
    BY <1>1, <2>4
  <2>6. ASSUME NEW k \in 1..Len(t), k < l, Hit(t[k], n) PROVE FALSE
    <3>1. k \in 1..(e - 1)
      BY <1>1, <2>5, <2>6
    <3>2. k \in T
      BY <1>3, <2>6, <3>1
    <3>3. QED
      BY <1>1, <2>3, <2>5, <2>6, <3>2
  <2>7. QED
    BY <2>4, <2>5, <2>6 DEF l, e
<1>7. QED
  BY <1>5, <1>6

\* The first matching slot before the end is the one that lookup finds.
LEMMA LookupMade ==
  ASSUME NEW t \in Seq(Slots), NEW n, NEW k \in 1..Len(t), k < EndOf(t), Hit(t[k], n),
         \A j \in 1..Len(t) : j < k => ~Hit(t[j], n)
  PROVE  Lookup(t, n) = k
<1> DEFINE l == Lookup(t, n)
<1>1. /\ l \in 0..Len(t)
      /\ l # 0 => Hit(t[l], n) /\ \A j \in 1..Len(t) : j < l => ~Hit(t[j], n)
      /\ l = 0 => \A j \in 1..Len(t) : j < EndOf(t) => ~Hit(t[j], n)
  BY LookupIs
<1>2. Len(t) \in Nat
  BY LenProperties
<1> HIDE DEF l
<1>3. l # 0
  BY <1>1
<1>4. l \in 1..Len(t)
  BY <1>1, <1>2, <1>3
<1>5. ~(k < l) /\ ~(l < k)
  BY <1>1, <1>3, <1>4
<1>6. l = k
  BY <1>2, <1>4, <1>5
<1>7. QED
  BY <1>6 DEF l

\* There is nothing behind the end.
Ended(s) == \A k \in 1..Len(s) : k >= EndOf(s) => s[k] = Zero

\* The entry of a file of short name sh.
File(x, sh) == x.kind = "entry" /\ x.short = sh /\ x.dir = FALSE

\* What a call that writes file sh, or puts an entry in E, may leave in slot k.
Allowed(s, k, sh, E) ==
  {s[k]} \cup {x \in {Zero, Long} \cup E : k >= EndOf(s) /\ Ended(s)}
         \cup {x \in Slots : File(s[k], sh) /\ File(x, sh)}

\* So t comes from s.
Near(s, t, sh, E) ==
  /\ Len(s) <= Len(t)
  /\ \A k \in 1..Len(s) : t[k] \in Allowed(s, k, sh, E)
  /\ \A k \in 1..Len(t) : k > Len(s) => t[k] \in {Zero, Long} \cup E

\* The entries of a call.
Entries(sh) == {x \in Slots : x.kind = "entry" /\ x.short = sh}

\* The end does not come closer, and it stays when there is something behind it.
LEMMA NearEnds ==
  ASSUME NEW s \in Seq(Slots), NEW t \in Seq(Slots), NEW sh, NEW E, Near(s, t, sh, E)
  PROVE  /\ EndOf(s) <= EndOf(t)
         /\ ~Ended(s) => EndOf(t) = EndOf(s) /\ EndOf(s) <= Len(s)
         /\ \A k \in 1..Len(s) : k < EndOf(s) \/ ~Ended(s) =>
              t[k] = s[k] \/ (File(s[k], sh) /\ File(t[k], sh))
<1>1. Len(s) \in Nat /\ Len(t) \in Nat /\ Len(s) <= Len(t)
  BY LenProperties DEF Near
<1>2. /\ EndOf(s) \in 1..(Len(s) + 1)
      /\ \A k \in 1..Len(s) : k < EndOf(s) => s[k] # Zero
      /\ EndOf(s) <= Len(s) => s[EndOf(s)] = Zero
  BY EndOfIs
<1>3. /\ EndOf(t) \in 1..(Len(t) + 1)
      /\ \A k \in 1..Len(t) : k < EndOf(t) => t[k] # Zero
      /\ EndOf(t) <= Len(t) => t[EndOf(t)] = Zero
  BY EndOfIs
<1> DEFINE a == EndOf(s)
           b == EndOf(t)
<1>4. ASSUME NEW k \in 1..Len(s), k < a \/ ~Ended(s)
      PROVE  t[k] = s[k] \/ (File(s[k], sh) /\ File(t[k], sh))
  <2>1. t[k] \in Allowed(s, k, sh, E)
    BY DEF Near
  <2>2. ~(k >= EndOf(s) /\ Ended(s))
    BY <1>1, <1>2, <1>4
  <2>3. QED
    BY <2>1, <2>2 DEF Allowed
<1>5. \A x : File(x, sh) => x # Zero
  BY DEF File, Zero
<1> HIDE DEF a, b
<1>6. ~(b < a)
  <2> SUFFICES ASSUME b < a PROVE FALSE
    OBVIOUS
  <2>1. b \in 1..Len(s) /\ b <= Len(t) /\ t[b] = Zero
    BY <1>1, <1>2, <1>3 DEF a, b
  <2>2. s[b] # Zero
    BY <1>2, <2>1 DEF a
  <2>3. QED
    BY <1>4, <1>5, <2>1, <2>2
<1>7. ASSUME ~Ended(s) PROVE a <= Len(s) /\ b = a
  <2>1. PICK k \in 1..Len(s) : k >= a
    BY <1>7 DEF Ended, a
  <2>2. a \in 1..Len(s) /\ s[a] = Zero
    BY <1>1, <1>2, <2>1 DEF a
  <2>3. t[a] = Zero
    BY <1>4, <1>5, <1>7, <2>2
  <2>4. ~(a < b)
    <3>1. a \in 1..Len(t)
      BY <1>1, <2>2
    <3>2. QED
      BY <1>3, <2>3, <3>1 DEF b
  <2>5. a \in Int /\ b \in Int
    BY <1>2, <1>3 DEF a, b
  <2>6. QED
    BY <1>6, <2>2, <2>4, <2>5
<1>8. a <= b
  BY <1>2, <1>3, <1>6 DEF a, b
<1>9. QED
  BY <1>4, <1>7, <1>8 DEF a, b

\* What a scan finds after a call was found before, at most changed if it is the
\* call's own file, or is an entry the call put there.
LEMMA NearFinds ==
  ASSUME NEW s \in Seq(Slots), NEW t \in Seq(Slots), NEW sh, NEW E, Near(s, t, sh, E),
         NEW n, Lookup(t, n) # 0
  PROVE  \/ t[Lookup(t, n)] \in E
         \/ /\ Lookup(s, n) = Lookup(t, n)
            /\ \/ t[Lookup(t, n)] = s[Lookup(t, n)]
               \/ File(s[Lookup(t, n)], sh) /\ File(t[Lookup(t, n)], sh)
<1>1. Len(s) \in Nat /\ Len(t) \in Nat /\ Len(s) <= Len(t)
  BY LenProperties DEF Near
<1> DEFINE k == Lookup(t, n)
<1>2. /\ k \in 0..Len(t) /\ k < EndOf(t) /\ Hit(t[k], n)
      /\ \A j \in 1..Len(t) : j < k => ~Hit(t[j], n)
  BY LookupIs
<1>3. EndOf(s) \in 1..(Len(s) + 1) /\ EndOf(t) \in 1..(Len(t) + 1)
  BY EndOfIs
<1>4. /\ ~Ended(s) => EndOf(t) = EndOf(s)
      /\ \A j \in 1..Len(s) : j < EndOf(s) \/ ~Ended(s) =>
           t[j] = s[j] \/ (File(s[j], sh) /\ File(t[j], sh))
  BY NearEnds
<1>5. k # 0
  OBVIOUS
<1> HIDE DEF k
<1>6. k \in 1..Len(t)
  BY <1>1, <1>2, <1>5
<1>7. t[k] # Zero /\ t[k] # Long
  BY <1>2 DEF Hit, Zero, Long
<1>8. CASE k > Len(s)
  <2>1. t[k] \in {Zero, Long} \cup E
    BY <1>6, <1>8 DEF Near
  <2>2. QED
    BY <1>7, <2>1 DEF k
<1>9. CASE k <= Len(s) /\ Ended(s) /\ k >= EndOf(s)
  <2>1. k \in 1..Len(s)
    BY <1>1, <1>6, <1>9
  <2>2. t[k] \in Allowed(s, k, sh, E) /\ s[k] = Zero
    BY <1>9, <2>1 DEF Near, Ended
  <2>3. ~File(Zero, sh)
    BY DEF File, Zero
  <2>4. t[k] \in E
    BY <1>7, <2>2, <2>3 DEF Allowed
  <2>5. QED
    BY <2>4 DEF k
<1>10. CASE k <= Len(s) /\ ~(Ended(s) /\ k >= EndOf(s))
  <2>1. k \in 1..Len(s) /\ k < EndOf(s)
    BY <1>1, <1>2, <1>3, <1>4, <1>6, <1>10
  <2>2. ASSUME NEW j \in 1..Len(s), j < EndOf(s) PROVE Hit(s[j], n) <=> Hit(t[j], n)
    BY <1>4, <2>2 DEF File, Hit
  <2>3. \A j \in 1..Len(s) : j < k => ~Hit(s[j], n)
    <3> SUFFICES ASSUME NEW j \in 1..Len(s), j < k PROVE ~Hit(s[j], n)
      OBVIOUS
    <3>1. j \in 1..Len(t) /\ j < EndOf(s)
      BY <1>1, <1>3, <2>1
    <3>2. QED
      BY <1>2, <2>2, <3>1
  <2>4. Hit(s[k], n)
    BY <1>2, <2>1, <2>2
  <2>5. Lookup(s, n) = k
    BY <2>1, <2>3, <2>4, LookupMade
  <2>6. t[k] = s[k] \/ (File(s[k], sh) /\ File(t[k], sh))
    BY <1>4, <2>1
  <2>7. QED
    BY <2>5, <2>6 DEF k
<1>11. QED
  BY <1>1, <1>6, <1>8, <1>9, <1>10

\* A name that a scan found before a call is found after it.
LEMMA NearKeeps ==
  ASSUME NEW s \in Seq(Slots), NEW t \in Seq(Slots), NEW sh, NEW E, Near(s, t, sh, E),
         NEW n, Lookup(s, n) # 0
  PROVE  Lookup(t, n) # 0
<1>1. Len(s) \in Nat /\ Len(t) \in Nat /\ Len(s) <= Len(t)
  BY LenProperties DEF Near
<1> DEFINE k == Lookup(s, n)
<1>2. k \in 0..Len(s) /\ k < EndOf(s) /\ Hit(s[k], n) /\ k # 0
  BY LookupIs
<1>3. EndOf(s) \in 1..(Len(s) + 1) /\ EndOf(t) \in 1..(Len(t) + 1)
  BY EndOfIs
<1> HIDE DEF k
<1>4. k \in 1..Len(s) /\ k \in 1..Len(t)
  BY <1>1, <1>2
<1>5. /\ EndOf(s) <= EndOf(t)
      /\ t[k] = s[k] \/ (File(s[k], sh) /\ File(t[k], sh))
  BY <1>2, <1>4, NearEnds
<1>6. Hit(t[k], n) /\ k < EndOf(t)
  BY <1>2, <1>3, <1>4, <1>5 DEF Hit, File
<1>7. QED
  BY <1>4, <1>6, LookupIs

\* An entry of name n is behind the end.
Buried(s, n) == \E k \in 1..Len(s) : k >= EndOf(s) /\ Hit(s[k], n)

\* A name that was behind the end of the slots before a call is there after it.
LEMMA NearBuries ==
  ASSUME NEW s \in Seq(Slots), NEW t \in Seq(Slots), NEW sh, NEW E, Near(s, t, sh, E),
         NEW n, Buried(s, n)
  PROVE  Buried(t, n)
<1>1. Len(s) \in Nat /\ Len(t) \in Nat /\ Len(s) <= Len(t)
  BY LenProperties DEF Near
<1>2. PICK k \in 1..Len(s) : k >= EndOf(s) /\ Hit(s[k], n)
  BY DEF Buried
<1>3. ~Ended(s)
  BY <1>2 DEF Ended, Hit, Zero
<1>4. EndOf(t) = EndOf(s) /\ (t[k] = s[k] \/ (File(s[k], sh) /\ File(t[k], sh)))
  BY <1>3, NearEnds
<1>5. k \in 1..Len(t) /\ Hit(t[k], n)
  BY <1>1, <1>2, <1>4 DEF Hit, File
<1>6. QED
  BY <1>2, <1>4, <1>5 DEF Buried

\* A new entry with its long-name slots fits where the directory ends.
Room(s, total) ==
  /\ EndOf(s) + total - 1 <= Len(s)
  /\ \A k \in EndOf(s)..Len(s) : s[k] = Zero

\* The slots with the entry, and where it is.
Added(s, total, e) ==
  IF Room(s, total) THEN Splice(s, EndOf(s), total, e)
  ELSE Splice(s \o Blank, Len(s) + 1, total, e)
AddedAt(s, total) == IF Room(s, total) THEN EndOf(s) + total - 1 ELSE Len(s) + total

\* The slots of a directory that got a zeroed cluster.
LEMMA LongerIs ==
  ASSUME NEW n \in Nat, NEW s \in SlotSeq(n), NEW v \in Blocks
  PROVE  /\ s \o v \in SlotSeq(n + 1) /\ Len(s \o v) = Len(s) + SlotsPer
         /\ (n + 1) * SlotsPer = Len(s) + SlotsPer
         /\ \A k \in 1..Len(s) : (s \o v)[k] = s[k]
         /\ \A j \in 1..SlotsPer : (s \o v)[Len(s) + j] = v[j]
<1>1. /\ Len(s) = n * SlotsPer /\ s \in Seq(Slots) /\ Len(s) \in Nat
  BY SlotSeqIs
<1>2. v = [j \in 1..SlotsPer |-> v[j]] /\ \A j \in 1..SlotsPer : v[j] \in Slots
  BY DEF Blocks
<1>3. v \in Seq(Slots) /\ Len(v) = SlotsPer
  <2>1. SlotsPer \in Nat
    BY SlotCount
  <2>2. [j \in 1..SlotsPer |-> v[j]] \in Seq(Slots)
    BY <1>2, <2>1, IsASeq
  <2>3. v \in Seq(Slots) /\ DOMAIN v = 1..SlotsPer
    BY <1>2, <2>2
  <2>4. Len(v) \in Nat /\ DOMAIN v = 1..Len(v)
    BY <2>3, LenProperties
  <2>5. QED
    BY <2>1, <2>3, <2>4, UpToEqual
<1> DEFINE x == s \o v
<1>4. /\ x \in Seq(Slots) /\ Len(x) = Len(s) + Len(v)
      /\ \A k \in 1..(Len(s) + Len(v)) : x[k] = IF k <= Len(s) THEN s[k] ELSE v[k - Len(s)]
  BY <1>1, <1>3, ConcatProperties
<1> HIDE DEF x
<1>5. (n + 1) * SlotsPer = n * SlotsPer + SlotsPer
  BY SlotCount
<1>6. Len(x) = (n + 1) * SlotsPer
  BY <1>1, <1>3, <1>4, <1>5
<1>7. x \in SlotSeq(n + 1)
  <2>1. x \in [1..Len(x) -> Slots]
    BY <1>4, LenProperties
  <2>2. QED
    BY <1>6, <2>1 DEF SlotSeq
<1>8. ASSUME NEW k \in 1..Len(s) PROVE x[k] = s[k]
  <2>1. k \in 1..(Len(s) + Len(v)) /\ k <= Len(s)
    BY <1>1, <1>3, SlotCount
  <2>2. QED
    BY <1>4, <2>1
<1>9. ASSUME NEW j \in 1..SlotsPer PROVE x[Len(s) + j] = v[j]
  <2>1. Len(s) + j \in 1..(Len(s) + Len(v)) /\ ~(Len(s) + j <= Len(s)) /\ (Len(s) + j) - Len(s) = j
    BY <1>1, <1>3, SlotCount
  <2>2. QED
    BY <1>4, <2>1
<1>10. QED
  BY <1>1, <1>3, <1>4, <1>5, <1>7, <1>8, <1>9 DEF x

\* What Splice leaves in each slot.
LEMMA SpliceIs ==
  ASSUME NEW n \in Nat, NEW s \in SlotSeq(n), NEW at \in Nat \ {0}, NEW total \in Nat \ {0},
         at + total - 1 <= Len(s), NEW e \in Slots
  PROVE  /\ Splice(s, at, total, e) \in SlotSeq(n)
         /\ Splice(s, at, total, e)[at + total - 1] = e
         /\ \A k \in 1..Len(s) : k < at \/ k > at + total - 1 => Splice(s, at, total, e)[k] = s[k]
         /\ \A k \in 1..Len(s) : k >= at /\ k < at + total - 1 => Splice(s, at, total, e)[k] = Long
<1>1. /\ DOMAIN s = 1..Len(s) /\ Len(s) = n * SlotsPer /\ Len(s) \in Nat
      /\ \A k \in 1..Len(s) : s[k] \in Slots
  BY SlotSeqIs
<1>2. Long \in Slots
  BY DEF Slots
<1> DEFINE m == at + total - 1
           l == Len(s)
           t == [k \in 1..l |-> IF k = m THEN e ELSE IF k \in at..(at + total - 2) THEN Long ELSE s[k]]
<1>3. Splice(s, at, total, e) = t
  BY <1>1 DEF Splice
<1>4. m \in 1..l /\ at + total - 2 = m - 1 /\ m \in Nat /\ l \in Nat
  BY <1>1
<1> HIDE DEF m, l
<1>5. \A k \in 1..l : t[k] \in Slots
  BY <1>1, <1>2 DEF l
<1>6. t \in [1..l -> Slots]
  BY <1>5
<1>7. t[m] = e
  BY <1>4
<1>8. ASSUME NEW k \in 1..l, k < at \/ k > m PROVE t[k] = s[k]
  <2>1. k # m /\ k \notin at..(at + total - 2)
    <3>1. k # m
      BY <1>4, <1>8 DEF m
    <3>2. k \notin at..(at + total - 2)
      BY <1>4, <1>8
    <3>3. QED
      BY <3>1, <3>2
  <2>2. QED
    BY <2>1
<1>9. ASSUME NEW k \in 1..l, k >= at, k < m PROVE t[k] = Long
  <2>1. k # m /\ k \in at..(at + total - 2)
    BY <1>4, <1>9
  <2>2. QED
    BY <2>1
<1> HIDE DEF t
<1>10. t \in SlotSeq(n)
  BY <1>1, <1>6 DEF SlotSeq, l
<1>11. QED
  BY <1>3, <1>7, <1>8, <1>9, <1>10 DEF m, l

\* What an added entry leaves of the slots.
LEMMA AddedIs ==
  ASSUME NEW n \in Nat, NEW s \in SlotSeq(n), NEW total \in 1..SlotsPer, NEW e \in Slots
  PROVE  LET t == Added(s, total, e)
             m == AddedAt(s, total)
         IN /\ t \in SlotSeq(IF Room(s, total) THEN n ELSE n + 1)
            /\ Len(s) \in Nat /\ Len(s) <= Len(t) /\ m \in 1..Len(t) /\ t[m] = e
            /\ m <= Len(s) => s[m] = Zero
            /\ \A k \in 1..Len(s) : t[k] = s[k] \/ (k >= EndOf(s) /\ Ended(s) /\ t[k] \in {Long, e})
            /\ \A k \in 1..Len(t) : k > Len(s) => t[k] \in {Zero, Long, e}
            /\ \A k \in 1..Len(t) : k # m => t[k] \in {Zero, Long} \/ (k <= Len(s) /\ t[k] = s[k])
            /\ ~Room(s, total) => \A k \in 1..Len(s) : t[k] = s[k]
<1> DEFINE t == Added(s, total, e)
           m == AddedAt(s, total)
<1>1. /\ Len(s) = n * SlotsPer /\ s \in Seq(Slots) /\ Len(s) \in Nat
      /\ total \in Nat \ {0}
  BY SlotSeqIs, SlotCount
<1>2. EndOf(s) \in 1..(Len(s) + 1) /\ EndOf(s) \in Nat \ {0}
  <2>1. EndOf(s) \in 1..(Len(s) + 1)
    BY <1>1, EndOfIs
  <2>2. QED
    BY <1>1, <2>1
<1>3. CASE Room(s, total)
  <2> DEFINE at == EndOf(s)
  <2>1. t = Splice(s, at, total, e) /\ m = at + total - 1
    BY <1>3 DEF Added, AddedAt
  <2>2. m <= Len(s) /\ \A k \in 1..Len(s) : k >= at => s[k] = Zero
    <3>1. \A k \in 1..Len(s) : k >= at => k \in at..Len(s)
      BY <1>1, <1>2
    <3>2. QED
      BY <1>3, <2>1, <3>1 DEF Room
  <2>3. Ended(s)
    BY <2>2 DEF Ended
  <2>30. at \in Nat \ {0} /\ at + total - 1 <= Len(s)
    BY <1>2, <2>1, <2>2
  <2> DEFINE z == Splice(s, at, total, e)
  <2> HIDE DEF at
  <2>4. /\ z \in SlotSeq(n) /\ z[at + total - 1] = e
        /\ \A k \in 1..Len(s) : k < at \/ k > at + total - 1 => z[k] = s[k]
        /\ \A k \in 1..Len(s) : k >= at /\ k < at + total - 1 => z[k] = Long
    BY <1>1, <2>30, SpliceIs
  <2>5. /\ t \in SlotSeq(n) /\ t[m] = e
        /\ \A k \in 1..Len(s) : k < at \/ k > m => t[k] = s[k]
        /\ \A k \in 1..Len(s) : k >= at /\ k < m => t[k] = Long
    BY <2>1, <2>4
  <2> HIDE DEF t, m, z
  <2>6. Len(t) = Len(s)
    BY <1>1, <2>5, SlotSeqIs
  <2>7. m \in 1..Len(s) /\ m >= at /\ m \in Nat
    BY <1>1, <1>2, <2>1, <2>2, <2>30
  <2>8. ASSUME NEW k \in 1..Len(s)
        PROVE  t[k] = s[k] \/ (k >= at /\ k < m /\ t[k] = Long) \/ (k = m /\ t[k] = e)
    <3>1. k < at \/ k > m \/ (k >= at /\ k < m) \/ k = m
      BY <2>7, <2>30
    <3>2. QED
      BY <2>5, <3>1
  <2>9. QED
    BY <1>3, <2>2, <2>3, <2>5, <2>6, <2>7, <2>8, <1>1 DEF t, m, at
<1>4. CASE ~Room(s, total)
  <2> DEFINE v == s \o Blank
             at == Len(s) + 1
  <2>1. t = Splice(v, at, total, e) /\ m = Len(s) + total
    BY <1>4 DEF Added, AddedAt
  <2>2. /\ v \in SlotSeq(n + 1) /\ Len(v) = Len(s) + SlotsPer
        /\ \A k \in 1..Len(s) : v[k] = s[k]
        /\ \A j \in 1..SlotsPer : v[Len(s) + j] = Zero
    <3>1. \A j \in 1..SlotsPer : Blank[j] = Zero
      BY DEF Blank
    <3>2. /\ v \in SlotSeq(n + 1) /\ Len(v) = Len(s) + SlotsPer
          /\ \A k \in 1..Len(s) : v[k] = s[k]
          /\ \A j \in 1..SlotsPer : v[Len(s) + j] = Blank[j]
      BY BlankIs, LongerIs
    <3>3. QED
      BY <3>1, <3>2
  <2>3. /\ at \in Nat \ {0} /\ at + total - 1 = Len(s) + total /\ Len(s) + total <= Len(s) + SlotsPer
        /\ n + 1 \in Nat
    BY <1>1, SlotCount
  <2> DEFINE z == Splice(v, at, total, e)
  <2> HIDE DEF v, at
  <2>4. /\ z \in SlotSeq(n + 1) /\ z[at + total - 1] = e
        /\ \A k \in 1..Len(v) : k < at \/ k > at + total - 1 => z[k] = v[k]
        /\ \A k \in 1..Len(v) : k >= at /\ k < at + total - 1 => z[k] = Long
    <3> DEFINE q == n + 1
    <3>1. q \in Nat /\ v \in SlotSeq(q) /\ at + total - 1 <= Len(v)
      BY <2>2, <2>3
    <3> HIDE DEF q
    <3>2. /\ z \in SlotSeq(q) /\ z[at + total - 1] = e
          /\ \A k \in 1..Len(v) : k < at \/ k > at + total - 1 => z[k] = v[k]
          /\ \A k \in 1..Len(v) : k >= at /\ k < at + total - 1 => z[k] = Long
      BY <1>1, <2>3, <3>1, SpliceIs DEF z
    <3>3. QED
      BY <3>2 DEF q
  <2>5. /\ t \in SlotSeq(n + 1) /\ t[m] = e
        /\ \A k \in 1..Len(v) : k < at \/ k > m => t[k] = v[k]
        /\ \A k \in 1..Len(v) : k >= at /\ k < m => t[k] = Long
    BY <2>1, <2>3, <2>4
  <2> HIDE DEF t, m, z
  <2>6. Len(t) = Len(v) /\ Len(t) = Len(s) + SlotsPer
    <3>1. Len(t) = (n + 1) * SlotsPer /\ Len(v) = (n + 1) * SlotsPer
      BY <2>2, <2>3, <2>5, SlotSeqIs
    <3>2. QED
      BY <2>2, <3>1
  <2>7. m \in 1..Len(t) /\ m > Len(s) /\ m \in Nat
    BY <1>1, <2>1, <2>6, SlotCount
  <2>8. \A k \in 1..Len(s) : k \in 1..Len(v) /\ k < at /\ k \in 1..Len(t)
    BY <1>1, <2>2, <2>6, SlotCount DEF at
  <2>9. \A k \in 1..Len(s) : t[k] = s[k]
    BY <2>2, <2>5, <2>8
  <2>10. ASSUME NEW k \in 1..Len(t), k > Len(s)
         PROVE  t[k] = Zero \/ t[k] = Long \/ k = m
    <3>1. k >= at /\ k \in Nat
      BY <1>1, <2>10 DEF at
    <3>2. CASE k < m
      BY <2>5, <2>6, <3>1, <3>2
    <3>3. CASE k > m
      <4> DEFINE j == k - Len(s)
      <4>1. j \in 1..SlotsPer /\ Len(s) + j = k
        BY <1>1, <2>6, <2>10, SlotCount
      <4>2. v[k] = Zero
        BY <2>2, <4>1
      <4>3. QED
        BY <2>5, <2>6, <3>3, <4>2
    <3>4. QED
      BY <2>7, <3>1, <3>2, <3>3
  <2>11. /\ \A k \in 1..Len(t) : k > Len(s) => t[k] \in {Zero, Long, e}
         /\ \A k \in 1..Len(t) : k # m => t[k] \in {Zero, Long} \/ (k <= Len(s) /\ t[k] = s[k])
    <3> SUFFICES ASSUME NEW k \in 1..Len(t)
                 PROVE  /\ k > Len(s) => t[k] \in {Zero, Long, e}
                        /\ k # m => t[k] \in {Zero, Long} \/ (k <= Len(s) /\ t[k] = s[k])
      OBVIOUS
    <3>1. k > Len(s) \/ (k <= Len(s) /\ k \in 1..Len(s))
      BY <1>1
    <3>2. k = m => t[k] = e
      BY <2>5
    <3>3. QED
      BY <2>9, <2>10, <3>1, <3>2
  <2>12. Len(s) <= Len(t) /\ ~(m <= Len(s))
    BY <1>1, <2>6, <2>7, SlotCount
  <2>13. t \in SlotSeq(IF Room(s, total) THEN n ELSE n + 1)
    BY <1>4, <2>5
  <2>14. QED
    BY <1>1, <2>5, <2>7, <2>9, <2>11, <2>12, <2>13, <1>4 DEF t, m
<1>5. QED
  BY <1>3, <1>4

\* An entry that is added is one of the changes of a call.
LEMMA AddedNear ==
  ASSUME NEW n \in Nat, NEW s \in SlotSeq(n), NEW total \in 1..SlotsPer, NEW e \in Slots,
         NEW sh, NEW E, e \in E
  PROVE  Near(s, Added(s, total, e), sh, E)
<1> DEFINE t == Added(s, total, e)
<1>1. /\ Len(s) <= Len(t)
      /\ \A k \in 1..Len(s) : t[k] = s[k] \/ (k >= EndOf(s) /\ Ended(s) /\ t[k] \in {Long, e})
      /\ \A k \in 1..Len(t) : k > Len(s) => t[k] \in {Zero, Long, e}
  BY AddedIs
<1> HIDE DEF t
<1>2. \A k \in 1..Len(s) : t[k] \in Allowed(s, k, sh, E)
  BY <1>1 DEF Allowed
<1>3. \A k \in 1..Len(t) : k > Len(s) => t[k] \in {Zero, Long} \cup E
  BY <1>1
<1>4. Near(s, t, sh, E)
  BY <1>1, <1>2, <1>3 DEF Near
<1>5. QED
  BY <1>4 DEF t

\* A scan finds an added entry, or the entry is behind the end.
LEMMA AddedFound ==
  ASSUME NEW n \in Nat, NEW s \in SlotSeq(n), NEW total \in 1..SlotsPer, NEW e \in Slots,
         NEW name, Hit(e, name), Lookup(s, name) = 0
  PROVE  \/ Lookup(Added(s, total, e), name) = AddedAt(s, total)
         \/ Buried(Added(s, total, e), name)
<1> DEFINE t == Added(s, total, e)
           m == AddedAt(s, total)
<1>1. /\ t \in SlotSeq(IF Room(s, total) THEN n ELSE n + 1)
      /\ Len(s) \in Nat /\ Len(s) <= Len(t) /\ m \in 1..Len(t) /\ t[m] = e
      /\ m <= Len(s) => s[m] = Zero
      /\ \A k \in 1..Len(t) : k # m => t[k] \in {Zero, Long} \/ (k <= Len(s) /\ t[k] = s[k])
  BY AddedIs
<1>2. Near(s, t, Short[name], {e})
  BY AddedNear
<1> HIDE DEF t, m
<1>3. t \in Seq(Slots) /\ s \in Seq(Slots) /\ Len(t) \in Nat
  <2>1. t \in SlotSeq(n) \/ t \in SlotSeq(n + 1)
    BY <1>1
  <2>2. n + 1 \in Nat
    OBVIOUS
  <2>3. t \in Seq(Slots)
    BY <2>1, <2>2, SlotSeqIs
  <2>4. QED
    BY <2>3, SlotSeqIs, LenProperties
<1>4. EndOf(s) \in 1..(Len(s) + 1) /\ EndOf(t) \in 1..(Len(t) + 1)
  BY <1>3, EndOfIs
<1>5. Hit(t[m], name)
  BY <1>1
<1>6. CASE m >= EndOf(t)
  BY <1>1, <1>5, <1>6 DEF Buried, t, m
<1>7. CASE ~(m >= EndOf(t))
  <2>1. m < EndOf(t)
    BY <1>1, <1>3, <1>4, <1>7
  <2>2. ASSUME NEW j \in 1..Len(t), j < m, Hit(t[j], name) PROVE FALSE
    <3>1. t[j] # Zero /\ t[j] # Long
      BY <2>2 DEF Hit, Zero, Long
    <3>2. j # m
      BY <1>1, <1>3, <2>2
    <3>3. j <= Len(s) /\ t[j] = s[j]
      BY <1>1, <3>1, <3>2
    <3>4. j \in 1..Len(s)
      BY <1>1, <3>3
    <3>5. ~(j < EndOf(s))
      BY <1>3, <2>2, <3>3, <3>4, LookupIs
    <3>6. ~Ended(s)
      BY <1>1, <1>4, <3>1, <3>3, <3>4, <3>5 DEF Ended
    <3>7. EndOf(t) = EndOf(s)
      BY <1>2, <1>3, <3>6, NearEnds
    <3>8. QED
      BY <1>1, <1>4, <2>1, <2>2, <3>4, <3>5, <3>7
  <2>3. Lookup(t, name) = m
    BY <1>1, <1>3, <1>5, <2>1, <2>2, LookupMade
  <2>4. QED
    BY <2>3 DEF t, m
<1>8. QED
  BY <1>6, <1>7

-----------------------------------------------------------------------------
(* A directory gets a cluster, and an entry. *)

\* The slots of a run with one more cluster.
LEMMA FlatLonger ==
  ASSUME NEW x \in Datas, NEW u \in Seq(Clusters), NEW a \in Clusters
  PROVE  /\ Append(u, a) \in Seq(Clusters) /\ Len(Append(u, a)) = Len(u) + 1
         /\ Flat(x, Append(u, a)) = Flat(x, u) \o x[a]
         /\ Len(Flat(x, u)) = Len(u) * SlotsPer
         /\ \A k \in 1..(Len(u) * SlotsPer) : Flat(x, Append(u, a))[k] = Flat(x, u)[k]
         /\ \A c \in Clusters : (\A i \in 1..Len(Append(u, a)) : Append(u, a)[i] # c)
                                  <=> c # a /\ \A i \in 1..Len(u) : u[i] # c
<1> DEFINE y == Append(u, a)
           n == Len(u)
           s == Flat(x, u)
           v == x[a]
<1>1. /\ y \in Seq(Clusters) /\ Len(y) = n + 1 /\ y[n + 1] = a /\ \A i \in 1..n : y[i] = u[i]
      /\ n \in Nat
  BY AppendProperties, LenProperties
<1>2. s \in SlotSeq(n) /\ \A i \in 1..n, j \in 1..SlotsPer : s[At(i, j)] = x[u[i]][j]
  BY FlatIs
<1>3. v \in Blocks
  BY DEF Datas
<1> HIDE DEF y, s, v
<1>4. Flat(x, y) \in SlotSeq(n + 1)
      /\ \A i \in 1..(n + 1), j \in 1..SlotsPer : Flat(x, y)[At(i, j)] = x[y[i]][j]
  BY <1>1, FlatIs
<1>5. /\ s \o v \in SlotSeq(n + 1)
      /\ (n + 1) * SlotsPer = Len(s) + SlotsPer
      /\ \A k \in 1..Len(s) : (s \o v)[k] = s[k]
      /\ \A j \in 1..SlotsPer : (s \o v)[Len(s) + j] = v[j]
  BY <1>1, <1>2, <1>3, LongerIs
<1>6. Len(s) = n * SlotsPer /\ Len(s) \in Nat
  BY <1>1, <1>2, SlotSeqIs
<1> HIDE DEF n
<1>7. ASSUME NEW i \in 1..n, NEW j \in 1..SlotsPer
      PROVE  Flat(x, y)[At(i, j)] = s[At(i, j)] /\ At(i, j) \in 1..Len(s)
  <2>1. i \in 1..(n + 1)
    BY <1>1
  <2>2. At(i, j) \in 1..(n * SlotsPer)
    BY <1>1, AtIs
  <2>3. QED
    BY <1>1, <1>2, <1>4, <1>6, <2>1, <2>2
<1>8. ASSUME NEW k \in 1..(n * SlotsPer) PROVE Flat(x, y)[k] = s[k]
  <2>1. PICK i \in 1..n, j \in 1..SlotsPer : k = At(i, j)
    BY <1>1, AtAll
  <2>2. QED
    BY <1>7, <2>1
<1>9. ASSUME NEW k \in 1..((n + 1) * SlotsPer) PROVE Flat(x, y)[k] = (s \o v)[k]
  <2>0. n + 1 \in Nat
    BY <1>1
  <2>1. PICK i \in 1..(n + 1), j \in 1..SlotsPer : k = At(i, j)
    <3> DEFINE q == n + 1
    <3>1. q \in Nat /\ k \in 1..(q * SlotsPer)
      BY <2>0
    <3> HIDE DEF q
    <3>2. \E i \in 1..q, j \in 1..SlotsPer : k = At(i, j)
      BY <3>1, AtAll
    <3>3. QED
      BY <3>2 DEF q
  <2>2. CASE i = n + 1
    <3>1. At(i, j) = Len(s) + j
      BY <1>1, <1>6, <2>2 DEF At
    <3>2. Flat(x, y)[k] = v[j]
      BY <1>1, <1>4, <2>1, <2>2 DEF v
    <3>3. QED
      BY <1>5, <2>1, <3>1, <3>2
  <2>3. CASE i # n + 1
    <3>1. i \in 1..n
      BY <1>1, <2>3
    <3>2. QED
      BY <1>5, <1>7, <2>1, <3>1
  <2>4. QED
    BY <2>2, <2>3
<1>10. Flat(x, y) = s \o v
  <2> DEFINE q == n + 1
             f == Flat(x, y)
             g == s \o v
  <2>0. \A k \in 1..(q * SlotsPer) : f[k] = g[k]
    BY <1>9
  <2>1. q \in Nat /\ f \in SlotSeq(q) /\ g \in SlotSeq(q)
    BY <1>1, <1>4, <1>5
  <2> HIDE DEF q, f, g
  <2>2. f = g
    BY <2>0, <2>1, SlotSeqEqual
  <2>3. QED
    BY <2>2 DEF f, g
<1>11. ASSUME NEW c \in Clusters
       PROVE  (\A i \in 1..Len(y) : y[i] # c) <=> c # a /\ \A i \in 1..n : u[i] # c
  <2>1. \A i \in 1..Len(y) : i = n + 1 \/ i \in 1..n
    BY <1>1
  <2>2. n + 1 \in 1..Len(y) /\ \A i \in 1..n : i \in 1..Len(y)
    BY <1>1
  <2>3. QED
    BY <1>1, <2>1, <2>2
<1>12. QED
  BY <1>1, <1>6, <1>8, <1>10, <1>11 DEF y, s, v, n

\* An allocation in the course of a call: a run more, and the rest as before.
LEMMA AllocReady ==
  ASSUME NEW p, NEW r, NEW G, NEW F, NEW b, Ready(p, r, G, F, b)
  PROVE  /\ Alloc(p) \in Parts
         /\ Trail(G, b, Alloc(p).log, Alloc(p).data)
         /\ Alloc(p).ok =>
              /\ Alloc(p).got \in Clusters /\ p.fat[Alloc(p).got] = Free
              /\ Alloc(p).fat = [p.fat EXCEPT ![Alloc(p).got] = Eoc]
              /\ Alloc(p).data = [p.data EXCEPT ![Alloc(p).got] = Blank]
<1>1. /\ p \in Parts /\ p.ok /\ Open(G, F) /\ Trail(G, b, p.log, p.data)
      /\ \A c \in Clusters : p.fat[c] = Free => c \in F
  BY DEF Ready
<1>2. QED
  BY <1>1, AllocIs

\* j is p with cluster a joined to directory d.
Joined(j, p, r, G, F, b, d, a) ==
  /\ p.fat[a] = Free /\ Ready(j, [r EXCEPT ![d] = Append(r[d], a)], G, F, b)
  /\ j.data = [p.data EXCEPT ![a] = Blank]

\* A directory gets one more cluster, or there is none.
LEMMA JoinIs ==
  ASSUME NEW p, NEW r, NEW G, NEW F, NEW b, Ready(p, r, G, F, b), NEW d \in DOMAIN r, d # 0
  PROVE  /\ Join(p, d) \in Parts
         /\ Trail(G, b, Join(p, d).log, Join(p, d).data)
         /\ Join(p, d).ok => \E a \in Clusters : Joined(Join(p, d), p, r, G, F, b, d, a)
<1> DEFINE a == Alloc(p)
           c == Last(Chain(p.fat, d))
           j == Join(p, d)
           g == a.got
<1>1. /\ p \in Parts /\ p.ok /\ Open(G, F) /\ Heap(p.fat, r)
      /\ \A x \in Clusters : p.fat[x] = Free => x \in F
  BY DEF Ready
<1>2. /\ a \in Parts /\ Trail(G, b, a.log, a.data)
      /\ a.ok => /\ g \in Clusters /\ p.fat[g] = Free
                 /\ a.fat = [p.fat EXCEPT ![g] = Eoc]
                 /\ a.data = [p.data EXCEPT ![g] = Blank]
  BY AllocReady
<1>3. Chain(p.fat, d) = r[d] /\ Len(r[d]) \in Nat \ {0} /\ r[d] \in Seq(Clusters)
  BY <1>1, HeapChain, HeapFacts
<1>4. c = r[d][Len(r[d])] /\ c \in Clusters
  BY <1>3, LenProperties DEF Last
<1>5. j = IF a.ok THEN [a EXCEPT !.fat[c] = g] ELSE a
  BY DEF Join
<1> HIDE DEF a, c, j, g
<1>6. CASE ~a.ok
  <2>1. a.ok \in BOOLEAN
    BY <1>2, PartFacts
  <2>2. j = a
    BY <1>5, <1>6
  <2>3. QED
    BY <1>2, <1>6, <2>2 DEF j
<1>7. CASE a.ok
  <2> DEFINE f == [a.fat EXCEPT ![c] = g]
             q == [r EXCEPT ![d] = Append(r[d], g)]
  <2>1. f = [p.fat EXCEPT ![g] = Eoc, ![c] = g]
    BY <1>2, <1>7
  <2>2. Heap([p.fat EXCEPT ![g] = Eoc, ![r[d][Len(r[d])]] = g], [r EXCEPT ![d] = Append(@, g)])
    BY <1>1, <1>2, <1>7, HeapLink
  <2>3. Heap(f, q)
    BY <1>4, <2>1, <2>2
  <2>4. \A x \in Clusters : f[x] = Free => p.fat[x] = Free
    <3> SUFFICES ASSUME NEW x \in Clusters, f[x] = Free PROVE p.fat[x] = Free
      OBVIOUS
    <3>1. p.fat \in Fats /\ x \in Cells /\ g # Free /\ Eoc # Free
      BY <1>1, <1>2, <1>7, PartFacts, CellFacts
    <3>2. QED
      BY <2>1, <3>1 DEF Fats
  <2> HIDE DEF f, q
  <2>5. a = [fat |-> a.fat, data |-> a.data, log |-> a.log, hint |-> a.hint, got |-> a.got, ok |-> a.ok]
        /\ a.data \in Datas /\ a.log \in Seq(ClusterWrites) /\ a.hint \in Nat /\ a.got \in Cells
    BY <1>2, PartFacts
  <2>6. j = [fat |-> f, data |-> a.data, log |-> a.log, hint |-> a.hint, got |-> a.got, ok |-> a.ok]
    BY <1>5, <1>7, <2>5 DEF f
  <2>7. f \in Fats
    BY <2>3 DEF Heap
  <2>8. /\ j \in Parts /\ j.ok /\ j.fat = f /\ j.data = a.data /\ j.log = a.log
    BY <1>2, <1>7, <2>5, <2>6, <2>7, PartFacts DEF Parts
  <2>9. Ready(j, q, G, F, b)
    BY <1>1, <1>2, <2>3, <2>4, <2>8 DEF Ready
  <2>10. Joined(j, p, r, G, F, b, d, g)
    BY <1>2, <1>7, <2>8, <2>9 DEF Joined, q
  <2>11. QED
    BY <1>2, <1>7, <2>8, <2>10 DEF j
<1>8. QED
  BY <1>6, <1>7

\* G takes every content in which some slots of the directory in u are those
\* of b and the others those of t, whatever the clusters F hold.
Wide(G, F, b, u, t) ==
  \A x \in Datas :
    /\ \A c \in Clusters : c \notin F /\ (\A i \in 1..Len(u) : u[i] # c) => x[c] = b[c]
    /\ \A k \in 1..(Len(u) * SlotsPer) : Flat(x, u)[k] \in {Flat(b, u)[k], t[k]}
    => x \in G

\* w is p with the slots t in directory d, whose run is u now.
Entered(w, p, r, G, F, b, d, u, t) ==
  /\ Ready(w, [r EXCEPT ![d] = u], G, F, b)
  /\ u \in Seq(Clusters) /\ Flat(w.data, u) = t
  /\ \A c \in Clusters : p.fat[c] # Free /\ (\A i \in 1..Len(r[d]) : r[d][i] # c)
                           => w.data[c] = p.data[c]

\* A directory is written where it is.
LEMMA EnterHere ==
  ASSUME NEW p, NEW r, NEW G, NEW F, NEW b, Ready(p, r, G, F, b), NEW d \in DOMAIN r, d # 0,
         NEW t \in SlotSeq(Len(r[d])), Wide(G, F, p.data, r[d], t)
  PROVE  Entered(WriteDir(p, d, t), p, r, G, F, b, d, r[d], t)
<1> DEFINE w == WriteDir(p, d, t)
           u == r[d]
<1>1. p \in Parts /\ Heap(p.fat, r)
  BY DEF Ready
<1>2. u \in Seq(Clusters)
  BY <1>1, HeapChain
<1>3. Mixed(G, p.data, u, t)
  BY DEF Mixed, Wide, SameBut
<1>4. /\ Ready(w, r, G, F, b) /\ SameBut(p.data, w.data, u) /\ Flat(w.data, u) = t
  BY <1>3, WriteDirIs
<1>5. [r EXCEPT ![d] = u] = r
  BY <1>1 DEF Heap
<1> HIDE DEF w, u
<1>6. \A c \in Clusters : (\A i \in 1..Len(u) : u[i] # c) => w.data[c] = p.data[c]
  BY <1>4 DEF SameBut
<1>7. QED
  BY <1>2, <1>4, <1>5, <1>6 DEF Entered, w, u

\* The two writes of a directory that got a cluster.
LEMMA EnterLonger ==
  ASSUME NEW p, NEW r, NEW G, NEW F, NEW b, Ready(p, r, G, F, b), NEW d \in DOMAIN r, d # 0,
         NEW a \in Clusters, NEW j, Joined(j, p, r, G, F, b, d, a),
         NEW t \in SlotSeq(Len(r[d]) + 1), Wide(G, F, p.data, r[d], t),
         \A k \in 1..(Len(r[d]) * SlotsPer) : t[k] = Flat(p.data, r[d])[k]
  PROVE  Entered(WriteDir(WriteDir(j, d, Flat(p.data, r[d]) \o Blank), d, t),
                 p, r, G, F, b, d, Append(r[d], a), t)
<1> DEFINE u == r[d]
           y == Append(u, a)
           q == [r EXCEPT ![d] = y]
           s == Flat(p.data, u)
           v == s \o Blank
           w1 == WriteDir(j, d, v)
           w == WriteDir(w1, d, t)
<1>1. /\ p \in Parts /\ Heap(p.fat, r) /\ p.data \in Datas
      /\ \A c \in Clusters : p.fat[c] = Free => c \in F
  BY PartFacts DEF Ready
<1>2. u \in Seq(Clusters) /\ Len(u) \in Nat
  BY <1>1, HeapChain, LenProperties
<1>3. p.fat[a] = Free /\ Ready(j, q, G, F, b) /\ j.data = [p.data EXCEPT ![a] = Blank]
  BY DEF Joined
<1>4. q[d] = y /\ d \in DOMAIN q
  OBVIOUS
<1>5. j \in Parts /\ Heap(j.fat, q) /\ Trail(G, b, j.log, j.data) /\ j.data \in Datas
  <2> HIDE DEF q, y
  <2>1. j \in Parts /\ Heap(j.fat, q) /\ Trail(G, b, j.log, j.data)
    BY <1>3 DEF Ready
  <2>2. QED
    BY <2>1, PartFacts
<1>6. ASSUME NEW x \in Datas
      PROVE  /\ y \in Seq(Clusters) /\ Len(y) = Len(u) + 1 /\ Flat(x, y) = Flat(x, u) \o x[a]
             /\ \A k \in 1..(Len(u) * SlotsPer) : Flat(x, y)[k] = Flat(x, u)[k]
             /\ \A c \in Clusters : (\A i \in 1..Len(y) : y[i] # c)
                                      <=> c # a /\ \A i \in 1..Len(u) : u[i] # c
  BY <1>2, FlatLonger
<1>7. a \in F /\ \A i \in 1..Len(u) : u[i] # a
  BY <1>1, <1>3, HeapFree
<1>8. j.data[a] = Blank /\ \A c \in Clusters : c # a => j.data[c] = p.data[c]
  BY <1>1, <1>3 DEF Datas
<1>9. v \in SlotSeq(Len(u) + 1) /\ s \in SlotSeq(Len(u))
  <2>1. s \in SlotSeq(Len(u))
    BY <1>1, <1>2, FlatIs
  <2> HIDE DEF s
  <2>2. QED
    BY <1>2, <2>1, BlankIs, LongerIs
<1>10. Flat(j.data, u) = s
  <2> DEFINE e == j.data
             f == Flat(e, u)
  <2>1. \A i \in 1..Len(u) : u[i] \in Clusters /\ u[i] # a
    BY <1>2, <1>7, LenProperties
  <2>2. e \in Datas
    BY <1>5
  <2> HIDE DEF e
  <2>3. \A i \in 1..Len(u) : e[u[i]] = p.data[u[i]]
    BY <1>8, <2>1 DEF e
  <2>4. f \in SlotSeq(Len(u)) /\ \A i \in 1..Len(u), h \in 1..SlotsPer : f[At(i, h)] = e[u[i]][h]
    BY <1>2, <2>2, FlatIs
  <2>5. \A i \in 1..Len(u), h \in 1..SlotsPer : s[At(i, h)] = p.data[u[i]][h]
    BY <1>1, <1>2, FlatIs
  <2> HIDE DEF f, s, u
  <2>6. \A k \in 1..(Len(u) * SlotsPer) : f[k] = s[k]
    <3> SUFFICES ASSUME NEW k \in 1..(Len(u) * SlotsPer) PROVE f[k] = s[k]
      OBVIOUS
    <3>1. PICK i \in 1..Len(u), h \in 1..SlotsPer : k = At(i, h)
      BY <1>2, AtAll
    <3>2. QED
      BY <2>3, <2>4, <2>5, <3>1
  <2>7. f = s
    BY <1>2, <1>9, <2>4, <2>6, SlotSeqEqual
  <2>8. QED
    BY <2>7 DEF f, e
<1>11. Flat(j.data, y) = v
  BY <1>5, <1>6, <1>8, <1>10
<1>12. j.data \in G
  BY <1>5, TrailEnds
<1> HIDE DEF u, y, v, s, q
<1>13. Mixed(G, j.data, y, v)
  <2> SUFFICES ASSUME NEW x \in Datas, SameBut(j.data, x, y),
                      \A k \in 1..(Len(y) * SlotsPer) : Flat(x, y)[k] \in {Flat(j.data, y)[k], v[k]}
               PROVE  x \in G
    BY DEF Mixed
  <2>1. \A k \in 1..(Len(y) * SlotsPer) : Flat(j.data, y)[k] = Flat(x, y)[k]
    BY <1>11
  <2>2. \A c \in Clusters : (\A i \in 1..Len(y) : y[i] # c) => j.data[c] = x[c]
    BY DEF SameBut
  <2> DEFINE e == j.data
  <2>3. e \in Datas /\ y \in Seq(Clusters)
    BY <1>5, <1>6
  <2> HIDE DEF e
  <2>4. e = x
    BY <2>1, <2>2, <2>3, FlatSame DEF e
  <2>5. QED
    BY <1>12, <2>4 DEF e
<1>14. d # 0 /\ v \in SlotSeq(Len(q[d])) /\ t \in SlotSeq(Len(q[d]))
  <2>1. Len(q[d]) = Len(u) + 1
    BY <1>1, <1>4, <1>6
  <2>2. QED
    BY <1>9, <2>1 DEF u
<1>15. Ready(w1, q, G, F, b) /\ SameBut(j.data, w1.data, y) /\ Flat(w1.data, y) = v
  <2>1. Mixed(G, j.data, q[d], v)
    BY <1>4, <1>13
  <2>2. Ready(w1, q, G, F, b) /\ SameBut(j.data, w1.data, q[d]) /\ Flat(w1.data, q[d]) = v
    BY <1>3, <1>4, <1>14, <2>1, WriteDirIs
  <2>3. QED
    BY <1>4, <2>2
<1> HIDE DEF w1
<1>16. w1.data = j.data
  <2> DEFINE e == j.data
             f == w1.data
  <2>1. w1 \in Parts
    BY <1>15 DEF Ready
  <2>2. e \in Datas /\ f \in Datas /\ y \in Seq(Clusters)
    BY <1>5, <1>6, <2>1, PartFacts
  <2>3. \A c \in Clusters : (\A i \in 1..Len(y) : y[i] # c) => f[c] = e[c]
    BY <1>15 DEF SameBut
  <2>4. Flat(f, y) = Flat(e, y)
    BY <1>11, <1>15
  <2> HIDE DEF e, f
  <2>5. f = e
    BY <2>2, <2>3, <2>4, FlatSame
  <2>6. QED
    BY <2>5 DEF e, f
<1>17. Mixed(G, w1.data, y, t)
  <2> SUFFICES ASSUME NEW x \in Datas, SameBut(w1.data, x, y),
                      \A k \in 1..(Len(y) * SlotsPer) : Flat(x, y)[k] \in {Flat(w1.data, y)[k], t[k]}
               PROVE  x \in G
    BY DEF Mixed
  <2>1. ASSUME NEW c \in Clusters, c \notin F, \A i \in 1..Len(u) : u[i] # c
        PROVE  x[c] = p.data[c]
    <3>1. c # a
      BY <1>7, <2>1
    <3>2. \A i \in 1..Len(y) : y[i] # c
      BY <1>1, <1>6, <2>1, <3>1
    <3>3. x[c] = j.data[c]
      BY <1>16, <3>2 DEF SameBut
    <3>4. QED
      BY <1>8, <3>1, <3>3
  <2>2. ASSUME NEW k \in 1..(Len(u) * SlotsPer)
        PROVE  Flat(x, u)[k] \in {s[k], t[k]}
    <3>1. k \in 1..(Len(y) * SlotsPer)
      <4>1. Len(y) = Len(u) + 1
        BY <1>1, <1>6
      <4>2. (Len(u) + 1) * SlotsPer = Len(u) * SlotsPer + SlotsPer
        BY <1>2, SlotCount
      <4>3. Len(u) * SlotsPer \in Nat
        BY <1>2, SlotCount
      <4>4. QED
        BY <4>1, <4>2, <4>3, SlotCount
    <3>2. Flat(x, y)[k] = Flat(x, u)[k] /\ Flat(j.data, y)[k] = Flat(j.data, u)[k]
      BY <1>5, <1>6
    <3>3. QED
      BY <1>10, <1>16, <3>1, <3>2
  <2>3. QED
    BY <2>1, <2>2 DEF Wide, u, s
<1>18. Ready(w, q, G, F, b) /\ SameBut(w1.data, w.data, y) /\ Flat(w.data, y) = t
  <2>1. Mixed(G, w1.data, q[d], t)
    BY <1>4, <1>17
  <2>2. Ready(w, q, G, F, b) /\ SameBut(w1.data, w.data, q[d]) /\ Flat(w.data, q[d]) = t
    BY <1>4, <1>14, <1>15, <2>1, WriteDirIs
  <2>3. QED
    BY <1>4, <2>2
<1>19. ASSUME NEW c \in Clusters, p.fat[c] # Free, \A i \in 1..Len(u) : u[i] # c
       PROVE  w.data[c] = p.data[c]
  <2>1. c # a
    BY <1>3, <1>19
  <2>2. \A i \in 1..Len(y) : y[i] # c
    BY <1>1, <1>6, <1>19, <2>1
  <2>3. w.data[c] = j.data[c]
    BY <1>16, <1>18, <2>2 DEF SameBut
  <2>4. QED
    BY <1>8, <2>1, <2>3
<1>20. y \in Seq(Clusters)
  BY <1>1, <1>6
<1>21. QED
  BY <1>18, <1>19, <1>20 DEF Entered, w, w1, v, s, u, q, y

\* w is a partition, and its writes keep to G.
Outcome(w, G, b) == w \in Parts /\ Trail(G, b, w.log, w.data)

\* A new entry goes in, in the directory's last cluster or in a new one.
LEMMA PutEntryIs ==
  ASSUME NEW p, NEW r, NEW G, NEW F, NEW b, Ready(p, r, G, F, b), NEW d \in DOMAIN r, d # 0,
         NEW total \in 1..SlotsPer, NEW e \in Slots, NEW s, s = Flat(p.data, r[d]),
         Wide(G, F, p.data, r[d], Added(s, total, e))
  PROVE  /\ Outcome(PutEntry(p, d, s, total, e), G, b)
         /\ PutEntry(p, d, s, total, e).ok =>
              \E u : Entered(PutEntry(p, d, s, total, e), p, r, G, F, b, d, u, Added(s, total, e))
<1> DEFINE w == PutEntry(p, d, s, total, e)
           t == Added(s, total, e)
           n == Len(r[d])
<1>1. p \in Parts /\ Heap(p.fat, r) /\ p.data \in Datas
  BY PartFacts DEF Ready
<1>2. r[d] \in Seq(Clusters) /\ n \in Nat
  BY <1>1, HeapChain, LenProperties
<1>3. s \in SlotSeq(n)
  BY <1>1, <1>2, FlatIs
<1>4. /\ t \in SlotSeq(IF Room(s, total) THEN n ELSE n + 1)
      /\ ~Room(s, total) => \A k \in 1..Len(s) : t[k] = s[k]
  BY <1>2, <1>3, AddedIs
<1> HIDE DEF t, n
<1>5. CASE Room(s, total)
  <2>1. w = WriteDir(p, d, t)
    BY <1>5 DEF PutEntry, Room, Added, t
  <2>2. t \in SlotSeq(Len(r[d]))
    BY <1>4, <1>5 DEF n
  <2>3. Wide(G, F, p.data, r[d], t)
    BY DEF t
  <2>4. Entered(WriteDir(p, d, t), p, r, G, F, b, d, r[d], t)
    BY <2>2, <2>3, EnterHere
  <2>5. Entered(w, p, r, G, F, b, d, r[d], t)
    BY <2>1, <2>4
  <2> HIDE DEF w
  <2>6. Outcome(w, G, b)
    BY <2>5 DEF Entered, Ready, Outcome
  <2>7. QED
    BY <2>5, <2>6 DEF w, t
<1>6. CASE ~Room(s, total)
  <2> DEFINE j == Join(p, d)
  <2>1. w = IF ~j.ok THEN j ELSE WriteDir(WriteDir(j, d, s \o Blank), d, t)
    BY <1>6 DEF PutEntry, Room, Added, t
  <2>2. /\ j \in Parts /\ Trail(G, b, j.log, j.data)
        /\ j.ok => \E a \in Clusters : Joined(j, p, r, G, F, b, d, a)
    BY JoinIs
  <2> HIDE DEF j, w
  <2>3. CASE ~j.ok
    <3>1. w = j
      BY <2>1, <2>3
    <3>2. QED
      BY <2>2, <2>3, <3>1 DEF Outcome, w
  <2>4. CASE j.ok
    <3>1. PICK a \in Clusters : Joined(j, p, r, G, F, b, d, a)
      BY <2>2, <2>4
    <3>2. t \in SlotSeq(Len(r[d]) + 1)
      BY <1>4, <1>6 DEF n
    <3>3. \A k \in 1..(Len(r[d]) * SlotsPer) : t[k] = Flat(p.data, r[d])[k]
      <4>1. Len(s) = n * SlotsPer
        BY <1>2, <1>3, SlotSeqIs
      <4>2. QED
        BY <1>4, <1>6, <4>1 DEF n
    <3>4. Wide(G, F, p.data, r[d], t)
      BY DEF t
    <3>5. Entered(WriteDir(WriteDir(j, d, Flat(p.data, r[d]) \o Blank), d, t),
                  p, r, G, F, b, d, Append(r[d], a), t)
      BY <3>1, <3>2, <3>3, <3>4, EnterLonger
    <3>6. w = WriteDir(WriteDir(j, d, Flat(p.data, r[d]) \o Blank), d, t)
      BY <2>1, <2>4
    <3>7. Entered(w, p, r, G, F, b, d, Append(r[d], a), t)
      BY <3>5, <3>6
    <3>8. Outcome(w, G, b)
      BY <3>7 DEF Entered, Ready, Outcome
    <3>9. QED
      BY <3>7, <3>8 DEF w, t
  <2>5. QED
    BY <2>3, <2>4
<1>7. QED
  BY <1>5, <1>6

\* What an entry is.
LEMMA EntryIs ==
  ASSUME NEW short \in Shorts, NEW c \in Cells, NEW size \in Nat, NEW dir \in BOOLEAN
  PROVE  /\ Entry(short, c, size, dir) \in Slots
         /\ Entry(short, c, size, dir).kind = "entry" /\ Entry(short, c, size, dir).short = short
         /\ Entry(short, c, size, dir).cluster = c /\ Entry(short, c, size, dir).size = size
         /\ Entry(short, c, size, dir).dir = dir
  BY DEF Entry, Slots

\* The slots that an entry of name n takes.
LEMMA LfnIs ==
  ASSUME NEW n \in Names
  PROVE  Lfn[n] + 1 \in 1..SlotsPer /\ Short[n] \in Shorts /\ Short[n] \notin {".", ".."}
  BY GeometryAssumption, CallsAssumption DEF Shorts

\* An entry for name n goes into directory d.
LEMMA AddEntryIs ==
  ASSUME NEW p, NEW r, NEW G, NEW F, NEW b, Ready(p, r, G, F, b), NEW d \in DOMAIN r, d # 0,
         NEW n \in Names, NEW c \in Cells, NEW size \in Nat, NEW dir \in BOOLEAN,
         Wide(G, F, p.data, r[d],
              Added(Flat(p.data, r[d]), Lfn[n] + 1, Entry(Short[n], c, size, dir)))
  PROVE  /\ Outcome(AddEntry(p, d, n, c, size, dir), G, b)
         /\ AddEntry(p, d, n, c, size, dir).ok =>
              \E u : Entered(AddEntry(p, d, n, c, size, dir), p, r, G, F, b, d, u,
                             Added(Flat(p.data, r[d]), Lfn[n] + 1, Entry(Short[n], c, size, dir)))
<1> DEFINE s == Flat(p.data, r[d])
           e == Entry(Short[n], c, size, dir)
           total == Lfn[n] + 1
<1>1. Heap(p.fat, r)
  BY DEF Ready
<1>2. DirSlots(p.fat, p.data, d) = s
  BY <1>1, DirIs
<1>3. e \in Slots /\ total \in 1..SlotsPer
  BY EntryIs, LfnIs
<1>4. AddEntry(p, d, n, c, size, dir) = PutEntry(p, d, s, total, e)
  BY <1>2 DEF AddEntry
<1>5. Wide(G, F, p.data, r[d], Added(s, total, e)) /\ s = Flat(p.data, r[d])
  OBVIOUS
<1> HIDE DEF s, e, total
<1>6. /\ Outcome(PutEntry(p, d, s, total, e), G, b)
      /\ PutEntry(p, d, s, total, e).ok =>
           \E u : Entered(PutEntry(p, d, s, total, e), p, r, G, F, b, d, u, Added(s, total, e))
  BY <1>3, <1>5, PutEntryIs
<1>7. QED
  BY <1>4, <1>6 DEF s, e, total

-----------------------------------------------------------------------------
(* The tree of directories. *)

\* Whatever the table says, a chain consists of clusters.
LEMMA ChainType ==
  ASSUME NEW fat, NEW c
  PROVE  Chain(fat, c) \in Seq(Clusters)
<1> DEFINE M == MaxCluster
           Step(q) == IF fat[q[Len(q)]] \in Clusters THEN Append(q, fat[q[Len(q)]]) ELSE q
           Is(w) == w = [k \in 1..M |->
                          IF k = 1 THEN <<c>>
                          ELSE LET q == w[k - 1] IN
                               IF fat[q[Len(q)]] \in Clusters
                               THEN Append(q, fat[q[Len(q)]]) ELSE q]
           walk == CHOOSE w : Is(w)
           V == Seq(Clusters)
           m == M - 1
           F == [q \in V |-> [k \in 1..m |-> Step(q)]]
<1>1. CASE c \notin Clusters
  BY <1>1, NoChain, EmptySeq
<1>2. CASE c \in Clusters
  <2>1. M \in Nat \ {0} /\ m \in Nat
    BY CellFacts
  <2>2. \A q \in V : Step(q) \in V
    <3> SUFFICES ASSUME NEW q \in V PROVE Step(q) \in V
      OBVIOUS
    <3>1. \A x \in Clusters : Append(q, x) \in V
      BY AppendProperties
    <3>2. QED
      BY <3>1
  <2>3. <<c>> \in V
    BY <1>2
  <2> HIDE DEF Step
  <2>4. F \in [V -> [1..m -> V]]
    BY <2>2
  <2> HIDE DEF F, V, m
  <2>5. PICK g : Recursive(g, m, V, <<c>>, F)
    BY <2>1, <2>3, <2>4, RecursionExists
  <2>6. g \in [0..m -> V] /\ g[0] = <<c>> /\ \A i \in 1..m : g[i] = F[g[i - 1]][i]
    BY <2>5 DEF Recursive
  <2>7. \A i \in 1..m : g[i - 1] \in V /\ g[i] = Step(g[i - 1])
    <3>1. SUFFICES ASSUME NEW i \in 1..m PROVE g[i - 1] \in V /\ g[i] = Step(g[i - 1])
      OBVIOUS
    <3>2. i - 1 \in 0..m
      BY <2>1
    <3>3. g[i - 1] \in V /\ g[i] = F[g[i - 1]][i]
      BY <2>6, <3>2
    <3>4. QED
      BY <3>3 DEF F
  <2> DEFINE f == [k \in 1..M |-> g[k - 1]]
  <2>8. \A k \in 1..M : k - 1 \in 0..m
    BY <2>1 DEF m
  <2>9. f[1] = <<c>>
    <3>1. 1 \in 1..M /\ 1 - 1 = 0
      BY <2>1
    <3>2. QED
      BY <2>6, <3>1
  <2>10. \A k \in 2..M : f[k] = Step(f[k - 1])
    <3>1. SUFFICES ASSUME NEW k \in 2..M PROVE f[k] = Step(f[k - 1])
      OBVIOUS
    <3>2. k \in 1..M /\ k - 1 \in 1..M /\ k - 1 \in 1..m
      BY <2>1 DEF m
    <3>3. f[k] = g[k - 1] /\ f[k - 1] = g[(k - 1) - 1]
      BY <3>2
    <3> HIDE DEF f
    <3>4. g[k - 1] = Step(g[(k - 1) - 1])
      BY <2>7, <3>2
    <3>5. QED
      BY <3>3, <3>4
  <2>11. f = [k \in 1..M |-> f[k]]
    OBVIOUS
  <2> HIDE DEF f
  <2>12. \A k \in 1..M : f[k] = IF k = 1 THEN <<c>> ELSE Step(f[k - 1])
    <3>1. \A k \in 1..M : k = 1 \/ k \in 2..M
      BY <2>1
    <3>2. \A k \in 2..M : k # 1
      OBVIOUS
    <3>3. QED
      BY <2>9, <2>10, <3>1, <3>2
  <2>13. Is(f)
    BY <2>11, <2>12 DEF Step
  <2>14. Is(walk)
    <3> HIDE DEF Is
    <3>1. QED
      BY <2>13
  <2>15. Chain(fat, c) = walk[M]
    BY <1>2 DEF Chain
  <2> HIDE DEF walk
  <2>16. \A k \in 1..M : walk[k] = IF k = 1 THEN <<c>> ELSE Step(walk[k - 1])
    BY <2>14 DEF Step
  <2> HIDE DEF Is
  <2> DEFINE T == {k \in 0..m : walk[k + 1] \in V}
  <2>17. 0 \in T
    BY <2>1, <2>3, <2>16
  <2>18. \A i \in 0..(m - 1) : i \in T => i + 1 \in T
    <3> SUFFICES ASSUME NEW i \in 0..(m - 1), i \in T PROVE i + 1 \in T
      OBVIOUS
    <3>1. (i + 1) + 1 \in 1..M /\ ((i + 1) + 1) - 1 = i + 1 /\ (i + 1) + 1 # 1 /\ i + 1 \in 0..m
      BY <2>1 DEF m
    <3>2. walk[(i + 1) + 1] = Step(walk[i + 1]) /\ walk[i + 1] \in V
      BY <2>16, <3>1
    <3>3. QED
      BY <2>2, <3>1, <3>2 DEF V
  <2> HIDE DEF T
  <2>19. \A i \in 0..m : i \in T
    BY <2>1, <2>17, <2>18, UpTo
  <2>20. m \in 0..m /\ m + 1 = M
    BY <2>1 DEF m
  <2>21. walk[M] \in V
    BY <2>19, <2>20 DEF T
  <2>22. QED
    BY <2>15, <2>21 DEF V
<1>3. QED
  BY <1>1, <1>2

\* The slots of a directory are slots.
LEMMA DirType ==
  ASSUME NEW fat, NEW data \in Datas, NEW d
  PROVE  /\ DirSlots(fat, data, d) = Flat(data, Chain(fat, d))
         /\ DirSlots(fat, data, d) \in Seq(Slots)
         /\ DirSlots(fat, data, d) \in SlotSeq(Len(Chain(fat, d)))
<1>1. Chain(fat, d) \in Seq(Clusters)
  BY ChainType
<1>2. DirSlots(fat, data, d) = Flat(data, Chain(fat, d))
  BY DEF DirSlots, Flat
<1>3. Flat(data, Chain(fat, d)) \in SlotSeq(Len(Chain(fat, d))) /\ Len(Chain(fat, d)) \in Nat
  BY <1>1, FlatIs, LenProperties
<1>4. QED
  BY <1>2, <1>3, SlotSeqIs

\* The entry x of directory d fits the heap r and the directories D.
Placed(r, D, d, x) ==
  /\ x.cluster \in DOMAIN r /\ x.cluster # Root
  /\ x.dir => d = Root /\ x.cluster # 0 /\ x.cluster \in DOMAIN D
  /\ ~x.dir /\ x.cluster # 0 => Len(r[x.cluster]) = x.size

\* Slot k of directory d has a real entry with cluster h.
Holds(D, d, k, h) == Real(D[d][k]) /\ D[d][k].cluster = h

\* The directories D and the heap r fit: every directory but the root has its
\* entry in the root, every run but those of the root and cell 0 belongs to
\* an entry, and to one only.
Tree(r, D) ==
  /\ D = [d \in DOMAIN D |-> D[d]] /\ Root \in DOMAIN D
  /\ \A d \in DOMAIN D : D[d] \in Seq(Slots)
  /\ \A d \in DOMAIN D : d = Root \/ \E k \in 1..Len(D[Root]) : Holds(D, Root, k, d) /\ D[Root][k].dir
  /\ \A d \in DOMAIN D : \A k \in 1..Len(D[d]) : Real(D[d][k]) => Placed(r, D, d, D[d][k])
  /\ \A h \in DOMAIN r : h \in {0, Root} \/ \E d \in DOMAIN D : \E k \in 1..Len(D[d]) : Holds(D, d, k, h)
  /\ \A d, e \in DOMAIN D : \A k \in 1..Len(D[d]), j \in 1..Len(D[e]), h \in Clusters :
       Holds(D, d, k, h) /\ Holds(D, e, j, h) => d = e /\ k = j

\* The directories are on the disk.
Held(data, r, D) == \A d \in DOMAIN D : D[d] = Flat(data, r[d])

\* All is in order.
Tidy(fat, data, r, D) == data \in Datas /\ Heap(fat, r) /\ Tree(r, D) /\ Held(data, r, D)

\* The fields of an entry.
LEMMA RealIs ==
  ASSUME NEW x \in Slots, x.kind = "entry"
  PROVE  /\ x.cluster \in Cells /\ x.size \in Nat /\ x.dir \in BOOLEAN /\ x.short \in Shorts
         /\ x = [kind |-> "entry", short |-> x.short, cluster |-> x.cluster,
                 size |-> x.size, dir |-> x.dir]
         /\ x # Zero /\ x # Long
<1>1. x \in [kind : {"entry"}, short : Shorts, cluster : Cells, size : Nat, dir : BOOLEAN]
  BY DEF Slots, Zero, Long
<1>2. x # Zero /\ x # Long
  BY DEF Zero, Long
<1>3. QED
  BY <1>1, <1>2

\* What fsck accepts is a tree of directories over a heap of chains.
LEMMA SoundIsTidy ==
  ASSUME NEW fat \in Fats, NEW data \in Datas, Sound(fat, data)
  PROVE  \E r, D : Tidy(fat, data, r, D)
<1> DEFINE S(d) == DirSlots(fat, data, d)
           ps == Places(fat, data)
           ds == Dirs(fat, data)
           heads == {0, Root} \cup {EntryAt(fat, data, x).cluster : x \in ps}
           r == [h \in heads |-> RunFrom(fat, h)]
           D == [d \in ds |-> S(d)]
           e(x) == EntryAt(fat, data, x)
<1>1. /\ Runs(fat, r)
      /\ \A x \in ps : /\ e(x).cluster # Root
                       /\ e(x).dir => x[1] = Root /\ e(x).cluster # 0
                       /\ ~e(x).dir /\ e(x).cluster # 0 =>
                            Len(Chain(fat, e(x).cluster)) = e(x).size
      /\ \A x, y \in ps : e(x).cluster = e(y).cluster /\ e(x).cluster # 0 => x = y
  BY DEF Sound
<1>2. ASSUME NEW d
      PROVE  /\ S(d) \in Seq(Slots) /\ Len(S(d)) \in Nat /\ DOMAIN S(d) = 1..Len(S(d))
             /\ \A k \in 1..Len(S(d)) : S(d)[k] \in Slots
  <2>1. S(d) \in Seq(Slots)
    BY DirType
  <2> HIDE DEF S
  <2>2. QED
    BY <2>1, LenProperties
<1>3. ASSUME NEW d
      PROVE  d \in ds <=> \/ d = Root
                          \/ \E k \in 1..Len(S(Root)) :
                               Real(S(Root)[k]) /\ S(Root)[k].dir /\ S(Root)[k].cluster = d
  <2>1. DOMAIN S(Root) = 1..Len(S(Root))
    BY <1>2
  <2>2. QED
    BY <2>1 DEF Dirs, ToSet
<1>4. ASSUME NEW d, NEW k
      PROVE  <<d, k>> \in ps <=> d \in ds /\ k \in 1..Len(S(d)) /\ Real(S(d)[k])
  <2>1. \A g : DOMAIN S(g) = 1..Len(S(g))
    BY <1>2
  <2>2. QED
    BY <2>1 DEF Places
<1>5. ASSUME NEW x \in ps PROVE \E d, k : x = <<d, k>>
  BY DEF Places
<1>6. ASSUME NEW d, NEW k PROVE e(<<d, k>>) = S(d)[k]
  BY DEF EntryAt
<1>7. ASSUME NEW d \in ds, NEW k \in 1..Len(S(d)), Real(S(d)[k])
      PROVE  /\ S(d)[k].cluster \in Cells /\ S(d)[k].cluster \in heads
             /\ S(d)[k].cluster # Root
             /\ S(d)[k].dir => d = Root /\ S(d)[k].cluster # 0
             /\ ~S(d)[k].dir /\ S(d)[k].cluster # 0 =>
                  Len(Chain(fat, S(d)[k].cluster)) = S(d)[k].size
  <2>1. <<d, k>> \in ps /\ e(<<d, k>>) = S(d)[k] /\ <<d, k>>[1] = d
    BY <1>4, <1>6, <1>7
  <2>2. S(d)[k] \in Slots /\ S(d)[k].kind = "entry"
    BY <1>2, <1>7 DEF Real
  <2>3. S(d)[k].cluster \in Cells
    BY <2>2, RealIs
  <2> HIDE DEF ps, S
  <2>4. S(d)[k].cluster \in heads
    BY <2>1
  <2> HIDE DEF e
  <2>5. QED
    BY <1>1, <2>1, <2>3, <2>4
<1>8. ASSUME NEW h \in heads
      PROVE  \/ h \in {0, Root}
             \/ \E d \in ds : \E k \in 1..Len(S(d)) : Real(S(d)[k]) /\ S(d)[k].cluster = h
  <2>1. SUFFICES ASSUME h \notin {0, Root}
                 PROVE  \E d \in ds : \E k \in 1..Len(S(d)) : Real(S(d)[k]) /\ S(d)[k].cluster = h
    OBVIOUS
  <2>2. PICK x \in ps : h = e(x).cluster
    BY <2>1
  <2>3. PICK d, k : x = <<d, k>>
    BY <1>5
  <2>4. d \in ds /\ k \in 1..Len(S(d)) /\ Real(S(d)[k]) /\ h = S(d)[k].cluster
    BY <1>4, <1>6, <2>2, <2>3
  <2> HIDE DEF ds, S
  <2>5. QED
    BY <2>4
<1>9. heads \subseteq Cells
  <2>1. ASSUME NEW h \in heads PROVE h \in Cells
    <3>1. CASE h \in {0, Root}
      BY <3>1, CellFacts
    <3>2. CASE h \notin {0, Root}
      <4>1. PICK d \in ds : \E k \in 1..Len(S(d)) : Real(S(d)[k]) /\ S(d)[k].cluster = h
        BY <1>8, <3>2
      <4>2. PICK k \in 1..Len(S(d)) : Real(S(d)[k]) /\ S(d)[k].cluster = h
        BY <4>1
      <4>3. QED
        BY <1>7, <4>2
    <3>3. QED
      BY <3>1, <3>2
  <2>2. QED
    BY <2>1
<1> HIDE DEF S, ps, ds, heads, e
<1>10. DOMAIN r = heads /\ \A h \in heads : r[h] = RunFrom(fat, h)
  OBVIOUS
<1>11. \A h \in heads : h # 0 => r[h] = Chain(fat, h)
  BY <1>10 DEF RunFrom
<1>12. r = [h \in DOMAIN r |-> r[h]]
  OBVIOUS
<1>13. D = [d \in DOMAIN D |-> D[d]] /\ DOMAIN D = ds /\ \A d \in ds : D[d] = S(d)
  OBVIOUS
<1> HIDE DEF r, D
<1>14. {0, Root} \subseteq heads
  BY DEF heads
<1>15. ASSUME NEW h \in heads PROVE r[h] \in Seq(Cells)
  <2>1. Chain(fat, h) \in Seq(Clusters) /\ Chain(fat, fat[0]) \in Seq(Clusters)
    BY ChainType
  <2>2. \A s : s \in Seq(Clusters) => s \in Seq(Cells)
    <3> SUFFICES ASSUME NEW s \in Seq(Clusters) PROVE s \in Seq(Cells)
      OBVIOUS
    <3>1. Len(s) \in Nat /\ s \in [1..Len(s) -> Clusters]
      BY LenProperties
    <3>2. s = [i \in 1..Len(s) |-> s[i]] /\ \A i \in 1..Len(s) : s[i] \in Cells
      BY <3>1, CellFacts
    <3>3. [i \in 1..Len(s) |-> s[i]] \in Seq(Cells)
      BY <3>1, <3>2, IsASeq
    <3>4. QED
      BY <3>2, <3>3
  <2>3. <<0>> \in Seq(Cells)
    BY CellFacts
  <2>4. <<0>> \o Chain(fat, fat[0]) \in Seq(Cells)
    BY <2>1, <2>2, <2>3, ConcatProperties
  <2>5. QED
    BY <1>10, <2>1, <2>2, <2>4 DEF RunFrom
<1>16. Heap(fat, r)
  BY <1>1, <1>9, <1>10, <1>12, <1>14, <1>15 DEF Heap
<1>17. Tree(r, D)
  <2>1. Root \in ds
    BY <1>3
  <2>2. \A d \in ds : d = Root \/ \E k \in 1..Len(D[Root]) : Holds(D, Root, k, d) /\ D[Root][k].dir
    BY <1>3, <1>13, <2>1 DEF Holds
  <2>3. ASSUME NEW d \in ds, NEW k \in 1..Len(D[d]), Real(D[d][k])
        PROVE  Placed(r, D, d, D[d][k])
    <3> DEFINE x == D[d][k]
    <3>1. x = S(d)[k] /\ k \in 1..Len(S(d)) /\ Real(S(d)[k])
      BY <1>13, <2>3
    <3>2. /\ x.cluster \in heads /\ x.cluster # Root
          /\ x.dir => d = Root /\ x.cluster # 0
          /\ ~x.dir /\ x.cluster # 0 => Len(Chain(fat, x.cluster)) = x.size
      BY <1>7, <3>1
    <3>3. x.dir => x.cluster \in ds
      BY <1>3, <3>1, <3>2
    <3> HIDE DEF x
    <3>4. x.cluster # 0 => r[x.cluster] = Chain(fat, x.cluster)
      BY <1>11, <3>2
    <3>5. Placed(r, D, d, x)
      BY <1>10, <1>13, <3>2, <3>3, <3>4 DEF Placed
    <3>6. QED
      BY <3>5 DEF x
  <2>4. \A h \in heads : h \in {0, Root} \/ \E d \in ds : \E k \in 1..Len(D[d]) : Holds(D, d, k, h)
    <3> SUFFICES ASSUME NEW h \in heads, h \notin {0, Root}
                 PROVE  \E d \in ds : \E k \in 1..Len(D[d]) : Holds(D, d, k, h)
      OBVIOUS
    <3>1. PICK d \in ds : \E k \in 1..Len(S(d)) : Real(S(d)[k]) /\ S(d)[k].cluster = h
      BY <1>8
    <3>2. PICK k \in 1..Len(S(d)) : Real(S(d)[k]) /\ S(d)[k].cluster = h
      BY <3>1
    <3>3. k \in 1..Len(D[d]) /\ Holds(D, d, k, h)
      BY <1>13, <3>2 DEF Holds
    <3>4. QED
      BY <3>3
  <2>5. ASSUME NEW d \in ds, NEW g \in ds, NEW k \in 1..Len(D[d]), NEW j \in 1..Len(D[g]),
               NEW h \in Clusters, Holds(D, d, k, h), Holds(D, g, j, h)
        PROVE  d = g /\ k = j
    <3>1. /\ <<d, k>> \in ps /\ <<g, j>> \in ps
          /\ e(<<d, k>>).cluster = h /\ e(<<g, j>>).cluster = h
      BY <1>4, <1>6, <1>13, <2>5 DEF Holds
    <3>2. h # 0
      BY CellFacts
    <3>3. <<d, k>> = <<g, j>>
      BY <1>1, <3>1, <3>2
    <3>4. QED
      BY <3>3
  <2>6. \A d \in ds : D[d] \in Seq(Slots)
    BY <1>2, <1>13
  <2>7. QED
    BY <1>10, <1>13, <2>1, <2>2, <2>3, <2>4, <2>5, <2>6 DEF Tree
<1>18. Held(data, r, D)
  <2> SUFFICES ASSUME NEW d \in ds PROVE D[d] = Flat(data, r[d])
    BY <1>13 DEF Held
  <2>1. d \in heads /\ d # 0
    <3>1. CASE d = Root
      BY <1>14, <3>1, CellFacts
    <3>2. CASE d # Root
      <4>1. PICK k \in 1..Len(S(Root)) : Real(S(Root)[k]) /\ S(Root)[k].dir /\ S(Root)[k].cluster = d
        BY <1>3, <3>2
      <4>2. Root \in ds
        BY <1>3
      <4>3. QED
        BY <1>7, <4>1, <4>2
    <3>3. QED
      BY <3>1, <3>2
  <2>2. S(d) = Flat(data, Chain(fat, d))
    BY DirType DEF S
  <2>3. QED
    BY <1>11, <1>13, <2>1, <2>2
<1>19. QED
  BY <1>16, <1>17, <1>18 DEF Tidy

\* The directories are heads of runs, but not those of files or cell 0.
LEMMA TreeDirs ==
  ASSUME NEW fat, NEW r, Heap(fat, r), NEW D, Tree(r, D), NEW d \in DOMAIN D
  PROVE  /\ d \in DOMAIN r /\ d # 0 /\ d \in Clusters
         /\ \A e \in DOMAIN D : \A k \in 1..Len(D[e]) :
              Holds(D, e, k, d) => d # Root /\ e = Root /\ D[e][k].dir
<1>1. DOMAIN r \subseteq Cells /\ Root \in DOMAIN r
  BY HeapFacts
<1>2. CASE d = Root
  <2>1. \A e \in DOMAIN D : \A k \in 1..Len(D[e]) : ~Holds(D, e, k, d)
    BY <1>2 DEF Tree, Placed, Holds
  <2>2. QED
    BY <1>1, <1>2, <2>1, CellFacts
<1>3. CASE d # Root
  <2>1. PICK k \in 1..Len(D[Root]) : Holds(D, Root, k, d) /\ D[Root][k].dir
    BY <1>3 DEF Tree
  <2>2. Root \in DOMAIN D
    BY DEF Tree
  <2>3. Real(D[Root][k]) /\ D[Root][k].cluster = d
    BY <2>1 DEF Holds
  <2>4. Placed(r, D, Root, D[Root][k])
    BY <2>2, <2>3 DEF Tree
  <2>5. d \in DOMAIN r /\ d # 0
    BY <2>1, <2>3, <2>4 DEF Placed
  <2>6. d \in Clusters
    BY <1>1, <2>5, CellFacts
  <2>7. ASSUME NEW e \in DOMAIN D, NEW j \in 1..Len(D[e]), Holds(D, e, j, d)
        PROVE  e = Root /\ D[e][j].dir
    <3>1. e = Root /\ j = k
      BY <2>1, <2>2, <2>6, <2>7 DEF Tree
    <3>2. QED
      BY <2>1, <3>1
  <2>8. QED
    BY <1>3, <2>5, <2>6, <2>7
<1>4. QED
  BY <1>2, <1>3

\* t has the real entries of s, but for slot m.
SameEntries(s, t, m) ==
  /\ \A k \in 1..Len(s) : k # m /\ Real(s[k]) => k \in 1..Len(t) /\ t[k] = s[k]
  /\ \A k \in 1..Len(t) : k # m /\ Real(t[k]) => k \in 1..Len(s) /\ t[k] = s[k]

\* Slot m of directory d held cluster h.
Held0(D, d, m, h) == m \in 1..Len(D[d]) /\ Holds(D, d, m, h)

\* The heap q has what r has but for the run that slot m of directory d held,
\* and with one at c.
Swapped(r, q, D, d, m, c) ==
  /\ c \in DOMAIN q
  /\ \A h \in DOMAIN r : h \in DOMAIN q \/ (h # 0 /\ Held0(D, d, m, h))
  /\ \A h \in DOMAIN q : h = c \/ (h \in DOMAIN r /\ (h \in {0, Root} \/ ~Held0(D, d, m, h)))
  /\ \A h \in DOMAIN r : h \in DOMAIN q /\ h # d /\ h # c => q[h] = r[h]

\* An entry of a file is put, or changed.
LEMMA TreeFile ==
  ASSUME NEW fat, NEW r, Heap(fat, r), NEW D, Tree(r, D), NEW d \in DOMAIN D,
         NEW t \in Seq(Slots), NEW m \in 1..Len(t), Real(t[m]), t[m].dir = FALSE,
         SameEntries(D[d], t, m),
         m \in 1..Len(D[d]) /\ Real(D[d][m]) => D[d][m].dir = FALSE,
         NEW q, NEW c, c = t[m].cluster, c # Root, Swapped(r, q, D, d, m, c),
         c # 0 => Len(q[c]) = t[m].size,
         c # 0 => \A e \in DOMAIN D : \A k \in 1..Len(D[e]) : Holds(D, e, k, c) => e = d /\ k = m
  PROVE  Tree(q, [D EXCEPT ![d] = t])
<1> DEFINE E == [D EXCEPT ![d] = t]
<1>1. /\ DOMAIN E = DOMAIN D /\ E[d] = t /\ \A e \in DOMAIN D : e # d => E[e] = D[e]
      /\ E = [e \in DOMAIN E |-> E[e]]
  BY DEF Tree
<1> HIDE DEF E
<1>2. /\ Root \in DOMAIN D /\ \A e \in DOMAIN D : D[e] \in Seq(Slots)
      /\ \A e \in DOMAIN D :
             e = Root \/ \E k \in 1..Len(D[Root]) : Holds(D, Root, k, e) /\ D[Root][k].dir
      /\ \A e \in DOMAIN D : \A k \in 1..Len(D[e]) : Real(D[e][k]) => Placed(r, D, e, D[e][k])
      /\ \A h \in DOMAIN r :
             h \in {0, Root} \/ \E e \in DOMAIN D : \E k \in 1..Len(D[e]) : Holds(D, e, k, h)
      /\ \A a, e \in DOMAIN D : \A k \in 1..Len(D[a]), j \in 1..Len(D[e]), h \in Clusters :
           Holds(D, a, k, h) /\ Holds(D, e, j, h) => a = e /\ k = j
  BY DEF Tree
<1>3. ASSUME NEW e \in DOMAIN D, NEW k \in 1..Len(E[e]), ~(e = d /\ k = m), Real(E[e][k])
      PROVE  k \in 1..Len(D[e]) /\ E[e][k] = D[e][k]
  BY <1>1, <1>3 DEF SameEntries
<1>4. ASSUME NEW e \in DOMAIN D, NEW k \in 1..Len(D[e]), ~(e = d /\ k = m), Real(D[e][k])
      PROVE  k \in 1..Len(E[e]) /\ E[e][k] = D[e][k]
  BY <1>1, <1>4 DEF SameEntries
<1>5. DOMAIN r \subseteq Cells /\ 0 \in DOMAIN r /\ Root \in DOMAIN r
  BY HeapFacts
<1>6. ASSUME NEW e \in DOMAIN D, e # Root
      PROVE  \E k \in 1..Len(E[Root]) : Holds(E, Root, k, e) /\ E[Root][k].dir
  <2>1. PICK k \in 1..Len(D[Root]) : Holds(D, Root, k, e) /\ D[Root][k].dir
    BY <1>2, <1>6
  <2>2. ~(Root = d /\ k = m)
    BY <2>1 DEF Holds
  <2>3. k \in 1..Len(E[Root]) /\ E[Root][k] = D[Root][k]
    BY <1>2, <1>4, <2>1, <2>2 DEF Holds
  <2>4. QED
    BY <2>1, <2>3 DEF Holds
<1>7. ASSUME NEW e \in DOMAIN D, NEW k \in 1..Len(E[e]), Real(E[e][k])
      PROVE  Placed(q, E, e, E[e][k])
  <2>1. CASE e = d /\ k = m
    BY <1>1, <2>1 DEF Placed, Swapped
  <2>2. CASE ~(e = d /\ k = m)
    <3> DEFINE x == D[e][k]
               h == x.cluster
    <3>1. k \in 1..Len(D[e]) /\ E[e][k] = x /\ Real(x)
      BY <1>3, <1>7, <2>2
    <3>2. Placed(r, D, e, x) /\ Holds(D, e, k, h)
      BY <1>2, <3>1 DEF Holds
    <3> HIDE DEF x, h
    <3>3. h = x.cluster
      BY DEF h
    <3>4. h \in DOMAIN r /\ h # Root
      BY <3>2, <3>3 DEF Placed
    <3>5. h = 0 \/ h \in Clusters
      BY <1>5, <3>4, CellFacts
    <3>6. h # 0 => ~Held0(D, d, m, h)
      BY <1>2, <2>2, <3>1, <3>2, <3>5 DEF Held0
    <3>7. h \in DOMAIN q
      BY <3>4, <3>6 DEF Swapped
    <3>8. x.dir => e = Root /\ h # 0 /\ h \in DOMAIN E
      BY <1>1, <3>2, <3>3 DEF Placed
    <3>9. ASSUME ~x.dir, h # 0 PROVE Len(q[h]) = x.size
      <4>1. h # c
        BY <2>2, <3>1, <3>2, <3>9
      <4>2. h # d
        <5>1. ASSUME h = d PROVE FALSE
          <6>1. Holds(D, e, k, d)
            BY <3>2, <5>1
          <6>2. D[e][k].dir
            BY <3>1, <6>1, TreeDirs
          <6>3. QED
            BY <3>9, <6>2 DEF x
        <5>2. QED
          BY <5>1
      <4>3. q[h] = r[h]
        BY <3>4, <3>7, <4>1, <4>2 DEF Swapped
      <4>4. QED
        BY <3>2, <3>3, <3>9, <4>3 DEF Placed
    <3>10. Placed(q, E, e, x)
      BY <3>3, <3>4, <3>7, <3>8, <3>9 DEF Placed
    <3>11. QED
      BY <3>1, <3>10
  <2>3. QED
    BY <2>1, <2>2
<1>8. ASSUME NEW h \in DOMAIN q, h \notin {0, Root}
      PROVE  \E e \in DOMAIN D : \E k \in 1..Len(E[e]) : Holds(E, e, k, h)
  <2>1. CASE h = c
    <3>1. m \in 1..Len(E[d]) /\ Holds(E, d, m, h)
      BY <1>1, <2>1 DEF Holds
    <3>2. QED
      BY <3>1
  <2>2. CASE h # c
    <3>1. h \in DOMAIN r /\ ~Held0(D, d, m, h)
      BY <1>8, <2>2 DEF Swapped
    <3>2. PICK e \in DOMAIN D : \E k \in 1..Len(D[e]) : Holds(D, e, k, h)
      BY <1>2, <1>8, <3>1
    <3>3. PICK k \in 1..Len(D[e]) : Holds(D, e, k, h)
      BY <3>2
    <3>4. ~(e = d /\ k = m)
      BY <3>1, <3>3 DEF Held0
    <3>5. k \in 1..Len(E[e]) /\ E[e][k] = D[e][k]
      BY <1>4, <3>3, <3>4 DEF Holds
    <3>6. QED
      BY <3>3, <3>5 DEF Holds
  <2>3. QED
    BY <2>1, <2>2
<1>9. ASSUME NEW a \in DOMAIN D, NEW e \in DOMAIN D, NEW k \in 1..Len(E[a]), NEW j \in 1..Len(E[e]),
             NEW h \in Clusters, Holds(E, a, k, h), Holds(E, e, j, h)
      PROVE  a = e /\ k = j
  <2>1. Real(E[a][k]) /\ Real(E[e][j])
    BY <1>9 DEF Holds
  <2>2. h # 0
    BY CellFacts
  <2>3. ASSUME NEW b \in DOMAIN D, NEW i \in 1..Len(E[b]), Holds(E, b, i, h), ~(b = d /\ i = m)
        PROVE  i \in 1..Len(D[b]) /\ Holds(D, b, i, h)
    BY <1>3, <2>3 DEF Holds
  <2>4. Holds(E, d, m, h) => h = c
    BY <1>1 DEF Holds
  <2>5. CASE (a = d /\ k = m) \/ (e = d /\ j = m)
    BY <1>9, <2>2, <2>3, <2>4, <2>5
  <2>6. CASE ~(a = d /\ k = m) /\ ~(e = d /\ j = m)
    BY <1>2, <1>9, <2>3, <2>6
  <2>7. QED
    BY <2>5, <2>6
<1>10. \A e \in DOMAIN D : E[e] \in Seq(Slots)
  BY <1>1, <1>2
<1>11. Tree(q, E)
  <2>1. E = [e \in DOMAIN E |-> E[e]] /\ Root \in DOMAIN E
    BY <1>1, <1>2
  <2>2. \A e \in DOMAIN E : E[e] \in Seq(Slots)
    BY <1>1, <1>10
  <2>3. \A e \in DOMAIN E : e = Root \/ \E k \in 1..Len(E[Root]) : Holds(E, Root, k, e) /\ E[Root][k].dir
    BY <1>1, <1>6
  <2>4. \A e \in DOMAIN E : \A k \in 1..Len(E[e]) : Real(E[e][k]) => Placed(q, E, e, E[e][k])
    BY <1>1, <1>7
  <2>5. \A h \in DOMAIN q :
         h \in {0, Root} \/ \E e \in DOMAIN E : \E k \in 1..Len(E[e]) : Holds(E, e, k, h)
    BY <1>1, <1>8
  <2>6. \A a, e \in DOMAIN E : \A k \in 1..Len(E[a]), j \in 1..Len(E[e]), h \in Clusters :
          Holds(E, a, k, h) /\ Holds(E, e, j, h) => a = e /\ k = j
    BY <1>1, <1>9
  <2>7. QED
    BY <2>1, <2>2, <2>3, <2>4, <2>5, <2>6 DEF Tree
<1>12. QED
  BY <1>11 DEF E

\* The directories D with one more, at c with the slots v; the root's are t.
NewTree(D, c, v, t) ==
  [e \in DOMAIN D \cup {c} |-> IF e = c THEN v ELSE IF e = Root THEN t ELSE D[e]]

\* The slots t are s with the entry of a directory in cluster c put at m.
SlotPut(s, t, m, c) ==
  /\ t \in Seq(Slots) /\ m \in 1..Len(t) /\ Real(t[m]) /\ t[m].dir = TRUE
  /\ SameEntries(s, t, m) /\ (m \in 1..Len(s) => ~Real(s[m])) /\ c = t[m].cluster

\* A directory is created in the root.
LEMMA TreeDir ==
  ASSUME NEW fat, NEW r, Heap(fat, r), NEW D, Tree(r, D), NEW t, NEW m, NEW c \in Clusters,
         SlotPut(D[Root], t, m, c), c \notin DOMAIN r,
         NEW q, DOMAIN q = DOMAIN r \cup {c}, \A h \in DOMAIN r : h # Root => q[h] = r[h],
         NEW v \in Seq(Slots), \A k \in 1..Len(v) : ~Real(v[k])
  PROVE  Tree(q, NewTree(D, c, v, t))
<1> DEFINE E == NewTree(D, c, v, t)
<1> /\ t \in Seq(Slots) /\ m \in 1..Len(t) /\ Real(t[m]) /\ t[m].dir = TRUE
    /\ SameEntries(D[Root], t, m) /\ (m \in 1..Len(D[Root]) => ~Real(D[Root][m]))
    /\ c = t[m].cluster
  BY DEF SlotPut
<1>0. DOMAIN r \subseteq Cells /\ 0 \in DOMAIN r /\ Root \in DOMAIN r /\ c # 0
  BY HeapFacts, CellFacts
<1>1. c # Root /\ c \notin DOMAIN D /\ Root \in DOMAIN D
  <2>1. Root \in DOMAIN D
    BY DEF Tree
  <2>2. \A d \in DOMAIN D : d \in DOMAIN r
    BY TreeDirs
  <2>3. QED
    BY <1>0, <2>1, <2>2
<1>2. /\ DOMAIN E = DOMAIN D \cup {c} /\ E[c] = v /\ E[Root] = t
      /\ \A e \in DOMAIN D : e # Root => E[e] = D[e]
      /\ E = [e \in DOMAIN E |-> E[e]]
  BY <1>1 DEF NewTree
<1> HIDE DEF E
<1>3. /\ \A e \in DOMAIN D : D[e] \in Seq(Slots)
      /\ \A e \in DOMAIN D :
             e = Root \/ \E k \in 1..Len(D[Root]) : Holds(D, Root, k, e) /\ D[Root][k].dir
      /\ \A e \in DOMAIN D : \A k \in 1..Len(D[e]) : Real(D[e][k]) => Placed(r, D, e, D[e][k])
      /\ \A h \in DOMAIN r :
             h \in {0, Root} \/ \E e \in DOMAIN D : \E k \in 1..Len(D[e]) : Holds(D, e, k, h)
      /\ \A a, e \in DOMAIN D : \A k \in 1..Len(D[a]), j \in 1..Len(D[e]), h \in Clusters :
           Holds(D, a, k, h) /\ Holds(D, e, j, h) => a = e /\ k = j
  BY DEF Tree
<1>4. ASSUME NEW e \in DOMAIN E, NEW k \in 1..Len(E[e]), ~(e = Root /\ k = m), Real(E[e][k])
      PROVE  e \in DOMAIN D /\ k \in 1..Len(D[e]) /\ E[e][k] = D[e][k]
  <2>1. e # c
    BY <1>2, <1>4
  <2>2. QED
    BY <1>2, <1>4, <2>1 DEF SameEntries
<1>5. ASSUME NEW e \in DOMAIN D, NEW k \in 1..Len(D[e]), Real(D[e][k])
      PROVE  k \in 1..Len(E[e]) /\ E[e][k] = D[e][k] /\ ~(e = Root /\ k = m)
  BY <1>2, <1>5 DEF SameEntries
<1>6. \A e \in DOMAIN E : E[e] \in Seq(Slots)
  BY <1>2, <1>3
<1>7. ASSUME NEW e \in DOMAIN E, e # Root
      PROVE  \E k \in 1..Len(E[Root]) : Holds(E, Root, k, e) /\ E[Root][k].dir
  <2>1. CASE e = c
    BY <1>2, <2>1 DEF Holds
  <2>2. CASE e # c
    <3>1. e \in DOMAIN D
      BY <1>2, <2>2
    <3>2. PICK k \in 1..Len(D[Root]) : Holds(D, Root, k, e) /\ D[Root][k].dir
      BY <1>3, <1>7, <3>1
    <3>3. k \in 1..Len(E[Root]) /\ E[Root][k] = D[Root][k]
      BY <1>1, <1>5, <3>2 DEF Holds
    <3>4. QED
      BY <3>2, <3>3 DEF Holds
  <2>3. QED
    BY <2>1, <2>2
<1>8. ASSUME NEW e \in DOMAIN E, NEW k \in 1..Len(E[e]), Real(E[e][k])
      PROVE  Placed(q, E, e, E[e][k])
  <2>1. CASE e = Root /\ k = m
    BY <1>0, <1>1, <1>2, <2>1 DEF Placed
  <2>2. CASE ~(e = Root /\ k = m)
    <3> DEFINE x == D[e][k]
               h == x.cluster
    <3>1. e \in DOMAIN D /\ k \in 1..Len(D[e]) /\ E[e][k] = x /\ Real(x)
      BY <1>4, <1>8, <2>2
    <3>2. Placed(r, D, e, x) /\ Holds(D, e, k, h)
      BY <1>3, <3>1 DEF Holds
    <3> HIDE DEF x, h
    <3>3. h = x.cluster
      BY DEF h
    <3>4. h \in DOMAIN r /\ h # Root /\ h \in DOMAIN q /\ q[h] = r[h]
      BY <3>2, <3>3 DEF Placed
    <3>5. Placed(q, E, e, x)
      BY <1>2, <3>2, <3>3, <3>4 DEF Placed
    <3>6. QED
      BY <3>1, <3>5
  <2>3. QED
    BY <2>1, <2>2
<1>9. ASSUME NEW h \in DOMAIN q, h \notin {0, Root}
      PROVE  \E e \in DOMAIN E : \E k \in 1..Len(E[e]) : Holds(E, e, k, h)
  <2>1. CASE h = c
    <3>1. Root \in DOMAIN E /\ m \in 1..Len(E[Root]) /\ Holds(E, Root, m, h)
      BY <1>1, <1>2, <2>1 DEF Holds
    <3>2. QED
      BY <3>1
  <2>2. CASE h # c
    <3>1. h \in DOMAIN r
      BY <2>2
    <3>2. PICK e \in DOMAIN D : \E k \in 1..Len(D[e]) : Holds(D, e, k, h)
      BY <1>3, <1>9, <3>1
    <3>3. PICK k \in 1..Len(D[e]) : Holds(D, e, k, h)
      BY <3>2
    <3>4. e \in DOMAIN E /\ k \in 1..Len(E[e]) /\ E[e][k] = D[e][k]
      BY <1>2, <1>5, <3>3 DEF Holds
    <3>5. QED
      BY <3>3, <3>4 DEF Holds
  <2>3. QED
    BY <2>1, <2>2
<1>10. ASSUME NEW e \in DOMAIN D, NEW k \in 1..Len(D[e]) PROVE ~Holds(D, e, k, c)
  BY <1>3 DEF Holds, Placed
<1>11. ASSUME NEW a \in DOMAIN E, NEW e \in DOMAIN E, NEW k \in 1..Len(E[a]), NEW j \in 1..Len(E[e]),
              NEW h \in Clusters, Holds(E, a, k, h), Holds(E, e, j, h)
       PROVE  a = e /\ k = j
  <2>1. ASSUME NEW b \in DOMAIN E, NEW i \in 1..Len(E[b]), Holds(E, b, i, h), ~(b = Root /\ i = m)
        PROVE  b \in DOMAIN D /\ i \in 1..Len(D[b]) /\ Holds(D, b, i, h)
    BY <1>4, <2>1 DEF Holds
  <2>2. Holds(E, Root, m, h) => h = c
    BY <1>2 DEF Holds
  <2>3. CASE (a = Root /\ k = m) \/ (e = Root /\ j = m)
    BY <1>10, <1>11, <2>1, <2>2, <2>3
  <2>4. CASE ~(a = Root /\ k = m) /\ ~(e = Root /\ j = m)
    BY <1>3, <1>11, <2>1, <2>4
  <2>5. QED
    BY <2>3, <2>4
<1>12. Tree(q, E)
  <2>1. E = [e \in DOMAIN E |-> E[e]] /\ Root \in DOMAIN E
    BY <1>1, <1>2
  <2>2. \A e \in DOMAIN E : E[e] \in Seq(Slots)
    BY <1>6
  <2>3. \A e \in DOMAIN E : e = Root \/ \E k \in 1..Len(E[Root]) : Holds(E, Root, k, e) /\ E[Root][k].dir
    BY <1>7
  <2>4. \A e \in DOMAIN E : \A k \in 1..Len(E[e]) : Real(E[e][k]) => Placed(q, E, e, E[e][k])
    BY <1>8
  <2>5. \A h \in DOMAIN q :
         h \in {0, Root} \/ \E e \in DOMAIN E : \E k \in 1..Len(E[e]) : Holds(E, e, k, h)
    BY <1>9
  <2>6. \A a, e \in DOMAIN E : \A k \in 1..Len(E[a]), j \in 1..Len(E[e]), h \in Clusters :
          Holds(E, a, k, h) /\ Holds(E, e, j, h) => a = e /\ k = j
    BY <1>11
  <2>7. QED
    BY <2>1, <2>2, <2>3, <2>4, <2>5, <2>6 DEF Tree
<1>13. QED
  BY <1>12 DEF E

-----------------------------------------------------------------------------
(* What write_file does in the directory it found. *)

\* The clusters of a run are allocated, and in no other run.
LEMMA HeapOther ==
  ASSUME NEW fat, NEW r, Heap(fat, r), NEW g \in DOMAIN r, NEW i \in 1..Len(r[g]),
         r[g][i] \in Clusters
  PROVE  /\ fat[r[g][i]] # Free
         /\ \A h \in DOMAIN r : h # g => \A j \in 1..Len(r[h]) : r[h][j] # r[g][i]
<1>1. fat[r[g][i]] # Free
  BY HeapFree
<1>2. QED
  BY <1>1, HeapFacts

\* Data that agree on a run agree on its slots.
LEMMA FlatOn ==
  ASSUME NEW x \in Datas, NEW y \in Datas, NEW u \in Seq(Clusters),
         \A i \in 1..Len(u) : x[u[i]] = y[u[i]]
  PROVE  Flat(x, u) = Flat(y, u)
<1> DEFINE n == Len(u)
           f == Flat(x, u)
           g == Flat(y, u)
<1>1. n \in Nat
  BY LenProperties
<1>2. /\ f \in SlotSeq(n) /\ \A i \in 1..n, j \in 1..SlotsPer : f[At(i, j)] = x[u[i]][j]
      /\ g \in SlotSeq(n) /\ \A i \in 1..n, j \in 1..SlotsPer : g[At(i, j)] = y[u[i]][j]
  BY FlatIs
<1> HIDE DEF n, f, g
<1>3. ASSUME NEW k \in 1..(n * SlotsPer) PROVE f[k] = g[k]
  <2>1. PICK i \in 1..n, j \in 1..SlotsPer : k = At(i, j)
    BY <1>1, AtAll
  <2>2. QED
    BY <1>2, <2>1 DEF n
<1>4. f = g
  BY <1>1, <1>2, <1>3, SlotSeqEqual
<1>5. QED
  BY <1>4 DEF f, g

\* Nothing but the clusters F and u differs.
Beyond(b, x, F, u) ==
  \A c \in Clusters : c \notin F /\ (\A i \in 1..Len(u) : u[i] # c) => x[c] = b[c]

\* G takes every content that a call on file sh, or one that puts the entries
\* E, can make of b.
Roomy(G, F, b, u, sh, E) ==
  \A x \in Datas :
    Beyond(b, x, F, u)
           /\ (\A k \in 1..(Len(u) * SlotsPer) : Flat(x, u)[k] \in Allowed(Flat(b, u), k, sh, E))
      => x \in G

\* If G has room for every change of a call, it takes what writing slots that the
\* call may write passes through.
LEMMA RoomyWide ==
  ASSUME NEW G, NEW F, NEW b, NEW u, NEW sh, NEW E, Roomy(G, F, b, u, sh, E),
         NEW a, Beyond(b, a, F, u), NEW t,
         \A k \in 1..(Len(u) * SlotsPer) : Flat(a, u)[k] \in Allowed(Flat(b, u), k, sh, E),
         \A k \in 1..(Len(u) * SlotsPer) : t[k] \in Allowed(Flat(b, u), k, sh, E)
  PROVE  Wide(G, F, a, u, t)
<1> SUFFICES ASSUME NEW x \in Datas,
                    \A c \in Clusters : c \notin F /\ (\A i \in 1..Len(u) : u[i] # c) => x[c] = a[c],
                    \A k \in 1..(Len(u) * SlotsPer) : Flat(x, u)[k] \in {Flat(a, u)[k], t[k]}
             PROVE  x \in G
  BY DEF Wide
<1>1. Beyond(b, x, F, u)
  BY DEF Beyond
<1>2. \A k \in 1..(Len(u) * SlotsPer) : Flat(x, u)[k] \in Allowed(Flat(b, u), k, sh, E)
  OBVIOUS
<1>3. QED
  BY <1>1, <1>2 DEF Roomy

\* Writing a directory's slots back: its own clusters change and nothing else.
LEMMA PatchIs ==
  ASSUME NEW p, NEW r, NEW G, NEW F, NEW b, Ready(p, r, G, F, b), NEW d \in DOMAIN r, d # 0,
         NEW s, s = Flat(p.data, r[d]), NEW k \in 1..Len(s), NEW e \in Slots,
         Wide(G, F, p.data, r[d], [s EXCEPT ![k] = e])
  PROVE  /\ s \in SlotSeq(Len(r[d])) /\ s \in Seq(Slots) /\ Len(s) = Len(r[d]) * SlotsPer
         /\ [s EXCEPT ![k] = e] \in SlotSeq(Len(r[d])) /\ [s EXCEPT ![k] = e] \in Seq(Slots)
         /\ Len([s EXCEPT ![k] = e]) = Len(s)
         /\ [s EXCEPT ![k] = e][k] = e
         /\ \A j \in 1..Len(s) : j # k => [s EXCEPT ![k] = e][j] = s[j]
         /\ Entered(Patch(p, d, k, e), p, r, G, F, b, d, r[d], [s EXCEPT ![k] = e])
<1> DEFINE t == [s EXCEPT ![k] = e]
           n == Len(r[d])
<1>1. p \in Parts /\ Heap(p.fat, r) /\ p.data \in Datas
  BY PartFacts DEF Ready
<1>2. r[d] \in Seq(Clusters) /\ n \in Nat
  BY <1>1, HeapChain, LenProperties
<1>3. s \in SlotSeq(n)
  BY <1>1, <1>2, FlatIs
<1>4. /\ s \in Seq(Slots) /\ Len(s) = n * SlotsPer /\ DOMAIN s = 1..Len(s) /\ Len(s) \in Nat
      /\ \A j \in 1..Len(s) : s[j] \in Slots
  BY <1>2, <1>3, SlotSeqIs
<1>5. t \in SlotSeq(n)
  BY <1>3 DEF SlotSeq
<1>6. t[k] = e /\ \A j \in 1..Len(s) : j # k => t[j] = s[j]
  BY <1>4
<1>7. Wide(G, F, p.data, r[d], t)
  OBVIOUS
<1> HIDE DEF t, n
<1>8. t \in Seq(Slots) /\ Len(t) = n * SlotsPer
  BY <1>2, <1>5, SlotSeqIs
<1>9. Entered(WriteDir(p, d, t), p, r, G, F, b, d, r[d], t)
  BY <1>5, <1>7, EnterHere DEF n
<1>10. DirSlots(p.fat, p.data, d) = s
  BY <1>1, DirIs
<1>11. Patch(p, d, k, e) = WriteDir(p, d, t)
  BY <1>10 DEF Patch, t
<1>12. Entered(Patch(p, d, k, e), p, r, G, F, b, d, r[d], t)
  BY <1>9, <1>11
<1>13. Len(t) = Len(s)
  BY <1>4, <1>8
<1>14. QED
  BY <1>3, <1>4, <1>5, <1>6, <1>8, <1>12, <1>13 DEF t, n

\* All runs of r but d and h are as they were, in the table q and on the disk.
Kept(r, data, q, data2, d, h) ==
  \A g \in DOMAIN r : g # d /\ g # h =>
    /\ g \in DOMAIN q /\ q[g] = r[g]
    /\ \A i \in 1..Len(r[g]) : r[g][i] \in Clusters => data2[r[g][i]] = data[r[g][i]]

\* After a change of one directory the others hold what they held.
LEMMA HeldAfter ==
  ASSUME NEW fat, NEW data, NEW r, NEW D, Tidy(fat, data, r, D), NEW d \in DOMAIN D,
         NEW q, NEW data2 \in Datas, NEW h, h \notin DOMAIN D, Kept(r, data, q, data2, d, h),
         NEW t, t = Flat(data2, q[d])
  PROVE  Held(data2, q, [D EXCEPT ![d] = t])
<1> DEFINE E == [D EXCEPT ![d] = t]
<1>1. DOMAIN E = DOMAIN D /\ E[d] = t /\ \A e \in DOMAIN D : e # d => E[e] = D[e]
  BY DEF Tidy, Tree
<1>2. data \in Datas /\ Heap(fat, r) /\ Tree(r, D) /\ Held(data, r, D)
  BY DEF Tidy
<1> HIDE DEF E
<1>3. ASSUME NEW e \in DOMAIN D PROVE E[e] = Flat(data2, q[e])
  <2>1. CASE e = d
    BY <1>1, <2>1
  <2>2. CASE e # d
    <3>1. e \in DOMAIN r /\ e # 0
      BY <1>2, TreeDirs
    <3>2. r[e] \in Seq(Clusters)
      BY <1>2, <3>1, HeapChain
    <3>3. \A i \in 1..Len(r[e]) : r[e][i] \in Clusters
      BY <3>2, LenProperties
    <3>4. q[e] = r[e] /\ \A i \in 1..Len(r[e]) : data2[r[e][i]] = data[r[e][i]]
      BY <2>2, <3>1, <3>3 DEF Kept
    <3> DEFINE u == r[e]
    <3>5. u \in Seq(Clusters) /\ \A i \in 1..Len(u) : data2[u[i]] = data[u[i]]
      BY <3>2, <3>4
    <3> HIDE DEF u
    <3>6. Flat(data2, u) = Flat(data, u)
      BY <1>2, <3>5, FlatOn
    <3>7. D[e] = Flat(data, r[e]) /\ E[e] = D[e]
      BY <1>1, <1>2, <2>2 DEF Held
    <3>8. QED
      BY <3>4, <3>6, <3>7 DEF u
  <2>3. QED
    BY <2>1, <2>2
<1>4. Held(data2, q, E)
  BY <1>1, <1>3 DEF Held
<1>5. QED
  BY <1>4 DEF E

\* In slots t, file n reads vals from the heap q, or it is behind the end of
\* the directory, or it owns no cluster.
Wrote(t, q, data, n, vals) ==
  \/ Buried(t, n)
  \/ LET x == t[Lookup(t, n)]
     IN /\ Lookup(t, n) # 0 /\ ~x.dir
        /\ \/ x.cluster = 0
           \/ /\ x.cluster \in DOMAIN q /\ Len(q[x.cluster]) = Len(vals) /\ x.size = Len(vals)
              /\ \A i \in 1..Len(vals) : data[q[x.cluster][i]] = vals[i]

\* The entries of a file.
Files(sh) == {x \in Slots : File(x, sh)}

\* w has written vals to file n of directory d, whose slots are t now; h is
\* the cluster the file had.
Written(w, G, F, b, r, data, D, d, h, n, vals, q, t) ==
  /\ Ready(w, q, G, F, b)
  /\ Tree(q, [D EXCEPT ![d] = t]) /\ Held(w.data, q, [D EXCEPT ![d] = t])
  /\ Near(D[d], t, Short[n], Files(Short[n]))
  /\ Wrote(t, q, w.data, n, vals)
  /\ Kept(r, data, q, w.data, d, h)

\* One step that keeps all runs but d and h after another.
LEMMA KeptTrans ==
  ASSUME NEW r, NEW x, NEW q, NEW y, NEW s, NEW z, NEW d, NEW h, NEW g,
         Kept(r, x, q, y, d, h), Kept(q, y, s, z, d, g), g \notin DOMAIN r \/ g = h \/ g = d
  PROVE  Kept(r, x, s, z, d, h)
<1> SUFFICES ASSUME NEW k \in DOMAIN r, k # d, k # h
             PROVE  /\ k \in DOMAIN s /\ s[k] = r[k]
                    /\ \A i \in 1..Len(r[k]) : r[k][i] \in Clusters => z[r[k][i]] = x[r[k][i]]
  BY DEF Kept
<1>1. /\ k \in DOMAIN q /\ q[k] = r[k]
      /\ \A i \in 1..Len(r[k]) : r[k][i] \in Clusters => y[r[k][i]] = x[r[k][i]]
  BY DEF Kept
<1>2. k # g
  OBVIOUS
<1>3. /\ k \in DOMAIN s /\ s[k] = q[k]
      /\ \A i \in 1..Len(q[k]) : q[k][i] \in Clusters => z[q[k][i]] = y[q[k][i]]
  BY <1>1, <1>2 DEF Kept
<1>4. QED
  BY <1>1, <1>3

\* What keeps all runs but d keeps those but d and h.
LEMMA KeptLess ==
  ASSUME NEW r, NEW x, NEW q, NEW y, NEW d, NEW h, Kept(r, x, q, y, d, d)
  PROVE  Kept(r, x, q, y, d, h)
BY DEF Kept

\* A directory that is entered keeps the other runs.
LEMMA KeptEntered ==
  ASSUME NEW w, NEW p, NEW r, NEW G, NEW F, NEW b, NEW d, NEW u, NEW t,
         Heap(p.fat, r), d \in DOMAIN r, Entered(w, p, r, G, F, b, d, u, t)
  PROVE  Kept(r, p.data, [r EXCEPT ![d] = u], w.data, d, d)
<1> SUFFICES ASSUME NEW g \in DOMAIN r, g # d
             PROVE  /\ g \in DOMAIN [r EXCEPT ![d] = u] /\ [r EXCEPT ![d] = u][g] = r[g]
                    /\ \A i \in 1..Len(r[g]) : r[g][i] \in Clusters => w.data[r[g][i]] = p.data[r[g][i]]
  BY DEF Kept
<1>1. /\ \A c \in Clusters : p.fat[c] # Free /\ (\A i \in 1..Len(r[d]) : r[d][i] # c)
                           => w.data[c] = p.data[c]
  BY DEF Entered
<1>2. r = [k \in DOMAIN r |-> r[k]]
  BY DEF Heap
<1>3. g \in DOMAIN [r EXCEPT ![d] = u] /\ [r EXCEPT ![d] = u][g] = r[g]
  BY <1>2
<1>4. ASSUME NEW i \in 1..Len(r[g]), r[g][i] \in Clusters
      PROVE  w.data[r[g][i]] = p.data[r[g][i]]
  <2>1. /\ p.fat[r[g][i]] # Free
        /\ \A j \in 1..Len(r[d]) : r[d][j] # r[g][i]
    BY <1>4, HeapOther
  <2>2. QED
    BY <1>1, <1>4, <2>1
<1>5. QED
  BY <1>3, <1>4

\* A run filled keeps the other runs.
LEMMA KeptFilled ==
  ASSUME NEW w, NEW p, NEW r, NEW F, NEW vals, NEW s, NEW d, NEW h \in DOMAIN r,
         Heap(p.fat, r), Filled(w, p, r, F, h, vals, s)
  PROVE  Kept(r, p.data, [r EXCEPT ![h] = s], w.data, d, h)
<1> SUFFICES ASSUME NEW g \in DOMAIN r, g # h
             PROVE  /\ g \in DOMAIN [r EXCEPT ![h] = s] /\ [r EXCEPT ![h] = s][g] = r[g]
                    /\ \A i \in 1..Len(r[g]) : r[g][i] \in Clusters => w.data[r[g][i]] = p.data[r[g][i]]
  BY DEF Kept
<1>1. \A c \in Clusters : p.fat[c] # Free /\ (\A j \in 1..Len(r[h]) : r[h][j] # c)
                            => w.data[c] = p.data[c]
  BY DEF Filled
<1>2. r = [k \in DOMAIN r |-> r[k]]
  BY DEF Heap
<1>3. g \in DOMAIN [r EXCEPT ![h] = s] /\ [r EXCEPT ![h] = s][g] = r[g]
  BY <1>2
<1>4. ASSUME NEW i \in 1..Len(r[g]), r[g][i] \in Clusters
      PROVE  w.data[r[g][i]] = p.data[r[g][i]]
  <2>1. /\ p.fat[r[g][i]] # Free
        /\ \A j \in 1..Len(r[h]) : r[h][j] # r[g][i]
    BY <1>4, HeapOther
  <2>2. QED
    BY <1>1, <1>4, <2>1
<1>5. QED
  BY <1>3, <1>4

\* What keeps the runs changes the free clusters, and those of d and h.
LEMMA BeyondKept ==
  ASSUME NEW p, NEW r, NEW G, NEW F, NEW b, Ready(p, r, G, F, b), NEW d \in DOMAIN r, NEW h,
         h \in DOMAIN r /\ h # d => RunIn(r[h], F), NEW q, NEW x, Kept(r, p.data, q, x, d, h)
  PROVE  Beyond(p.data, x, F, r[d])
<1> SUFFICES ASSUME NEW c \in Clusters, c \notin F, \A i \in 1..Len(r[d]) : r[d][i] # c
             PROVE  x[c] = p.data[c]
  BY DEF Beyond
<1>1. Heap(p.fat, r) /\ \A y \in Clusters : p.fat[y] = Free => y \in F
  BY DEF Ready
<1>2. p.fat[c] # Free
  BY <1>1
<1>3. PICK g \in DOMAIN r : \E i \in 1..Len(r[g]) : r[g][i] = c
  BY <1>1, <1>2, HeapFree
<1>4. PICK i \in 1..Len(r[g]) : r[g][i] = c
  BY <1>3
<1>5. g # d
  BY <1>4
<1>6. g # h
  <2>1. ASSUME g = h PROVE FALSE
    <3>1. RunIn(r[h], F)
      BY <1>5, <2>1
    <3>2. r[h][i] \in F
      BY <1>4, <2>1, <3>1 DEF RunIn
    <3>3. QED
      BY <1>4, <2>1, <3>2
  <2>2. QED
    BY <2>1
<1>7. QED
  BY <1>4, <1>5, <1>6 DEF Kept

\* The partition p works in directory d on file n, whose entry has cluster h.
Working(p, r, G, F, b, D, d, n, h) ==
  /\ Ready(p, r, G, F, b) /\ Tree(r, D) /\ Held(p.data, r, D) /\ d \in DOMAIN D /\ n \in Names
  /\ Roomy(G, F, p.data, r[d], Short[n], Files(Short[n]))
  /\ h \in DOMAIN r /\ h # d => RunIn(r[h], F)

\* What is known of the directory in which the call works.
LEMMA WorkingIs ==
  ASSUME NEW p, NEW r, NEW G, NEW F, NEW b, NEW D, NEW d, NEW n, NEW h,
         Working(p, r, G, F, b, D, d, n, h)
  PROVE  /\ p \in Parts /\ p.ok /\ Heap(p.fat, r) /\ p.data \in Datas
         /\ d \in DOMAIN r /\ d # 0 /\ d \in Clusters /\ r[d] \in Seq(Clusters)
         /\ D[d] \in Seq(Slots) /\ D[d] \in SlotSeq(Len(r[d])) /\ Len(D[d]) \in Nat
         /\ Len(r[d]) \in Nat /\ Len(D[d]) = Len(r[d]) * SlotsPer
         /\ D[d] = Flat(p.data, r[d]) /\ D[d] = DirSlots(p.fat, p.data, d)
         /\ Tidy(p.fat, p.data, r, D)
<1>1. p \in Parts /\ p.ok /\ Heap(p.fat, r) /\ Tree(r, D) /\ Held(p.data, r, D) /\ d \in DOMAIN D
  BY DEF Working, Ready
<1>2. p.data \in Datas
  BY <1>1, PartFacts
<1>3. d \in DOMAIN r /\ d # 0 /\ d \in Clusters
  BY <1>1, TreeDirs
<1>4. r[d] \in Seq(Clusters)
  BY <1>1, <1>3, HeapChain
<1>5. D[d] = Flat(p.data, r[d])
  BY <1>1 DEF Held
<1>6. Len(r[d]) \in Nat
  BY <1>4, LenProperties
<1>7. Flat(p.data, r[d]) \in SlotSeq(Len(r[d]))
  BY <1>2, <1>4, FlatIs
<1>8. D[d] \in Seq(Slots) /\ Len(D[d]) = Len(r[d]) * SlotsPer /\ Len(D[d]) \in Nat
  BY <1>5, <1>6, <1>7, SlotSeqIs
<1>9. DirSlots(p.fat, p.data, d) = Flat(p.data, r[d])
  BY <1>1, <1>3, DirIs
<1>10. Tidy(p.fat, p.data, r, D)
  BY <1>1, <1>2 DEF Tidy
<1>11. QED
  BY <1>1, <1>2, <1>3, <1>4, <1>5, <1>6, <1>7, <1>8, <1>9, <1>10

\* An entry that is found in a directory.
LEMMA TreeEntry ==
  ASSUME NEW fat, NEW data, NEW r, NEW D, Tidy(fat, data, r, D), NEW d \in DOMAIN D,
         NEW n \in Names, NEW k, k = Lookup(D[d], n), k # 0
  PROVE  /\ k \in 1..Len(D[d]) /\ D[d][k] \in Slots /\ Hit(D[d][k], n) /\ Real(D[d][k])
         /\ Placed(r, D, d, D[d][k]) /\ Holds(D, d, k, D[d][k].cluster)
         /\ D[d][k].cluster \in Cells /\ D[d][k].size \in Nat /\ D[d][k].dir \in BOOLEAN
         /\ D[d][k].cluster \in DOMAIN r /\ D[d][k].cluster # Root
         /\ ~D[d][k].dir => D[d][k].cluster \notin DOMAIN D
<1>1. Heap(fat, r) /\ Tree(r, D)
  BY DEF Tidy
<1>2. D[d] \in Seq(Slots) /\ Len(D[d]) \in Nat
  BY <1>1, LenProperties DEF Tree
<1> DEFINE s == D[d]
           e == s[k]
<1>3. k \in 1..Len(s) /\ Hit(s[k], n)
  <2>1. s \in Seq(Slots)
    BY <1>2
  <2> HIDE DEF s
  <2>2. k \in 0..Len(s) /\ Hit(s[k], n)
    BY <2>1, LookupIs DEF s
  <2>3. Len(s) \in Nat
    BY <1>2 DEF s
  <2>4. QED
    BY <2>2, <2>3
<1>4. e \in Slots /\ e.kind = "entry" /\ e.short = Short[n]
  <2>1. e \in Slots
    BY <1>2, <1>3, LenProperties
  <2>2. QED
    BY <1>3, <2>1 DEF Hit
<1>5. Real(e)
  BY <1>4, LfnIs DEF Real
<1>6. Placed(r, D, d, D[d][k])
  BY <1>1, <1>3, <1>5 DEF Tree
<1>7. Holds(D, d, k, e.cluster)
  BY <1>5 DEF Holds
<1> HIDE DEF e
<1>8. e.cluster \in Cells /\ e.size \in Nat /\ e.dir \in BOOLEAN
  BY <1>4, RealIs
<1>9. e.cluster \in DOMAIN r /\ e.cluster # Root
  BY <1>6 DEF Placed, e
<1>10. ASSUME ~e.dir PROVE e.cluster \notin DOMAIN D
  <2>1. ASSUME e.cluster \in DOMAIN D PROVE FALSE
    <3> DEFINE c == e.cluster
    <3>1. c \in DOMAIN D /\ Holds(D, d, k, c)
      BY <1>7, <2>1
    <3> HIDE DEF c
    <3>2. D[d][k].dir
      BY <1>1, <1>3, <3>1, TreeDirs
    <3>3. QED
      BY <1>10, <3>2 DEF e
  <2>2. QED
    BY <2>1
<1>11. QED
  BY <1>3, <1>4, <1>5, <1>6, <1>7, <1>8, <1>9, <1>10 DEF e, s

\* The entry of a file that is there.
LEMMA EntryOf ==
  ASSUME NEW p, NEW r, NEW G, NEW F, NEW b, NEW D, NEW d, NEW n, NEW h,
         Working(p, r, G, F, b, D, d, n, h), NEW k, k = Lookup(D[d], n), k # 0
  PROVE  /\ k \in 1..Len(D[d]) /\ D[d][k] \in Slots /\ Hit(D[d][k], n) /\ Real(D[d][k])
         /\ Placed(r, D, d, D[d][k]) /\ Holds(D, d, k, D[d][k].cluster)
         /\ D[d][k].cluster \in Cells /\ D[d][k].size \in Nat /\ D[d][k].dir \in BOOLEAN
         /\ D[d][k].cluster \in DOMAIN r /\ D[d][k].cluster # Root
         /\ ~D[d][k].dir => D[d][k].cluster \notin DOMAIN D
<1>1. Tidy(p.fat, p.data, r, D)
  BY WorkingIs
<1>2. d \in DOMAIN D /\ n \in Names
  BY DEF Working
<1>3. QED
  BY <1>1, <1>2, TreeEntry

\* The slots t are s but for slot k, the entry of file sh in both.
Changed(s, k, sh, t) ==
  /\ t \in Seq(Slots) /\ Len(t) = Len(s) /\ k \in 1..Len(s)
  /\ \A j \in 1..Len(s) : j # k => t[j] = s[j]
  /\ t[k] = s[k] \/ (File(s[k], sh) /\ File(t[k], sh))

\* Rewriting the entry of the call's own file is a change that the call may make.
LEMMA ChangedNear ==
  ASSUME NEW s \in Seq(Slots), NEW k, NEW sh, NEW t, Changed(s, k, sh, t), NEW E
  PROVE  /\ \A j \in 1..Len(s) : t[j] \in Allowed(s, j, sh, E)
         /\ Near(s, t, sh, E)
<1>1. Len(s) \in Nat /\ Len(t) = Len(s) /\ t \in Seq(Slots)
  BY LenProperties DEF Changed
<1>2. \A j \in 1..Len(t) : t[j] \in Slots
  BY <1>1, LenProperties
<1>3. ASSUME NEW j \in 1..Len(s) PROVE t[j] \in Allowed(s, j, sh, E)
  <2>1. t[j] = s[j] \/ (File(s[j], sh) /\ File(t[j], sh))
    BY DEF Changed
  <2>2. t[j] \in Slots
    BY <1>1, <1>2
  <2>3. QED
    BY <2>1, <2>2 DEF Allowed
<1>4. QED
  BY <1>1, <1>3 DEF Near

\* G takes what rewriting the call's own entry passes through.
LEMMA ChangedWide ==
  ASSUME NEW p, NEW r, NEW G, NEW F, NEW b, NEW D, NEW d, NEW n, NEW h,
         Working(p, r, G, F, b, D, d, n, h),
         NEW q, NEW x, Kept(r, p.data, q, x, d, h),
         NEW k, Changed(D[d], k, Short[n], Flat(x, r[d])),
         NEW t, Changed(D[d], k, Short[n], t)
  PROVE  Wide(G, F, x, r[d], t)
<1> DEFINE sh == Short[n]
           E == Files(sh)
           u == r[d]
           s == D[d]
           f == Flat(x, u)
           base == p.data
<1>1. /\ Ready(p, r, G, F, b) /\ d \in DOMAIN r
      /\ s \in Seq(Slots) /\ Len(s) = Len(u) * SlotsPer /\ s = Flat(base, u)
  BY WorkingIs DEF Working
<1>2. Roomy(G, F, base, u, sh, E) /\ (h \in DOMAIN r /\ h # d => RunIn(r[h], F))
  BY DEF Working
<1>3. Beyond(base, x, F, u)
  BY <1>1, <1>2, BeyondKept
<1>4. Changed(s, k, sh, f) /\ Changed(s, k, sh, t)
  OBVIOUS
<1> HIDE DEF sh, E, s, f, base, u
<1>5. \A j \in 1..Len(s) : f[j] \in Allowed(s, j, sh, E) /\ t[j] \in Allowed(s, j, sh, E)
  BY <1>1, <1>4, ChangedNear
<1>6. /\ \A j \in 1..(Len(u) * SlotsPer) : Flat(x, u)[j] \in Allowed(Flat(base, u), j, sh, E)
      /\ \A j \in 1..(Len(u) * SlotsPer) : t[j] \in Allowed(Flat(base, u), j, sh, E)
  BY <1>1, <1>5 DEF f
<1>7. Wide(G, F, x, u, t)
  BY <1>2, <1>3, <1>6, RoomyWide
<1>8. QED
  BY <1>7 DEF u

\* A scan finds the entry where it was.
LEMMA ChangedFound ==
  ASSUME NEW s \in Seq(Slots), NEW k, NEW sh, NEW t, Changed(s, k, sh, t), NEW n,
         k = Lookup(s, n), k # 0
  PROVE  Lookup(t, n) = k
<1>1. t \in Seq(Slots)
  BY DEF Changed
<1>2. Near(s, t, sh, {})
  BY ChangedNear
<1>3. Lookup(t, n) # 0
  BY <1>1, <1>2, NearKeeps
<1>4. t[Lookup(t, n)] \in {} \/ Lookup(s, n) = Lookup(t, n)
  BY <1>1, <1>2, <1>3, NearFinds
<1>5. QED
  BY <1>4

\* w has written vals over the entry at slot k.
Rewritten(w, G, F, b, r, data, d, h, k, vals, q, t) ==
  /\ Ready(w, q, G, F, b) /\ Kept(r, data, q, w.data, d, h) /\ t = Flat(w.data, q[d])
  /\ t[k].cluster # 0 =>
       /\ Len(q[t[k].cluster]) = Len(vals) /\ t[k].size = Len(vals)
       /\ \A i \in 1..Len(vals) : w.data[q[t[k].cluster][i]] = vals[i]

\* When the entry is rewritten the directories make a tree again.
LEMMA RewrittenIs ==
  ASSUME NEW p, NEW r, NEW G, NEW F, NEW b, NEW D, NEW d, NEW n, NEW h,
         Working(p, r, G, F, b, D, d, n, h), NEW k, k = Lookup(D[d], n), k # 0,
         ~D[d][k].dir, h = D[d][k].cluster,
         NEW w, NEW vals, NEW q, NEW t, Rewritten(w, G, F, b, r, p.data, d, h, k, vals, q, t),
         Changed(D[d], k, Short[n], t), t[k].cluster \in {0, h}, Swapped(r, q, D, d, k, t[k].cluster)
  PROVE  Written(w, G, F, b, r, p.data, D, d, h, n, vals, q, t)
<1> DEFINE s == D[d]
           c == t[k].cluster
           data == p.data
           data2 == w.data
           sh == Short[n]
<1>1. /\ Heap(p.fat, r) /\ d \in DOMAIN r /\ s \in Seq(Slots) /\ Tidy(p.fat, data, r, D)
      /\ Len(s) \in Nat
  BY WorkingIs
<1>2. Tree(r, D) /\ d \in DOMAIN D
  BY DEF Working
<1>3. /\ k \in 1..Len(s) /\ Real(s[k]) /\ Hit(s[k], n) /\ Holds(D, d, k, h)
      /\ h \in DOMAIN r /\ h # Root /\ h \notin DOMAIN D
      /\ s[k].dir \in BOOLEAN
  BY EntryOf
<1>4. /\ t \in Seq(Slots) /\ Len(t) = Len(s)
      /\ \A j \in 1..Len(s) : j # k => t[j] = s[j]
      /\ t[k] = s[k] \/ (File(s[k], sh) /\ File(t[k], sh))
  BY DEF Changed
<1>5. Hit(t[k], n) /\ Real(t[k]) /\ t[k].dir = FALSE
  BY <1>3, <1>4 DEF File, Hit, Real
<1>6. /\ Ready(w, q, G, F, b) /\ Kept(r, data, q, data2, d, h) /\ t = Flat(data2, q[d])
      /\ c # 0 => /\ Len(q[c]) = Len(vals) /\ t[k].size = Len(vals)
                  /\ \A i \in 1..Len(vals) : data2[q[c][i]] = vals[i]
  BY DEF Rewritten
<1>7. data2 \in Datas /\ Heap(w.fat, q)
  BY <1>6, PartFacts DEF Ready
<1>8. Swapped(r, q, D, d, k, c) /\ c \in {0, h} /\ c \in DOMAIN q
  BY DEF Swapped
<1>9. k \in 1..Len(t) /\ c # Root
  BY <1>3, <1>4, <1>8, CellFacts
<1>10. SameEntries(s, t, k)
  BY <1>4 DEF SameEntries
<1>11. ASSUME c # 0, NEW e \in DOMAIN D, NEW j \in 1..Len(D[e]), Holds(D, e, j, c)
       PROVE  e = d /\ j = k
  <2>1. c = h /\ c \in Clusters
    BY <1>1, <1>3, <1>8, <1>11, HeapFacts, CellFacts
  <2> HIDE DEF c
  <2>2. QED
    BY <1>2, <1>3, <1>11, <2>1 DEF Tree
<1> DEFINE E == [D EXCEPT ![d] = t]
<1>12. Tree(q, E)
  <2> DEFINE e == t[k]
  <2>1. c = e.cluster /\ (c # 0 => Len(q[c]) = e.size)
    BY <1>6
  <2> HIDE DEF c, E
  <2>2. Real(t[k]) /\ t[k].dir = FALSE /\ c = t[k].cluster /\ (c # 0 => Len(q[c]) = t[k].size)
    BY <1>5, <2>1
  <2>3. k \in 1..Len(D[d]) /\ Real(D[d][k]) => D[d][k].dir = FALSE
    BY <1>3
  <2>4. SameEntries(D[d], t, k)
    BY <1>10
  <2>5. Tree(q, [D EXCEPT ![d] = t])
    BY <1>1, <1>2, <1>4, <1>8, <1>9, <1>11, <2>2, <2>3, <2>4, TreeFile
  <2>6. QED
    BY <2>5 DEF E
<1>13. Held(data2, q, E)
  BY <1>1, <1>2, <1>3, <1>6, <1>7, HeldAfter
<1>14. Near(s, t, sh, Files(sh))
  BY <1>1, ChangedNear
<1>15. Lookup(t, n) = k
  BY <1>1, ChangedFound
<1>16. k # 0
  OBVIOUS
<1> HIDE DEF E, data2, data
<1>17. Wrote(t, q, data2, n, vals)
  BY <1>5, <1>6, <1>8, <1>15, <1>16 DEF Wrote
<1>18. QED
  BY <1>6, <1>12, <1>13, <1>14, <1>17 DEF Written, E, data2, data

\* p with the run h given back.
Dropped(p, h) == [p EXCEPT !.fat = FreeChain(@, h)]
Without(r, h) == IF h = 0 THEN r ELSE [x \in DOMAIN r \ {h} |-> r[x]]

\* The chain of an entry is freed: the other runs stay, and none is left at it.
LEMMA DropIs ==
  ASSUME NEW p, NEW r, NEW G, NEW F, NEW b, Ready(p, r, G, F, b),
         NEW h \in DOMAIN r, h # Root, RunIn(r[h], F)
  PROVE  /\ Ready(Dropped(p, h), Without(r, h), G, F, b)
         /\ Dropped(p, h).data = p.data
<1> DEFINE f == FreeChain(p.fat, h)
           w == Dropped(p, h)
           q == Without(r, h)
<1>1. /\ p \in Parts /\ p.ok /\ Heap(p.fat, r) /\ Open(G, F)
      /\ \A c \in Clusters : p.fat[c] = Free => c \in F
      /\ Trail(G, b, p.log, p.data)
  BY DEF Ready
<1>2. /\ p.fat \in Fats /\ p.data \in Datas /\ p.log \in Seq(ClusterWrites)
      /\ p.hint \in Nat /\ p.got \in Cells /\ p.ok \in BOOLEAN
      /\ p = [fat |-> p.fat, data |-> p.data, log |-> p.log,
              hint |-> p.hint, got |-> p.got, ok |-> p.ok]
  BY <1>1, PartFacts
<1>3. f \in Fats /\ Heap(f, q)
  <2>1. CASE h = 0
    <3>1. Chain(p.fat, h) = <<>>
      BY <2>1, CellFacts, NoChain
    <3>2. ToSet(Chain(p.fat, h)) = {}
      BY <3>1 DEF ToSet
    <3>3. f = [x \in DOMAIN p.fat |-> p.fat[x]]
      BY <3>2 DEF FreeChain
    <3>4. f = p.fat
      BY <1>2, <3>3 DEF Fats
    <3>5. QED
      BY <1>1, <1>2, <2>1, <3>4 DEF Without
  <2>2. CASE h # 0
    <3>1. Heap(f, q)
      BY <1>1, <2>2, HeapDrop DEF Without
    <3>2. QED
      BY <3>1, HeapFacts
  <2>3. QED
    BY <2>1, <2>2
<1>4. w = [fat |-> f, data |-> p.data, log |-> p.log, hint |-> p.hint, got |-> p.got, ok |-> p.ok]
  BY <1>2 DEF Dropped
<1> HIDE DEF w, q
<1>5. w \in Parts
  BY <1>2, <1>3, <1>4 DEF Parts
<1>6. ASSUME NEW c \in Clusters, f[c] = Free PROVE c \in F
  <2>1. c \in Cells
    BY CellFacts
  <2>2. CASE c \in ToSet(Chain(p.fat, h))
    <3>1. h # 0
      <4>1. ASSUME h = 0 PROVE FALSE
        <5>1. Chain(p.fat, h) = <<>>
          BY <4>1, CellFacts, NoChain
        <5>2. QED
          BY <2>2, <5>1 DEF ToSet
      <4>2. QED
        BY <4>1
    <3>2. Chain(p.fat, h) = r[h]
      BY <1>1, <3>1, HeapChain
    <3>3. r[h] \in Seq(Cells)
      BY <1>1, HeapFacts
    <3>4. DOMAIN r[h] = 1..Len(r[h])
      BY <3>3, LenProperties
    <3>5. PICK i \in 1..Len(r[h]) : r[h][i] = c
      BY <2>2, <3>2, <3>4 DEF ToSet
    <3>6. QED
      BY <3>5 DEF RunIn
  <2>3. CASE c \notin ToSet(Chain(p.fat, h))
    <3>1. p.fat[c] = Free
      BY <1>2, <1>6, <2>1, <2>3 DEF FreeChain, Fats
    <3>2. QED
      BY <1>1, <3>1
  <2>4. QED
    BY <2>2, <2>3
<1>7. Ready(w, q, G, F, b)
  BY <1>1, <1>3, <1>4, <1>5, <1>6 DEF Ready
<1>8. QED
  BY <1>4, <1>7 DEF w, q

\* An entry with another size or cluster.
LEMMA EntryChanged ==
  ASSUME NEW s \in Seq(Slots), NEW k \in 1..Len(s), NEW sh, File(s[k], sh),
         NEW size \in Nat, NEW x, x = [s[k] EXCEPT !.size = size]
  PROVE  x \in Slots /\ File(x, sh) /\ x.size = size /\ x.cluster = s[k].cluster
<1> DEFINE e == s[k]
           R == [kind : {"entry"}, short : Shorts, cluster : Cells, size : Nat, dir : BOOLEAN]
<1>1. e \in Slots /\ e.kind = "entry" /\ e.short = sh /\ e.dir = FALSE
  BY LenProperties DEF File
<1>2. e \in R /\ x = [e EXCEPT !.size = size]
  BY <1>1 DEF Slots, Zero, Long
<1> HIDE DEF e
<1>3. x \in R /\ x.short = e.short /\ x.size = size /\ x.cluster = e.cluster /\ x.dir = e.dir
  BY <1>2
<1>4. R \subseteq Slots /\ \A z \in R : z.kind = "entry"
  BY DEF Slots
<1> HIDE DEF R
<1>5. QED
  BY <1>1, <1>3, <1>4 DEF File, e

\* An entry without size and cluster.
LEMMA EntryCleared ==
  ASSUME NEW s \in Seq(Slots), NEW k \in 1..Len(s), NEW sh, File(s[k], sh),
         NEW x, x = [s[k] EXCEPT !.size = 0, !.cluster = 0]
  PROVE  x \in Slots /\ File(x, sh) /\ x.size = 0 /\ x.cluster = 0
<1> DEFINE e == s[k]
           R == [kind : {"entry"}, short : Shorts, cluster : Cells, size : Nat, dir : BOOLEAN]
<1>1. e \in Slots /\ e.kind = "entry" /\ e.short = sh /\ e.dir = FALSE
  BY LenProperties DEF File
<1>2. e \in R /\ x = [e EXCEPT !.size = 0, !.cluster = 0]
  BY <1>1 DEF Slots, Zero, Long
<1> HIDE DEF e
<1>3. x \in R /\ x.short = e.short /\ x.size = 0 /\ x.cluster = 0 /\ x.dir = e.dir
  BY <1>2, CellFacts
<1>4. R \subseteq Slots /\ \A z \in R : z.kind = "entry"
  BY DEF Slots
<1> HIDE DEF R
<1>5. QED
  BY <1>1, <1>3, <1>4 DEF File

\* A slot replaced by another entry of the file.
LEMMA ExceptChanged ==
  ASSUME NEW s \in Seq(Slots), NEW v, NEW k \in 1..Len(s), NEW sh, File(s[k], sh),
         Changed(s, k, sh, v), NEW e \in Slots, File(e, sh)
  PROVE  Changed(s, k, sh, [v EXCEPT ![k] = e]) /\ [v EXCEPT ![k] = e][k] = e
<1> DEFINE t == [v EXCEPT ![k] = e]
<1>1. v \in Seq(Slots) /\ Len(v) = Len(s) /\ Len(s) \in Nat
  BY LenProperties DEF Changed
<1>2. v \in [1..Len(s) -> Slots]
  BY <1>1, LenProperties
<1>3. t \in [1..Len(s) -> Slots] /\ t[k] = e /\ \A j \in 1..Len(s) : j # k => t[j] = v[j]
  BY <1>2
<1> HIDE DEF t
<1>4. t = [j \in 1..Len(s) |-> t[j]] /\ \A j \in 1..Len(s) : t[j] \in Slots
  BY <1>3
<1>5. [j \in 1..Len(s) |-> t[j]] \in Seq(Slots) /\ Len([j \in 1..Len(s) |-> t[j]]) = Len(s)
  BY <1>1, <1>4, IsASeq
<1>6. t \in Seq(Slots) /\ Len(t) = Len(s)
  BY <1>4, <1>5
<1>7. \A j \in 1..Len(s) : j # k => t[j] = s[j]
  BY <1>3 DEF Changed
<1>8. Changed(s, k, sh, t) /\ t[k] = e
  BY <1>3, <1>6, <1>7 DEF Changed
<1>9. QED
  BY <1>8 DEF t

\* Slots that are not touched count as changed.
LEMMA SameChanged ==
  ASSUME NEW s \in Seq(Slots), NEW k \in 1..Len(s), NEW sh
  PROVE  Changed(s, k, sh, s)
BY DEF Changed

\* Giving back a run keeps the others.
LEMMA KeptDropped ==
  ASSUME NEW r, NEW x, NEW d, NEW h
  PROVE  Kept(r, x, Without(r, h), x, d, h)
BY DEF Kept, Without

\* One patch of the entry, in a heap q that keeps what p had.
LEMMA PatchStep ==
  ASSUME NEW p, NEW r, NEW G, NEW F, NEW b, NEW D, NEW d, NEW n, NEW h,
         Working(p, r, G, F, b, D, d, n, h), NEW k, k \in 1..Len(D[d]), File(D[d][k], Short[n]),
         NEW v, NEW q, Ready(v, q, G, F, b), Kept(r, p.data, q, v.data, d, h),
         d \in DOMAIN q, q[d] = r[d], Changed(D[d], k, Short[n], Flat(v.data, q[d])),
         NEW e \in Slots, File(e, Short[n])
  PROVE  LET w == Patch(v, d, k, e)
             t == [Flat(v.data, q[d]) EXCEPT ![k] = e]
         IN /\ Ready(w, q, G, F, b) /\ Kept(r, p.data, q, w.data, d, h)
            /\ Changed(D[d], k, Short[n], t) /\ Flat(w.data, q[d]) = t /\ t[k] = e
            /\ Kept(q, v.data, q, w.data, d, d)
<1> DEFINE s == Flat(v.data, q[d])
           t == [s EXCEPT ![k] = e]
           w == Patch(v, d, k, e)
           z == D[d]
<1>1. /\ d \in DOMAIN r /\ d # 0 /\ z \in Seq(Slots)
  BY WorkingIs
<1>2. Changed(z, k, Short[n], t) /\ t[k] = e
  <2> DEFINE sh == Short[n]
  <2>1. k \in 1..Len(z) /\ File(z[k], sh) /\ Changed(z, k, sh, s) /\ File(e, sh)
    OBVIOUS
  <2> HIDE DEF sh, z, s
  <2>2. Changed(z, k, sh, [s EXCEPT ![k] = e]) /\ [s EXCEPT ![k] = e][k] = e
    BY <1>1, <2>1, ExceptChanged
  <2>3. QED
    BY <2>2 DEF sh
<1>3. Changed(z, k, Short[n], s)
  OBVIOUS
<1> HIDE DEF s, t, z
<1>4. Wide(G, F, v.data, r[d], t)
  BY <1>2, <1>3, ChangedWide DEF s, z
<1>5. s = Flat(v.data, q[d]) /\ k \in 1..Len(s) /\ Wide(G, F, v.data, q[d], [s EXCEPT ![k] = e])
  BY <1>3, <1>4 DEF s, t, Changed
<1>6. Entered(Patch(v, d, k, e), v, q, G, F, b, d, q[d], [s EXCEPT ![k] = e])
  BY <1>1, <1>5, PatchIs
<1>7. Entered(w, v, q, G, F, b, d, q[d], t)
  BY <1>6 DEF t
<1>8. Heap(v.fat, q) /\ q = [x \in DOMAIN q |-> q[x]]
  BY DEF Ready, Heap
<1>9. [q EXCEPT ![d] = q[d]] = q
  BY <1>8
<1>10. Ready(w, q, G, F, b) /\ Flat(w.data, q[d]) = t
  BY <1>7, <1>9 DEF Entered
<1> HIDE DEF w
<1>11. Kept(q, v.data, q, w.data, d, d)
  <2>1. Kept(q, v.data, [q EXCEPT ![d] = q[d]], w.data, d, d)
    BY <1>7, <1>8, KeptEntered
  <2>2. QED
    BY <1>9, <2>1
<1>12. Kept(r, p.data, q, w.data, d, h)
  BY <1>11, KeptTrans
<1>13. QED
  BY <1>2, <1>10, <1>11, <1>12 DEF w, t, s, z

\* write_file without content: the chain is freed, the entry loses size and cluster.
LEMMA TruncateIs ==
  ASSUME NEW p, NEW r, NEW G, NEW F, NEW b, NEW D, NEW d, NEW n, NEW h,
         Working(p, r, G, F, b, D, d, n, h), NEW k, k = Lookup(D[d], n), k # 0,
         ~D[d][k].dir, h = D[d][k].cluster
  PROVE  \E q, t : Written(Truncate(p, d, k, D[d][k]), G, F, b, r, p.data, D, d, h, n, <<>>, q, t)
<1> DEFINE s == D[d]
           sh == Short[n]
           e == s[k]
           e1 == [e EXCEPT !.size = 0]
           e2 == [e EXCEPT !.size = 0, !.cluster = 0]
           q == Without(r, h)
           v == Dropped(p, h)
           w1 == Patch(v, d, k, e1)
           w2 == Patch(w1, d, k, e2)
<1>1. /\ Ready(p, r, G, F, b) /\ Heap(p.fat, r) /\ d \in DOMAIN r /\ d # 0 /\ s \in Seq(Slots)
      /\ s = Flat(p.data, r[d]) /\ d \in DOMAIN D
  BY WorkingIs DEF Working
<1>2. /\ k \in 1..Len(s) /\ Hit(s[k], n) /\ Real(s[k]) /\ Holds(D, d, k, h)
      /\ h \in DOMAIN r /\ h # Root /\ h \notin DOMAIN D /\ s[k].dir \in BOOLEAN
  BY EntryOf
<1>3. h # d /\ RunIn(r[h], F)
  BY <1>1, <1>2 DEF Working
<1>4. Ready(v, q, G, F, b) /\ v.data = p.data
  BY <1>1, <1>2, <1>3, DropIs
<1>5. File(s[k], sh)
  BY <1>2 DEF Hit, File
<1>6. /\ e1 \in Slots /\ File(e1, sh) /\ e2 \in Slots /\ File(e2, sh) /\ e2.cluster = 0
  <2> DEFINE o == 0
  <2>1. o \in Nat /\ e1 = [s[k] EXCEPT !.size = o] /\ e2 = [s[k] EXCEPT !.size = 0, !.cluster = 0]
    OBVIOUS
  <2> HIDE DEF e1, e2, s, sh, o
  <2>2. e1 \in Slots /\ File(e1, sh)
    BY <1>1, <1>2, <1>5, <2>1, EntryChanged
  <2>3. e2 \in Slots /\ File(e2, sh) /\ e2.cluster = 0
    BY <1>1, <1>2, <1>5, <2>1, EntryCleared
  <2>4. QED
    BY <2>2, <2>3
<1>7. d \in DOMAIN q /\ q[d] = r[d]
  BY <1>1, <1>3 DEF Without
<1>8. Kept(r, p.data, q, v.data, d, h)
  BY <1>4, KeptDropped
<1>9. Changed(s, k, sh, Flat(v.data, q[d]))
  BY <1>1, <1>2, <1>4, <1>7, SameChanged
<1> HIDE DEF v, q, e1, e2, e
<1>10. /\ Ready(w1, q, G, F, b) /\ Kept(r, p.data, q, w1.data, d, h)
       /\ Changed(s, k, sh, Flat(w1.data, q[d]))
  <2>1. LET t == [Flat(v.data, q[d]) EXCEPT ![k] = e1]
        IN /\ Ready(w1, q, G, F, b) /\ Kept(r, p.data, q, w1.data, d, h)
           /\ Changed(s, k, sh, t) /\ Flat(w1.data, q[d]) = t
    BY <1>2, <1>4, <1>5, <1>6, <1>7, <1>8, <1>9, PatchStep
  <2> HIDE DEF w1
  <2>2. QED
    BY <2>1
<1> HIDE DEF w1
<1> DEFINE t == [Flat(w1.data, q[d]) EXCEPT ![k] = e2]
<1>11. /\ Ready(w2, q, G, F, b) /\ Kept(r, p.data, q, w2.data, d, h)
       /\ Changed(s, k, sh, t) /\ Flat(w2.data, q[d]) = t /\ t[k] = e2
  BY <1>2, <1>5, <1>6, <1>7, <1>10, PatchStep
<1> HIDE DEF w2, t
<1>12. t[k].cluster = 0
  BY <1>6, <1>11
<1>13. Rewritten(w2, G, F, b, r, p.data, d, h, k, <<>>, q, t)
  BY <1>11, <1>12 DEF Rewritten
<1>14. 0 \in DOMAIN r
  BY <1>1, HeapFacts
<1>15. Swapped(r, q, D, d, k, t[k].cluster)
  <2>1. h # 0 => Held0(D, d, k, h)
    BY <1>2 DEF Held0
  <2>2. ASSUME NEW g \in DOMAIN q, g \notin {0, Root} PROVE g \in DOMAIN r /\ ~Held0(D, d, k, g)
    <3>1. g \in DOMAIN r
      BY DEF q, Without
    <3>2. ASSUME Held0(D, d, k, g) PROVE FALSE
      <4>1. g = h
        BY <1>2, <3>2 DEF Held0, Holds
      <4>2. QED
        BY <2>2, <4>1 DEF q, Without
    <3>3. QED
      BY <3>1, <3>2
  <2>3. \A g \in DOMAIN q : g \in DOMAIN r /\ q[g] = r[g]
    BY DEF q, Without
  <2>4. \A g \in DOMAIN r : g \in DOMAIN q \/ (g = h /\ g # 0)
    BY DEF q, Without
  <2>5. QED
    BY <1>12, <1>14, <2>1, <2>2, <2>3, <2>4 DEF Swapped
<1>16. Written(w2, G, F, b, r, p.data, D, d, h, n, <<>>, q, t)
  BY <1>11, <1>12, <1>13, <1>15, RewrittenIs
<1>17. Truncate(p, d, k, D[d][k]) = w2
  BY DEF Truncate, Dropped, w2, w1, v, e, e1, e2
<1>18. QED
  BY <1>16, <1>17

\* write_file over a file that is there: the chain is rewritten, then the size.
LEMMA ReplaceIs ==
  ASSUME NEW p, NEW r, NEW G, NEW F, NEW b, NEW D, NEW d, NEW n, NEW h,
         Working(p, r, G, F, b, D, d, n, h), NEW k, k = Lookup(D[d], n), k # 0,
         ~D[d][k].dir, h = D[d][k].cluster, NEW vals \in Seq(Blocks), Len(vals) > 0
  PROVE  /\ Outcome(Replace(p, d, k, D[d][k], vals), G, b)
         /\ Replace(p, d, k, D[d][k], vals).ok =>
              \E q, t :
                     Written(Replace(p, d, k, D[d][k], vals), G, F, b, r, p.data, D, d, h, n, vals, q, t)
<1> DEFINE s == D[d]
           sh == Short[n]
           e == s[k]
           m == Len(vals)
           e1 == [e EXCEPT !.size = m]
           v == WriteChain(p, h, vals)
           w == Patch(v, d, k, e1)
<1>1. /\ Ready(p, r, G, F, b) /\ Heap(p.fat, r) /\ d \in DOMAIN r /\ d # 0 /\ s \in Seq(Slots)
      /\ s = Flat(p.data, r[d]) /\ d \in DOMAIN D /\ p.data \in Datas /\ r[d] \in Seq(Clusters)
      /\ Open(G, F) /\ r = [x \in DOMAIN r |-> r[x]]
  BY WorkingIs DEF Working, Ready, Heap
<1>2. /\ k \in 1..Len(s) /\ Hit(s[k], n) /\ Real(s[k]) /\ Holds(D, d, k, h)
      /\ h \in DOMAIN r /\ h # Root /\ h \notin DOMAIN D /\ s[k].dir \in BOOLEAN
  BY EntryOf
<1>3. h # d /\ RunIn(r[h], F)
  BY <1>1, <1>2 DEF Working
<1>4. /\ v \in Parts /\ Trail(G, b, v.log, v.data)
      /\ v.ok => \E u \in Seq(Cells) : Filled(v, p, r, F, h, vals, u)
  BY <1>1, <1>2, <1>3, WriteChainIs
<1>5. File(s[k], sh) /\ m \in Nat
  BY <1>2, LenProperties DEF Hit, File
<1>6. e1 \in Slots /\ File(e1, sh) /\ e1.size = m /\ e1.cluster = h
  <2>1. e1 = [s[k] EXCEPT !.size = m]
    OBVIOUS
  <2>2. s \in Seq(Slots) /\ k \in 1..Len(s) /\ s[k].cluster = h
    BY <1>1, <1>2
  <2> HIDE DEF e1, s, sh, m, e
  <2>3. e1 \in Slots /\ File(e1, sh) /\ e1.size = m /\ e1.cluster = s[k].cluster
    BY <1>5, <2>1, <2>2, EntryChanged
  <2>4. QED
    BY <2>2, <2>3
<1>7. Replace(p, d, k, D[d][k], vals) = IF v.ok THEN w ELSE v
  BY DEF Replace
<1> HIDE DEF v, e1, e, m
<1>8. ASSUME v.ok
      PROVE  Outcome(w, G, b) /\ \E q, t : Written(w, G, F, b, r, p.data, D, d, h, n, vals, q, t)
  <2>1. PICK u \in Seq(Cells) : Filled(v, p, r, F, h, vals, u)
    BY <1>4, <1>8
  <2> DEFINE q == [r EXCEPT ![h] = u]
             t == [Flat(v.data, q[d]) EXCEPT ![k] = e1]
  <2>2. /\ DOMAIN q = DOMAIN r /\ q[h] = u /\ \A g \in DOMAIN r : g # h => q[g] = r[g]
    BY <1>1, <1>2
  <2>3. /\ Heap(v.fat, q) /\ Len(u) = Len(vals)
        /\ \A i \in 1..Len(u) : u[i] \in Clusters => v.data[u[i]] = vals[i]
        /\ \A c \in Clusters : v.fat[c] = Free => c \in F
    BY <2>1 DEF Filled
  <2>4. Kept(r, p.data, q, v.data, d, h) /\ Kept(r, p.data, q, v.data, h, h)
    BY <1>1, <1>2, <2>1, KeptFilled
  <2> HIDE DEF q
  <2>5. Ready(v, q, G, F, b)
    BY <1>1, <1>4, <1>8, <2>3 DEF Ready
  <2>6. d \in DOMAIN q /\ q[d] = r[d]
    BY <1>1, <1>3, <2>2
  <2>7. Flat(v.data, r[d]) = s
    <3> DEFINE x == v.data
               y == p.data
               z == r[d]
    <3>1. x \in Datas /\ y \in Datas /\ z \in Seq(Clusters)
      BY <1>1, <1>4, PartFacts
    <3>2. \A i \in 1..Len(z) : z[i] \in Clusters
      BY <3>1, LenProperties
    <3>3. \A i \in 1..Len(z) : x[z[i]] = y[z[i]]
      BY <1>1, <1>3, <2>4, <3>2 DEF Kept
    <3> HIDE DEF x, y, z
    <3>4. Flat(x, z) = Flat(y, z)
      BY <3>1, <3>3, FlatOn
    <3>5. QED
      BY <1>1, <3>4 DEF x, y, z
  <2>8. Changed(s, k, sh, Flat(v.data, q[d]))
    BY <1>1, <1>2, <2>6, <2>7, SameChanged
  <2>9. /\ Ready(w, q, G, F, b) /\ Kept(r, p.data, q, w.data, d, h)
        /\ Changed(s, k, sh, t) /\ Flat(w.data, q[d]) = t /\ t[k] = e1
        /\ Kept(q, v.data, q, w.data, d, d)
    BY <1>2, <1>5, <1>6, <2>4, <2>5, <2>6, <2>8, PatchStep
  <2> HIDE DEF w, t
  <2>10. ASSUME h # 0, NEW i \in 1..Len(vals) PROVE w.data[q[h][i]] = vals[i]
    <3>1. h \in DOMAIN q /\ i \in 1..Len(q[h])
      BY <1>2, <2>2, <2>3
    <3>2. q[h][i] \in Clusters
      BY <2>3, <2>10, <3>1, HeapFacts
    <3>3. w.data[q[h][i]] = v.data[q[h][i]]
      BY <1>3, <2>9, <3>1, <3>2 DEF Kept
    <3>4. v.data[u[i]] = vals[i]
      BY <2>2, <2>3, <3>1, <3>2
    <3>5. QED
      BY <2>2, <3>3, <3>4
  <2>11. Rewritten(w, G, F, b, r, p.data, d, h, k, vals, q, t)
    <3>1. t[k].cluster = h /\ t[k].size = Len(vals)
      BY <1>6, <2>9 DEF m
    <3>2. Len(q[h]) = Len(vals)
      BY <2>2, <2>3
    <3>3. QED
      BY <2>9, <2>10, <3>1, <3>2 DEF Rewritten
  <2>12. Swapped(r, q, D, d, k, t[k].cluster)
    <3>1. t[k].cluster = h
      BY <1>6, <2>9
    <3>2. ASSUME NEW g, Held0(D, d, k, g) PROVE g = h
      BY <1>2, <3>2 DEF Held0, Holds
    <3>3. QED
      BY <1>2, <2>2, <3>1, <3>2 DEF Swapped
  <2>13. t[k].cluster \in {0, h}
    BY <1>6, <2>9
  <2>14. Written(w, G, F, b, r, p.data, D, d, h, n, vals, q, t)
    BY <2>9, <2>11, <2>12, <2>13, RewrittenIs
  <2>15. Outcome(w, G, b)
    BY <2>9 DEF Ready, Outcome
  <2>16. QED
    BY <2>14, <2>15
<1>9. Outcome(v, G, b)
  BY <1>4 DEF Outcome
<1> HIDE DEF w
<1>10. CASE v.ok
  BY <1>7, <1>8, <1>10
<1>11. CASE ~v.ok
  BY <1>7, <1>9, <1>11
<1>12. QED
  BY <1>10, <1>11

\* v is ready for the entry of a new file: its cluster is c, its content vals.
Filed(v, q, G, F, b, r, data, d, c, vals) ==
  /\ Ready(v, q, G, F, b) /\ Kept(r, data, q, v.data, d, d)
  /\ d \in DOMAIN q /\ q[d] = r[d] /\ Flat(v.data, q[d]) = Flat(data, r[d])
  /\ c \in DOMAIN q /\ c # d /\ c # Root /\ c \in Cells
  /\ DOMAIN q = DOMAIN r \cup {c} /\ (c # 0 => c \notin DOMAIN r)
  /\ c # 0 => /\ Len(q[c]) = Len(vals)
              /\ \A i \in 1..Len(vals) : v.data[q[c][i]] = vals[i]

\* An entry that is added changes no other entry.
LEMMA AddedSame ==
  ASSUME NEW n \in Nat, NEW s \in SlotSeq(n), NEW total \in 1..SlotsPer, NEW e \in Slots,
         NEW t, t = Added(s, total, e), NEW m, m = AddedAt(s, total)
  PROVE  /\ t \in Seq(Slots) /\ m \in 1..Len(t) /\ t[m] = e /\ SameEntries(s, t, m)
         /\ m \in 1..Len(s) => ~Real(s[m])
<1> DEFINE l == IF Room(s, total) THEN n ELSE n + 1
<1>1. /\ t \in SlotSeq(l)
      /\ Len(s) \in Nat /\ Len(s) <= Len(t) /\ m \in 1..Len(t) /\ t[m] = e
      /\ m <= Len(s) => s[m] = Zero
      /\ \A k \in 1..Len(s) : t[k] = s[k] \/ (k >= EndOf(s) /\ Ended(s) /\ t[k] \in {Long, e})
      /\ \A k \in 1..Len(t) : k # m => t[k] \in {Zero, Long} \/ (k <= Len(s) /\ t[k] = s[k])
  BY AddedIs
<1>2. l \in Nat
  OBVIOUS
<1> HIDE DEF l
<1>3. t \in Seq(Slots) /\ Len(t) \in Nat
  BY <1>1, <1>2, SlotSeqIs, LenProperties
<1>4. ~Real(Zero) /\ ~Real(Long)
  BY DEF Real, Zero, Long
<1>5. ASSUME NEW k \in 1..Len(s), k # m, Real(s[k]) PROVE k \in 1..Len(t) /\ t[k] = s[k]
  <2>1. k \in 1..Len(t)
    BY <1>1, <1>3
  <2>2. ~(k >= EndOf(s) /\ Ended(s))
    BY <1>4, <1>5 DEF Ended
  <2>3. QED
    BY <1>1, <2>1, <2>2
<1>6. ASSUME NEW k \in 1..Len(t), k # m, Real(t[k]) PROVE k \in 1..Len(s) /\ t[k] = s[k]
  <2>1. k <= Len(s) /\ t[k] = s[k]
    BY <1>1, <1>4, <1>6
  <2>2. QED
    BY <1>1, <1>3, <2>1
<1>7. SameEntries(s, t, m)
  BY <1>5, <1>6 DEF SameEntries
<1>8. m \in 1..Len(s) => ~Real(s[m])
  BY <1>1, <1>4
<1>9. QED
  BY <1>1, <1>3, <1>7, <1>8

\* G takes what adding an entry passes through.
LEMMA AddedWide ==
  ASSUME NEW G, NEW F, NEW base, NEW u, NEW sh, NEW E, Roomy(G, F, base, u, sh, E),
         NEW a, Beyond(base, a, F, u), Flat(a, u) = Flat(base, u),
         NEW n \in Nat, n = Len(u), NEW s \in SlotSeq(n), s = Flat(base, u),
         NEW total \in 1..SlotsPer, NEW e \in Slots, e \in E
  PROVE  Wide(G, F, a, u, Added(s, total, e)) /\ Near(s, Added(s, total, e), sh, E)
<1> DEFINE t == Added(s, total, e)
<1>1. Len(s) = n * SlotsPer /\ s \in Seq(Slots) /\ Len(s) \in Nat
  BY SlotSeqIs
<1>2. Near(s, t, sh, E)
  BY AddedNear
<1> HIDE DEF t
<1>3. \A k \in 1..(Len(u) * SlotsPer) : Flat(a, u)[k] \in Allowed(Flat(base, u), k, sh, E)
  BY DEF Allowed
<1>4. \A k \in 1..(Len(u) * SlotsPer) : t[k] \in Allowed(Flat(base, u), k, sh, E)
  BY <1>1, <1>2 DEF Near
<1>5. Wide(G, F, a, u, t)
  BY <1>3, <1>4, RoomyWide
<1>6. QED
  BY <1>2, <1>5 DEF t

\* The entry of a new file.
LEMMA FileEntry ==
  ASSUME NEW n \in Names, NEW c \in Cells, NEW size \in Nat
  PROVE  LET e == Entry(Short[n], c, size, FALSE)
         IN /\ e \in Slots /\ Hit(e, n) /\ Real(e) /\ File(e, Short[n]) /\ e \in Files(Short[n])
            /\ e.cluster = c /\ e.size = size /\ e.dir = FALSE
            /\ Lfn[n] + 1 \in 1..SlotsPer
<1> DEFINE sh == Short[n]
           z == FALSE
           e == Entry(sh, c, size, z)
<1>1. sh \in Shorts /\ sh \notin {".", ".."} /\ Lfn[n] + 1 \in 1..SlotsPer /\ z \in BOOLEAN
  BY LfnIs
<1> HIDE DEF sh, z
<1>2. /\ e \in Slots /\ e.kind = "entry" /\ e.short = sh
      /\ e.cluster = c /\ e.size = size /\ e.dir = z
  BY <1>1, EntryIs
<1> HIDE DEF e
<1>3. Hit(e, n) /\ Real(e) /\ File(e, Short[n]) /\ e \in Files(Short[n])
  BY <1>1, <1>2 DEF Hit, Real, File, Files, sh, z
<1>4. QED
  BY <1>1, <1>2, <1>3 DEF e, sh, z

\* The entry of a new file goes in.
LEMMA FiledIs ==
  ASSUME NEW p, NEW r, NEW G, NEW F, NEW b, NEW D, NEW d, NEW n, NEW h,
         Working(p, r, G, F, b, D, d, n, h), Lookup(D[d], n) = 0,
         NEW v, NEW q, NEW c, NEW vals \in Seq(Blocks),
         Filed(v, q, G, F, b, r, p.data, d, c, vals),
         NEW size \in Nat, size = Len(vals)
  PROVE  /\ Outcome(AddEntry(v, d, n, c, size, FALSE), G, b)
         /\ AddEntry(v, d, n, c, size, FALSE).ok =>
              \E q2, t : Written(AddEntry(v, d, n, c, size, FALSE), G, F, b, r, p.data, D, d, h,
                                 n, vals, q2, t)
<1> DEFINE s == D[d]
           sh == Short[n]
           base == p.data
           total == Lfn[n] + 1
           e == Entry(sh, c, size, FALSE)
           t == Added(s, total, e)
           m == AddedAt(s, total)
           w == AddEntry(v, d, n, c, size, FALSE)
<1>1. /\ Ready(p, r, G, F, b) /\ Heap(p.fat, r) /\ d \in DOMAIN r /\ d # 0 /\ s \in Seq(Slots)
      /\ s = Flat(base, r[d]) /\ s \in SlotSeq(Len(r[d])) /\ Len(r[d]) \in Nat
      /\ Tree(r, D) /\ d \in DOMAIN D /\ n \in Names /\ Tidy(p.fat, base, r, D)
      /\ Roomy(G, F, base, r[d], sh, Files(sh))
  BY WorkingIs DEF Working
<1>2. /\ Ready(v, q, G, F, b) /\ Kept(r, base, q, v.data, d, d)
      /\ d \in DOMAIN q /\ q[d] = r[d] /\ Flat(v.data, q[d]) = Flat(base, r[d])
      /\ c \in DOMAIN q /\ c # d /\ c # Root /\ c \in Cells
      /\ DOMAIN q = DOMAIN r \cup {c} /\ (c # 0 => c \notin DOMAIN r)
      /\ c # 0 => /\ Len(q[c]) = Len(vals)
                  /\ \A i \in 1..Len(vals) : v.data[q[c][i]] = vals[i]
  BY DEF Filed
<1>3. /\ e \in Slots /\ Hit(e, n) /\ Real(e) /\ File(e, sh) /\ e \in Files(sh)
      /\ e.cluster = c /\ e.size = size /\ e.dir = FALSE
      /\ total \in 1..SlotsPer
  <2>1. n \in Names /\ c \in Cells
    BY <1>1, <1>2
  <2> HIDE DEF s, base, t, m, w
  <2>2. LET x == Entry(Short[n], c, size, FALSE)
        IN /\ x \in Slots /\ Hit(x, n) /\ Real(x) /\ File(x, Short[n]) /\ x \in Files(Short[n])
           /\ x.cluster = c /\ x.size = size /\ x.dir = FALSE
           /\ Lfn[n] + 1 \in 1..SlotsPer
    BY <2>1, FileEntry
  <2>3. QED
    BY <2>2
<1>4. Beyond(base, v.data, F, r[d])
  BY <1>1, <1>2, BeyondKept
<1> HIDE DEF e, total, s, sh
<1>5. Wide(G, F, v.data, r[d], t) /\ Near(s, t, sh, Files(sh))
  <2> DEFINE k == Len(r[d])
             a == v.data
             u == r[d]
             E == Files(sh)
  <2>1. /\ Roomy(G, F, base, u, sh, E) /\ Beyond(base, a, F, u) /\ Flat(a, u) = Flat(base, u)
        /\ k \in Nat /\ k = Len(u) /\ s \in SlotSeq(k) /\ s = Flat(base, u)
        /\ total \in 1..SlotsPer /\ e \in Slots /\ e \in E
    BY <1>1, <1>2, <1>3, <1>4
  <2> HIDE DEF k, a, u, E, base
  <2>2. Wide(G, F, a, u, t) /\ Near(s, t, sh, E)
    BY <2>1, AddedWide
  <2>3. QED
    BY <2>2 DEF a, u, E
<1>6. /\ Outcome(w, G, b)
      /\ w.ok => \E u : Entered(w, v, q, G, F, b, d, u, t)
  <2>1. t = Added(Flat(v.data, q[d]), Lfn[n] + 1, Entry(Short[n], c, size, FALSE))
    BY <1>1, <1>2 DEF e, total, sh
  <2>2. Wide(G, F, v.data, q[d], t)
    BY <1>2, <1>5
  <2> DEFINE z == FALSE
  <2>3. z \in BOOLEAN
    OBVIOUS
  <2>4. w = AddEntry(v, d, n, c, size, z)
       /\ t = Added(Flat(v.data, q[d]), Lfn[n] + 1, Entry(Short[n], c, size, z))
    BY <2>1
  <2> HIDE DEF w, t, z
  <2>5. Wide(G, F, v.data, q[d], Added(Flat(v.data, q[d]), Lfn[n] + 1, Entry(Short[n], c, size, z)))
    BY <2>2, <2>4
  <2>6. /\ Outcome(AddEntry(v, d, n, c, size, z), G, b)
        /\ AddEntry(v, d, n, c, size, z).ok =>
             \E u : Entered(AddEntry(v, d, n, c, size, z), v, q, G, F, b, d, u,
                            Added(Flat(v.data, q[d]), Lfn[n] + 1, Entry(Short[n], c, size, z)))
    BY <1>1, <1>2, <2>3, <2>5, AddEntryIs
  <2>7. QED
    BY <2>4, <2>6
<1> HIDE DEF w
<1>7. /\ t \in Seq(Slots) /\ m \in 1..Len(t) /\ t[m] = e /\ SameEntries(s, t, m)
      /\ m \in 1..Len(s) => ~Real(s[m])
  <2> DEFINE k == Len(r[d])
  <2>1. k \in Nat /\ s \in SlotSeq(k) /\ total \in 1..SlotsPer /\ e \in Slots
    BY <1>1, <1>3
  <2>2. t = Added(s, total, e) /\ m = AddedAt(s, total)
    OBVIOUS
  <2> HIDE DEF k, t, m
  <2>3. QED
    BY <2>1, <2>2, AddedSame
<1>8. Lookup(s, n) = 0
  BY DEF s
<1>9. Lookup(t, n) = m \/ Buried(t, n)
  <2> DEFINE k == Len(r[d])
  <2>1. k \in Nat /\ s \in SlotSeq(k) /\ total \in 1..SlotsPer /\ e \in Slots /\ Hit(e, n)
    BY <1>1, <1>3
  <2> HIDE DEF k
  <2>2. QED
    BY <1>8, <2>1, AddedFound
<1> HIDE DEF t, m
<1>10. SUFFICES ASSUME w.ok
                PROVE  \E q2, x : Written(w, G, F, b, r, base, D, d, h, n, vals, q2, x)
  BY <1>6 DEF w
<1>11. PICK u : Entered(w, v, q, G, F, b, d, u, t)
  BY <1>6, <1>10
<1> DEFINE q2 == [q EXCEPT ![d] = u]
<1>12. /\ DOMAIN q2 = DOMAIN q /\ q2[d] = u /\ \A g \in DOMAIN q : g # d => q2[g] = q[g]
  <2>1. q = [x \in DOMAIN q |-> q[x]]
    BY <1>2 DEF Ready, Heap
  <2>2. QED
    BY <1>2, <2>1
<1>13. Ready(w, q2, G, F, b) /\ Flat(w.data, q2[d]) = t
  BY <1>11, <1>12 DEF Entered
<1>14. Kept(q, v.data, q2, w.data, d, d)
  <2>1. Heap(v.fat, q)
    BY <1>2 DEF Ready
  <2>2. QED
    BY <1>2, <1>11, <2>1, KeptEntered
<1> HIDE DEF q2
<1>15. Kept(r, base, q2, w.data, d, d)
  BY <1>2, <1>14, KeptTrans
<1>16. Kept(r, base, q2, w.data, d, h) /\ Kept(r, base, q2, w.data, d, 0)
  BY <1>15, KeptLess
<1>17. Swapped(r, q2, D, d, m, c)
  <2>1. ASSUME NEW g PROVE ~Held0(D, d, m, g)
    BY <1>7 DEF Held0, Holds, s
  <2>2. ASSUME NEW g \in DOMAIN r, g # d PROVE q2[g] = r[g]
    BY <1>15, <2>2 DEF Kept
  <2>3. QED
    BY <1>2, <1>12, <2>1, <2>2 DEF Swapped
<1>18. Tree(q2, [D EXCEPT ![d] = t])
  <2>1. Real(t[m]) /\ t[m].dir = FALSE /\ c = t[m].cluster
    BY <1>3, <1>7
  <2>2. m \in 1..Len(D[d]) /\ Real(D[d][m]) => D[d][m].dir = FALSE
    BY <1>7 DEF s
  <2>3. SameEntries(D[d], t, m)
    BY <1>7 DEF s
  <2>4. c # 0 => Len(q2[c]) = t[m].size
    BY <1>2, <1>3, <1>7, <1>12
  <2>5. ASSUME c # 0, NEW x \in DOMAIN D, NEW k \in 1..Len(D[x]), Holds(D, x, k, c)
        PROVE  x = d /\ k = m
    <3>1. Placed(r, D, x, D[x][k])
      BY <1>1, <2>5 DEF Tree, Holds
    <3>2. QED
      BY <1>2, <2>5, <3>1 DEF Placed, Holds
  <2>6. QED
    BY <1>1, <1>2, <1>7, <1>17, <2>1, <2>2, <2>3, <2>4, <2>5, TreeFile
<1>19. Held(w.data, q2, [D EXCEPT ![d] = t])
  <2>1. w.data \in Datas
    BY <1>13, PartFacts DEF Ready
  <2>2. 0 \notin DOMAIN D
    BY <1>1, TreeDirs
  <2>3. QED
    BY <1>1, <1>13, <1>16, <2>1, <2>2, HeldAfter
<1>20. Wrote(t, q2, w.data, n, vals)
  <2>1. CASE Buried(t, n)
    BY <2>1 DEF Wrote
  <2>2. CASE Lookup(t, n) = m
    <3>1. m # 0 /\ ~t[m].dir /\ t[m].cluster = c /\ t[m].size = Len(vals)
      BY <1>3, <1>7
    <3>2. ASSUME c # 0
          PROVE  /\ c \in DOMAIN q2 /\ Len(q2[c]) = Len(vals)
                 /\ \A i \in 1..Len(vals) : w.data[q2[c][i]] = vals[i]
      <4>1. c \in DOMAIN q2 /\ q2[c] = q[c] /\ Len(q[c]) = Len(vals)
        BY <1>2, <1>12, <3>2
      <4>2. ASSUME NEW i \in 1..Len(vals) PROVE w.data[q[c][i]] = vals[i]
        <5>1. Heap(v.fat, q)
          BY <1>2 DEF Ready
        <5>2. q[c][i] \in Clusters
          BY <1>2, <3>2, <4>1, <5>1, HeapFacts
        <5>3. w.data[q[c][i]] = v.data[q[c][i]]
          BY <1>2, <1>14, <4>1, <5>2 DEF Kept
        <5>4. QED
          BY <1>2, <3>2, <5>3
      <4>3. QED
        BY <4>1, <4>2
    <3>3. QED
      BY <2>2, <3>1, <3>2 DEF Wrote
  <2>3. QED
    BY <1>9, <2>1, <2>2
<1>21. Near(D[d], t, Short[n], Files(Short[n]))
  BY <1>5 DEF s, sh
<1>22. Written(w, G, F, b, r, base, D, d, h, n, vals, q2, t)
  BY <1>13, <1>16, <1>18, <1>19, <1>20, <1>21 DEF Written
<1>23. QED
  BY <1>22

\* A cluster is taken, as a run of its own.
Fresh(r, c) == [x \in DOMAIN r \cup {c} |-> IF x = c THEN <<c>> ELSE r[x]]

\* Taking a cluster for a new file keeps everything else as it was.
LEMMA FreshReady ==
  ASSUME NEW p, NEW r, NEW G, NEW F, NEW b, Ready(p, r, G, F, b), Alloc(p).ok
  PROVE  LET a == Alloc(p)
             c == a.got
             q == Fresh(r, c)
         IN /\ Ready(a, q, G, F, b) /\ c \in Clusters /\ c \in F /\ p.fat[c] = Free
            /\ c \notin DOMAIN r /\ RunIn(q[c], F)
            /\ a.fat = [p.fat EXCEPT ![c] = Eoc] /\ a.data = [p.data EXCEPT ![c] = Blank]
            /\ \A d : Kept(r, p.data, q, a.data, d, d)
            /\ DOMAIN q = DOMAIN r \cup {c} /\ q[c] = <<c>> /\ \A x \in DOMAIN r : q[x] = r[x]
<1> DEFINE a == Alloc(p)
           c == a.got
           q == Fresh(r, c)
<1>1. /\ p \in Parts /\ p.ok /\ Heap(p.fat, r) /\ Open(G, F)
      /\ \A x \in Clusters : p.fat[x] = Free => x \in F
      /\ p.fat \in Fats /\ p.data \in Datas
  BY PartFacts DEF Ready
<1>2. /\ a \in Parts /\ Trail(G, b, a.log, a.data) /\ a.ok
      /\ c \in Clusters /\ p.fat[c] = Free /\ a.fat = [p.fat EXCEPT ![c] = Eoc]
      /\ a.data = [p.data EXCEPT ![c] = Blank]
  BY AllocReady
<1> HIDE DEF a, c
<1>3. Heap(a.fat, q)
  BY <1>1, <1>2, HeapAlloc DEF Fresh
<1>4. c \notin DOMAIN r
  BY <1>1, <1>2, FreshName
<1>5. DOMAIN q = DOMAIN r \cup {c} /\ q[c] = <<c>> /\ \A x \in DOMAIN r : q[x] = r[x]
  BY <1>4 DEF Fresh
<1>6. c \in F
  BY <1>1, <1>2
<1>7. ASSUME NEW x \in Clusters, a.fat[x] = Free PROVE x \in F
  <2>1. x \in Cells
    BY CellFacts
  <2>2. p.fat[x] = Free
    BY <1>1, <1>2, <1>7, <2>1, CellFacts DEF Fats
  <2>3. QED
    BY <1>1, <2>2
<1>8. Ready(a, q, G, F, b)
  BY <1>1, <1>2, <1>3, <1>7 DEF Ready
<1> HIDE DEF q
<1>9. RunIn(q[c], F)
  <2>1. Len(q[c]) = 1 /\ q[c][1] = c
    BY <1>5
  <2>2. QED
    BY <1>6, <2>1 DEF RunIn
<1>10. ASSUME NEW d PROVE Kept(r, p.data, q, a.data, d, d)
  <2>1. ASSUME NEW g \in DOMAIN r, NEW i \in 1..Len(r[g]), r[g][i] \in Clusters
        PROVE  a.data[r[g][i]] = p.data[r[g][i]]
    <3>1. r[g][i] # c
      BY <1>1, <1>2, <2>1, HeapFree
    <3>2. QED
      BY <1>1, <1>2, <2>1, <3>1 DEF Datas
  <2>2. QED
    BY <1>5, <2>1 DEF Kept
<1>11. QED
  BY <1>2, <1>4, <1>5, <1>6, <1>8, <1>9, <1>10 DEF a, c, q

\* A directory that is kept has the same slots.
LEMMA KeptFlat ==
  ASSUME NEW fat, NEW r, Heap(fat, r), NEW d \in DOMAIN r, d # 0,
         NEW x \in Datas, NEW y \in Datas, NEW q, NEW g, NEW h,
         Kept(r, x, q, y, g, h), d # g, d # h
  PROVE  d \in DOMAIN q /\ q[d] = r[d] /\ Flat(y, q[d]) = Flat(x, r[d])
<1> DEFINE u == r[d]
<1>1. u \in Seq(Clusters)
  BY HeapChain
<1>2. \A i \in 1..Len(u) : u[i] \in Clusters
  BY <1>1, LenProperties
<1>3. d \in DOMAIN q /\ q[d] = u /\ \A i \in 1..Len(u) : x[u[i]] = y[u[i]]
  BY <1>2 DEF Kept
<1> HIDE DEF u
<1>4. Flat(x, u) = Flat(y, u)
  BY <1>1, <1>3, FlatOn
<1>5. QED
  BY <1>3, <1>4 DEF u

\* write_file of a name that is not there: clusters first, then the entry.
LEMMA CreateIs ==
  ASSUME NEW p, NEW r, NEW G, NEW F, NEW b, NEW D, NEW d, NEW n, NEW h,
         Working(p, r, G, F, b, D, d, n, h), Lookup(D[d], n) = 0, NEW vals \in Seq(Blocks)
  PROVE  /\ Outcome(Create(p, d, n, vals), G, b)
         /\ Create(p, d, n, vals).ok =>
              \E q, t : Written(Create(p, d, n, vals), G, F, b, r, p.data, D, d, h, n, vals, q, t)
<1> DEFINE a == Alloc(p)
           c == a.got
           v == WriteChain(a, c, vals)
           z == Create(p, d, n, vals)
           Good(w) == Outcome(w, G, b) /\ (w.ok => \E q, t :
                  Written(w, G, F, b, r, p.data, D, d, h, n, vals, q, t))
<1>1. /\ Ready(p, r, G, F, b) /\ Heap(p.fat, r) /\ d \in DOMAIN r /\ d # 0 /\ p.data \in Datas
      /\ d \in Clusters
  BY WorkingIs DEF Working
<1>2. z = IF vals = <<>> THEN AddEntry(p, d, n, 0, 0, FALSE)
          ELSE IF ~a.ok THEN a
          ELSE IF v.ok THEN AddEntry(v, d, n, c, Len(vals), FALSE) ELSE v
  BY DEF Create
<1>3. CASE vals = <<>>
  <2> DEFINE o == 0
  <2>1. /\ o \in DOMAIN r /\ o # d /\ o # Root /\ o \in Cells /\ o \in Nat /\ o = Len(vals)
    BY <1>1, <1>3, HeapFacts, CellFacts
  <2>2. Kept(r, p.data, r, p.data, d, d)
    BY DEF Kept
  <2>3. DOMAIN r = DOMAIN r \cup {o}
    BY <2>1
  <2>4. Filed(p, r, G, F, b, r, p.data, d, o, vals)
    BY <1>1, <2>1, <2>2, <2>3 DEF Filed
  <2> HIDE DEF o
  <2>5. Good(AddEntry(p, d, n, o, o, FALSE))
    BY <2>1, <2>4, FiledIs
  <2>6. z = AddEntry(p, d, n, o, o, FALSE)
    BY <1>2, <1>3 DEF o
  <2> HIDE DEF z, Good
  <2>7. Good(z)
    BY <2>5, <2>6
  <2>8. QED
    BY <2>7 DEF Good, z
<1>4. CASE vals # <<>> /\ ~a.ok
  <2>1. Outcome(a, G, b)
    BY <1>1, AllocReady DEF Outcome
  <2>2. z = a
    BY <1>2, <1>4
  <2> HIDE DEF a, z
  <2>3. Outcome(z, G, b) /\ ~z.ok
    BY <1>4, <2>1, <2>2
  <2>4. QED
    BY <2>3 DEF z
<1>5. CASE vals # <<>> /\ a.ok
  <2> DEFINE q == Fresh(r, c)
  <2>1. /\ Ready(a, q, G, F, b) /\ c \in Clusters /\ c \notin DOMAIN r /\ RunIn(q[c], F)
        /\ Kept(r, p.data, q, a.data, d, d)
        /\ DOMAIN q = DOMAIN r \cup {c} /\ \A x \in DOMAIN r : q[x] = r[x]
    BY <1>1, <1>5, FreshReady
  <2>2. z = IF v.ok THEN AddEntry(v, d, n, c, Len(vals), FALSE) ELSE v
    BY <1>2, <1>5
  <2>3. Len(vals) \in Nat /\ Len(vals) > 0
    BY <1>5, EmptySeq, LenProperties
  <2> HIDE DEF a, c, q
  <2>4. c \in DOMAIN q /\ Heap(a.fat, q) /\ a.data \in Datas
    BY <2>1, PartFacts DEF Ready
  <2>5. /\ v \in Parts /\ Trail(G, b, v.log, v.data)
        /\ v.ok => \E s \in Seq(Cells) : Filled(v, a, q, F, c, vals, s)
    BY <2>1, <2>3, <2>4, WriteChainIs
  <2> HIDE DEF v
  <2>6. CASE ~v.ok
    <3>1. z = v
      BY <2>2, <2>6
    <3> HIDE DEF z
    <3>2. Outcome(z, G, b) /\ ~z.ok
      BY <2>5, <2>6, <3>1 DEF Outcome
    <3>3. QED
      BY <3>2 DEF z
  <2>7. CASE v.ok
    <3>1. PICK s \in Seq(Cells) : Filled(v, a, q, F, c, vals, s)
      BY <2>5, <2>7
    <3> DEFINE q1 == [q EXCEPT ![c] = s]
    <3>2. DOMAIN q1 = DOMAIN q /\ q1[c] = s /\ \A g \in DOMAIN q : g # c => q1[g] = q[g]
      BY <2>4 DEF Heap
    <3>3. /\ Heap(v.fat, q1) /\ Len(s) = Len(vals)
          /\ \A i \in 1..Len(s) : s[i] \in Clusters => v.data[s[i]] = vals[i]
          /\ \A x \in Clusters : v.fat[x] = Free => x \in F
      BY <3>1 DEF Filled
    <3>4. \A x : Kept(q, a.data, q1, v.data, x, c)
      BY <2>4, <3>1, KeptFilled
    <3> HIDE DEF q1
    <3>5. Ready(v, q1, G, F, b)
      BY <1>1, <2>5, <2>7, <3>3 DEF Ready
    <3>6. Kept(r, p.data, q1, v.data, d, d)
      <4>1. Kept(q, a.data, q1, v.data, d, c)
        BY <3>4
      <4>2. QED
        BY <2>1, <4>1, KeptTrans
    <3>7. v.data \in Datas
      BY <2>5, PartFacts
    <3>8. d # c
      BY <1>1, <2>1
    <3>9. d \in DOMAIN q1 /\ q1[d] = r[d] /\ Flat(v.data, q1[d]) = Flat(p.data, r[d])
      <4>1. Kept(q, a.data, q1, v.data, c, c)
        BY <3>4
      <4>2. d \in DOMAIN q /\ q[d] = r[d]
        BY <1>1, <2>1
      <4>3. d \in DOMAIN q1 /\ q1[d] = q[d] /\ Flat(v.data, q1[d]) = Flat(a.data, q[d])
        BY <1>1, <2>4, <3>7, <3>8, <4>1, <4>2, KeptFlat
      <4>4. Flat(a.data, q[d]) = Flat(p.data, r[d])
        <5> DEFINE e == 0
        <5>1. Kept(r, p.data, q, a.data, e, e)
          BY <1>1, <1>5, FreshReady DEF a, c, q
        <5>2. d # e
          BY <1>1
        <5> HIDE DEF e
        <5>3. QED
          BY <1>1, <2>4, <5>1, <5>2, KeptFlat
      <4>5. QED
        BY <4>2, <4>3, <4>4
    <3>10. c # 0 /\ c # Root /\ c \in Cells
      <4>1. Root \in DOMAIN r
        BY <1>1, HeapFacts
      <4>2. QED
        BY <2>1, <4>1, CellFacts
    <3>11. ASSUME NEW i \in 1..Len(vals) PROVE v.data[q1[c][i]] = vals[i]
      <4>1. c \in DOMAIN q1 /\ i \in 1..Len(q1[c])
        BY <2>4, <3>2, <3>3
      <4>2. q1[c][i] \in Clusters
        BY <3>3, <3>10, <4>1, HeapFacts
      <4>3. QED
        BY <3>2, <3>3, <4>1, <4>2
    <3>12. Filed(v, q1, G, F, b, r, p.data, d, c, vals)
      BY <2>1, <2>4, <3>2, <3>3, <3>5, <3>6, <3>8, <3>9, <3>10, <3>11 DEF Filed
    <3> DEFINE size == Len(vals)
    <3>13. size \in Nat /\ size = Len(vals) /\ z = AddEntry(v, d, n, c, size, FALSE)
      BY <2>2, <2>3, <2>7
    <3> HIDE DEF size, z
    <3>14. Good(AddEntry(v, d, n, c, size, FALSE))
      BY <3>12, <3>13, FiledIs
    <3> HIDE DEF Good
    <3>15. Good(z)
      BY <3>13, <3>14
    <3>16. QED
      BY <3>15 DEF Good, z
  <2>8. QED
    BY <2>6, <2>7
<1>6. QED
  BY <1>3, <1>4, <1>5

\* The run that write_file gives new content when it writes file n to
\* directory d with the slots s; d itself if there is none.
Target(s, n, d) ==
  LET k == Lookup(s, n)
  IN IF k = 0 THEN d ELSE IF s[k].dir THEN d ELSE s[k].cluster

\* write_file in the directory it found, in every case: it fails, and passed through
\* contents in G only, or the file is written.
LEMMA WriteUnderIs ==
  ASSUME NEW p, NEW r, NEW G, NEW F, NEW b, NEW D, NEW d, d = p.got, NEW n, NEW h,
         Working(p, r, G, F, b, D, d, n, h), h = Target(D[d], n, d), NEW vals \in Seq(Blocks)
  PROVE  /\ Outcome(WriteUnder(p, n, vals), G, b)
         /\ WriteUnder(p, n, vals).ok =>
              \E q, t : Written(WriteUnder(p, n, vals), G, F, b, r, p.data, D, d, h, n, vals, q, t)
<1> DEFINE s == D[d]
           k == Lookup(s, n)
           z == WriteUnder(p, n, vals)
           Good(w) == Outcome(w, G, b) /\ (w.ok => \E q, t :
                  Written(w, G, F, b, r, p.data, D, d, h, n, vals, q, t))
           fail == [p EXCEPT !.ok = FALSE]
<1>1. p \in Parts /\ p.ok /\ s = DirSlots(p.fat, p.data, d) /\ Ready(p, r, G, F, b)
  BY WorkingIs DEF Working
<1>2. z = IF k = 0 THEN Create(p, d, n, vals)
          ELSE IF s[k].dir THEN fail
          ELSE IF vals = <<>> THEN Truncate(p, d, k, s[k])
          ELSE Replace(p, d, k, s[k], vals)
  BY <1>1 DEF WriteUnder, WriteNamed, WriteEntry
<1>3. fail \in Parts /\ fail.ok = FALSE /\ fail.log = p.log /\ fail.data = p.data
  BY <1>1 DEF Parts
<1>4. Outcome(fail, G, b)
  BY <1>1, <1>3 DEF Outcome, Ready
<1> HIDE DEF fail
<1>5. CASE k = 0
  <2>1. Good(Create(p, d, n, vals))
    BY <1>5, CreateIs
  <2>2. z = Create(p, d, n, vals)
    BY <1>2, <1>5
  <2> HIDE DEF z, Good
  <2>3. Good(z)
    BY <2>1, <2>2
  <2>4. QED
    BY <2>3 DEF Good, z
<1>6. CASE k # 0 /\ s[k].dir
  <2>1. z = fail
    BY <1>2, <1>6
  <2> HIDE DEF z
  <2>2. Outcome(z, G, b) /\ ~z.ok
    BY <1>3, <1>4, <2>1
  <2>3. QED
    BY <2>2 DEF z
<1>7. CASE k # 0 /\ ~s[k].dir
  <2>1. h = s[k].cluster
    BY <1>7 DEF Target
  <2>2. CASE vals = <<>>
    <3> DEFINE j == k
    <3>1. j = Lookup(D[d], n) /\ j # 0 /\ ~D[d][j].dir /\ h = D[d][j].cluster
      BY <1>7, <2>1
    <3> HIDE DEF j, z, k, s
    <3>2. \E q, t : Written(Truncate(p, d, j, D[d][j]), G, F, b, r, p.data, D, d, h, n, <<>>, q, t)
      BY <3>1, TruncateIs
    <3>3. z = Truncate(p, d, j, D[d][j])
      BY <1>2, <1>7, <2>2, <3>1 DEF j, k, s
    <3>4. \E q, t : Written(z, G, F, b, r, p.data, D, d, h, n, vals, q, t)
      BY <2>2, <3>2, <3>3
    <3>5. Outcome(z, G, b)
      BY <3>4 DEF Written, Ready, Outcome
    <3>6. QED
      BY <3>4, <3>5 DEF z
  <2>3. CASE vals # <<>>
    <3> DEFINE j == k
    <3>1. j = Lookup(D[d], n) /\ j # 0 /\ ~D[d][j].dir /\ h = D[d][j].cluster
      BY <1>7, <2>1
    <3>2. Len(vals) > 0
      BY <2>3, EmptySeq, LenProperties
    <3>3. z = Replace(p, d, j, D[d][j], vals)
      BY <1>2, <1>7, <2>3
    <3> HIDE DEF j, z, k, s
    <3>4. Good(Replace(p, d, j, D[d][j], vals))
      BY <3>1, <3>2, ReplaceIs
    <3> HIDE DEF Good
    <3>5. Good(z)
      BY <3>3, <3>4
    <3>6. QED
      BY <3>5 DEF Good, z
  <2>4. QED
    BY <2>2, <2>3
<1>8. QED
  BY <1>5, <1>6, <1>7

-----------------------------------------------------------------------------
(* What a path reads. *)

\* The directory n, in one with the slots s.
Under(s, n) ==
  LET k == Lookup(s, n) IN IF k = 0 THEN 0 ELSE IF s[k].dir THEN s[k].cluster ELSE 0

\* find_dir finds the root for a path without directories.
LEMMA FindRoot ==
  ASSUME NEW fat, NEW data
  PROVE  FindDir(fat, data, <<>>) = Root
<1> DEFINE Child(s, k) == IF k = 0 THEN 0 ELSE IF s[k].dir THEN s[k].cluster ELSE 0
           Named(s, n) == Child(s, Lookup(s, n))
           Is(w) == w = [k \in 0..Len(<<>>) |->
                          IF k = 0 THEN Root
                          ELSE Named(DirSlots(fat, data, w[k - 1]), (<<>>)[k])]
           at == CHOOSE w : Is(w)
           f == [k \in 0..0 |-> Root]
<1>1. Len(<<>>) = 0
  OBVIOUS
<1>2. Is(f)
  BY <1>1
<1>3. Is(at)
  <2> HIDE DEF Is, f
  <2>1. QED
    BY <1>2
<1>4. FindDir(fat, data, <<>>) = at[0]
  BY <1>1 DEF FindDir
<1> HIDE DEF at
<1>5. at[0] = Root
  BY <1>1, <1>3
<1>6. QED
  BY <1>4, <1>5

\* find_dir finds a directory of the root by its entry.
LEMMA FindUnder ==
  ASSUME NEW fat, NEW data, NEW n
  PROVE  FindDir(fat, data, <<n>>) = Under(DirSlots(fat, data, Root), n)
<1> DEFINE dirs == <<n>>
           Child(s, k) == IF k = 0 THEN 0 ELSE IF s[k].dir THEN s[k].cluster ELSE 0
           Named(s, m) == Child(s, Lookup(s, m))
           Is(w) == w = [k \in 0..Len(dirs) |->
                          IF k = 0 THEN Root
                          ELSE Named(DirSlots(fat, data, w[k - 1]), dirs[k])]
           at == CHOOSE w : Is(w)
           c == Named(DirSlots(fat, data, Root), n)
           f == [k \in 0..1 |-> IF k = 0 THEN Root ELSE c]
<1>1. Len(dirs) = 1 /\ dirs[1] = n
  OBVIOUS
<1>2. FindDir(fat, data, dirs) = at[Len(dirs)]
  BY DEF FindDir
<1>3. c = Under(DirSlots(fat, data, Root), n)
  BY DEF Under
<1> HIDE DEF dirs
<1>4. f[0] = Root /\ f[1] = c
  OBVIOUS
<1>5. ASSUME NEW k \in 0..1
      PROVE  f[k] = IF k = 0 THEN Root ELSE Named(DirSlots(fat, data, f[k - 1]), dirs[k])
  <2> HIDE DEF Named, f
  <2>1. CASE k = 0
    BY <1>4, <2>1
  <2>2. CASE k = 1
    <3>1. k - 1 = 0 /\ k # 0
      BY <2>2
    <3>2. QED
      BY <1>1, <1>4, <2>2, <3>1
  <2>3. QED
    BY <2>1, <2>2
<1>6. f = [k \in 0..1 |-> f[k]]
  OBVIOUS
<1> HIDE DEF f, Named, c
<1>7. Is(f)
  BY <1>1, <1>5, <1>6
<1>8. Is(at)
  <2> HIDE DEF Is
  <2>1. QED
    BY <1>7
<1> HIDE DEF at
<1>9. at[0] = Root /\ at[1] = Named(DirSlots(fat, data, at[1 - 1]), dirs[1])
  BY <1>1, <1>8
<1>10. 1 - 1 = 0
  OBVIOUS
<1>11. at[1] = c
  BY <1>1, <1>9, <1>10 DEF c
<1>12. QED
  BY <1>1, <1>2, <1>3, <1>11 DEF dirs

\* File n, in a directory with the slots s, as read_file reads it.
Read(fat, data, s, n) ==
  LET k == Lookup(s, n)
      ch == Chain(fat, s[k].cluster)
      m == IF s[k].size < Len(ch) THEN s[k].size ELSE Len(ch)
  IN IF k = 0 THEN Absent
     ELSE IF s[k].dir THEN Absent ELSE [i \in 1..m |-> data[ch[i]]]

\* It reads v, or it is behind the end of the directory, or owns no cluster.
Reads(fat, data, s, n, v) ==
  \/ Read(fat, data, s, n) = v
  \/ Buried(s, n)
  \/ Lookup(s, n) # 0 /\ s[Lookup(s, n)].cluster = 0 /\ v # <<>>

\* The path q reads v, or it, or the directory it is in, is so.
Okay(fat, data, q, v) ==
  LET d == FindDir(fat, data, q.dirs)
  IN IF d = 0 THEN v = Absent \/ Buried(DirSlots(fat, data, Root), q.dirs[1])
     ELSE Reads(fat, data, DirSlots(fat, data, d), q.name, v)

\* HiddenIn, said with Buried.
LEMMA BuriedIs ==
  ASSUME NEW fat, NEW data \in Datas, NEW d, NEW n
  PROVE  HiddenIn(fat, data, d, n) <=> Buried(DirSlots(fat, data, d), n)
<1> DEFINE s == DirSlots(fat, data, d)
<1>1. s \in Seq(Slots)
  BY DirType
<1>2. HiddenIn(fat, data, d, n) <=> \E k \in EndOf(s)..Len(s) : Hit(s[k], n)
  BY DEF HiddenIn, Hit
<1> HIDE DEF s
<1>3. EndOf(s) \in 1..(Len(s) + 1) /\ Len(s) \in Nat
  BY <1>1, EndOfIs, LenProperties
<1>4. \A k : k \in EndOf(s)..Len(s) <=> k \in 1..Len(s) /\ k >= EndOf(s)
  BY <1>3
<1>5. QED
  BY <1>2, <1>4 DEF Buried, s

\* A path is okay exactly if KillSparesBystanders asks no more of it.
LEMMA OkayIs ==
  ASSUME NEW i, image.data \in Datas, NEW q
  PROVE  Okay(image.fats[i], image.data, q, expected[q])
           <=> OnDisk(i, q) = expected[q] \/ Hidden(i, q) \/ Struck(i, q)
<1> DEFINE fat == image.fats[i]
           data == image.data
           v == expected[q]
           d == FindDir(fat, data, q.dirs)
           s == DirSlots(fat, data, d)
           k == Lookup(s, q.name)
<1>1. OnDisk(i, q) = IF d = 0 THEN Absent ELSE Read(fat, data, s, q.name)
  BY DEF OnDisk, ReadFile, Read
<1>2. Hidden(i, q) <=> IF d = 0 THEN HiddenIn(fat, data, Root, q.dirs[1])
                       ELSE HiddenIn(fat, data, d, q.name)
  BY DEF Hidden
<1>3. Struck(i, q) <=> d # 0 /\ k # 0 /\ s[k].cluster = 0 /\ v # <<>>
  BY DEF Struck
<1>4. Okay(fat, data, q, v) <=>
        IF d = 0 THEN v = Absent \/ Buried(DirSlots(fat, data, Root), q.dirs[1])
        ELSE Reads(fat, data, s, q.name, v)
  BY DEF Okay
<1>5. Reads(fat, data, s, q.name, v) <=>
        Read(fat, data, s, q.name) = v \/ Buried(s, q.name) \/ (k # 0 /\ s[k].cluster = 0 /\ v # <<>>)
  BY DEF Reads
<1>6. /\ HiddenIn(fat, data, Root, q.dirs[1]) <=> Buried(DirSlots(fat, data, Root), q.dirs[1])
      /\ HiddenIn(fat, data, d, q.name) <=> Buried(s, q.name)
  BY BuriedIs
<1> HIDE DEF fat, data, v, d, s, k
<1>7. Okay(fat, data, q, v) <=> OnDisk(i, q) = v \/ Hidden(i, q) \/ Struck(i, q)
  <2>1. CASE d = 0
    BY <1>1, <1>2, <1>3, <1>4, <1>6, <2>1
  <2>2. CASE d # 0
    BY <1>1, <1>2, <1>3, <1>4, <1>5, <1>6, <2>2
  <2>3. QED
    BY <2>1, <2>2
<1>8. QED
  BY <1>7 DEF fat, data, v

-----------------------------------------------------------------------------
(* What the other paths read after a call in a directory that is there. *)

\* A scan for n finds the same in s and t.
SameFound(s, t, n) ==
  /\ Lookup(t, n) = Lookup(s, n)
  /\ Lookup(s, n) # 0 => t[Lookup(s, n)] = s[Lookup(s, n)]
  /\ Buried(s, n) => Buried(t, n)

\* A scan for another name than the call's finds what it found before the call.
LEMMA OtherFound ==
  ASSUME NEW s \in Seq(Slots), NEW t \in Seq(Slots), NEW sh, NEW E, Near(s, t, sh, E),
         NEW n, Short[n] # sh, \A e \in E : ~Hit(e, n)
  PROVE  SameFound(s, t, n)
<1>1. CASE Lookup(t, n) = 0
  <2>1. Lookup(s, n) = 0
    BY <1>1, NearKeeps
  <2>2. QED
    BY <1>1, <2>1, NearBuries DEF SameFound
<1>2. CASE Lookup(t, n) # 0
  <2> DEFINE k == Lookup(t, n)
  <2>1. Hit(t[k], n)
    BY <1>2, LookupIs
  <2>2. ~File(t[k], sh) /\ t[k] \notin E
    BY <2>1 DEF Hit, File
  <2>3. Lookup(s, n) = k /\ t[k] = s[k]
    BY <1>2, <2>2, NearFinds
  <2>4. QED
    BY <2>3, NearBuries DEF SameFound
<1>3. QED
  BY <1>1, <1>2

\* A call that writes a file changes no directory of the root.
LEMMA UnderKept ==
  ASSUME NEW s \in Seq(Slots), NEW t \in Seq(Slots), NEW sh, Near(s, t, sh, Files(sh)), NEW n
  PROVE  Under(t, n) = Under(s, n)
<1> DEFINE k == Lookup(t, n)
<1>1. CASE k = 0
  <2>1. Lookup(s, n) = 0
    BY <1>1, NearKeeps
  <2>2. QED
    BY <1>1, <2>1 DEF Under
<1>2. CASE k # 0
  <2>1. \/ t[k] \in Files(sh)
        \/ /\ Lookup(s, n) = k
           /\ t[k] = s[k] \/ (File(s[k], sh) /\ File(t[k], sh))
    BY <1>2, NearFinds
  <2>2. CASE t[k] \in Files(sh)
    <3>1. t[k].dir = FALSE
      BY <2>2 DEF Files, File
    <3>2. Under(t, n) = 0
      BY <1>2, <3>1 DEF Under
    <3>3. Under(s, n) = 0
      <4> DEFINE j == Lookup(s, n)
      <4>1. CASE j = 0
        BY <4>1 DEF Under
      <4>2. CASE j # 0
        <5>1. Len(s) \in Nat /\ Len(t) \in Nat /\ Len(s) <= Len(t)
          BY LenProperties DEF Near
        <5>2. j \in 0..Len(s) /\ j < EndOf(s) /\ Hit(s[j], n)
          BY <4>2, LookupIs
        <5>3. k \in 0..Len(t) /\ Hit(t[k], n) /\ \A i \in 1..Len(t) : i < k => ~Hit(t[i], n)
          BY <1>2, LookupIs
        <5>4. \A i \in 1..Len(s) : i < EndOf(s) \/ ~Ended(s) =>
                t[i] = s[i] \/ (File(s[i], sh) /\ File(t[i], sh))
          BY NearEnds
        <5> HIDE DEF j, k
        <5>5. j \in 1..Len(s) /\ j \in 1..Len(t) /\ k \in 1..Len(t)
          BY <1>2, <4>2, <5>1, <5>2, <5>3
        <5>6. Hit(t[j], n)
          BY <5>2, <5>4, <5>5 DEF Hit, File
        <5>7. k <= j
          BY <5>1, <5>3, <5>5, <5>6
        <5>8. EndOf(s) \in Int
          BY EndOfIs
        <5>9. k \in 1..Len(s) /\ k < EndOf(s)
          BY <5>1, <5>2, <5>5, <5>7, <5>8
        <5>10. t[k] = s[k] \/ (File(s[k], sh) /\ File(t[k], sh))
          BY <5>4, <5>9
        <5>11. s[k].dir = FALSE /\ Hit(s[k], n)
          BY <3>1, <5>3, <5>10 DEF File, Hit
        <5>12. \A i \in 1..Len(s) : i < j => ~Hit(s[i], n)
          BY <4>2, LookupIs DEF j
        <5>13. k = j
          BY <5>1, <5>5, <5>7, <5>9, <5>11, <5>12
        <5>14. QED
          BY <5>11, <5>13 DEF Under, j
      <4>3. QED
        BY <4>1, <4>2
    <3>4. QED
      BY <3>2, <3>3
  <2>3. CASE Lookup(s, n) = k /\ t[k] = s[k]
    BY <2>3 DEF Under
  <2>4. CASE Lookup(s, n) = k /\ File(s[k], sh) /\ File(t[k], sh)
    BY <2>4 DEF Under, File
  <2>5. QED
    BY <2>1, <2>2, <2>3, <2>4
<1>3. QED
  BY <1>1, <1>2

\* The chain at c and what it holds are the same.
SameRun(fat, x, fat2, y, c) ==
  /\ Chain(fat2, c) = Chain(fat, c)
  /\ \A i \in 1..Len(Chain(fat, c)) : y[Chain(fat, c)[i]] = x[Chain(fat, c)[i]]

\* A run that a call keeps reads the same afterwards.
LEMMA KeptRun ==
  ASSUME NEW fat, NEW r, Heap(fat, r), NEW fat2, NEW q, Heap(fat2, q), NEW x, NEW y, NEW d, NEW h,
         Kept(r, x, q, y, d, h), NEW c \in DOMAIN r, c # 0 => c # d /\ c # h
  PROVE  SameRun(fat, x, fat2, y, c)
<1>1. CASE c = 0
  <2>1. Chain(fat2, c) = <<>> /\ Chain(fat, c) = <<>>
    BY <1>1, CellFacts, NoChain
  <2>2. QED
    BY <2>1 DEF SameRun
<1>2. CASE c # 0
  <2> DEFINE u == r[c]
  <2>1. c \in DOMAIN q /\ q[c] = u
    BY <1>2 DEF Kept
  <2>2. Chain(fat, c) = u /\ Chain(fat2, c) = u /\ u \in Seq(Clusters)
    BY <1>2, <2>1, HeapChain
  <2>3. \A i \in 1..Len(u) : u[i] \in Clusters
    BY <2>2, LenProperties
  <2>4. \A i \in 1..Len(u) : y[u[i]] = x[u[i]]
    BY <1>2, <2>3 DEF Kept
  <2> HIDE DEF u
  <2>5. QED
    BY <2>2, <2>4 DEF SameRun
<1>3. QED
  BY <1>1, <1>2

\* A name that is found at the same entry, with the same run, reads the same.
LEMMA ReadsKept ==
  ASSUME NEW s \in Seq(Slots), NEW t, NEW n, SameFound(s, t, n), NEW fat, NEW x, NEW fat2, NEW y,
         Lookup(s, n) # 0 /\ ~s[Lookup(s, n)].dir =>
           SameRun(fat, x, fat2, y, s[Lookup(s, n)].cluster),
         NEW v, Reads(fat, x, s, n, v)
  PROVE  Reads(fat2, y, t, n, v)
<1> DEFINE k == Lookup(s, n)
           c == s[k].cluster
<1>1. Lookup(t, n) = k /\ (k # 0 => t[k] = s[k]) /\ (Buried(s, n) => Buried(t, n))
  BY DEF SameFound
<1>2. Read(fat2, y, t, n) = Read(fat, x, s, n)
  <2>1. CASE k = 0
    BY <1>1, <2>1 DEF Read
  <2>2. CASE k # 0 /\ s[k].dir
    BY <1>1, <2>2 DEF Read
  <2>3. CASE k # 0 /\ ~s[k].dir
    <3>1. SameRun(fat, x, fat2, y, c)
      BY <2>3
    <3> DEFINE u == Chain(fat, c)
               m == IF s[k].size < Len(u) THEN s[k].size ELSE Len(u)
    <3>2. Read(fat, x, s, n) = [i \in 1..m |-> x[u[i]]]
      BY <2>3 DEF Read
    <3>3. Read(fat2, y, t, n) = [i \in 1..m |-> y[u[i]]]
      BY <1>1, <2>3, <3>1 DEF Read, SameRun
    <3>4. \A i \in 1..Len(u) : y[u[i]] = x[u[i]]
      BY <3>1 DEF SameRun
    <3>5. ASSUME NEW i \in 1..m PROVE y[u[i]] = x[u[i]]
      <4>1. u \in Seq(Clusters)
        BY ChainType
      <4>2. Len(u) \in Nat
        BY <4>1, LenProperties
      <4>3. k \in 1..Len(s) /\ Hit(s[k], n)
        <5>1. k \in 0..Len(s) /\ Len(s) \in Nat /\ Hit(s[k], n)
          BY <2>3, LookupIs, LenProperties
        <5> HIDE DEF k
        <5>2. QED
          BY <2>3, <5>1
      <4>4. s[k] \in Slots
        BY <4>3, LenProperties
      <4>5. s[k].size \in Nat
        BY <4>3, <4>4, RealIs DEF Hit
      <4> DEFINE z == s[k].size
      <4>6. i \in 1..(IF z < Len(u) THEN z ELSE Len(u)) /\ z \in Nat
        BY <4>5
      <4> HIDE DEF u, z
      <4>7. i \in 1..Len(u)
        BY <4>2, <4>6
      <4>8. QED
        BY <3>4, <4>7
    <3> HIDE DEF m, u
    <3>6. QED
      BY <3>2, <3>3, <3>5
  <2>4. QED
    BY <2>1, <2>2, <2>3
<1>3. QED
  BY <1>1, <1>2 DEF Reads

\* The slots of the directories of a tidy disk.
LEMMA TidyDirs ==
  ASSUME NEW fat, NEW x, NEW r, NEW D, Tidy(fat, x, r, D)
  PROVE  /\ x \in Datas /\ Heap(fat, r) /\ Tree(r, D) /\ Root \in DOMAIN D /\ 0 \notin DOMAIN D
         /\ \A e \in DOMAIN D : /\ e \in DOMAIN r /\ e # 0 /\ e \in Clusters
                                /\ r[e] \in Seq(Clusters) /\ Chain(fat, e) = r[e]
                                /\ DirSlots(fat, x, e) = D[e] /\ D[e] = Flat(x, r[e])
                                /\ D[e] \in Seq(Slots) /\ Len(D[e]) \in Nat
<1>1. x \in Datas /\ Heap(fat, r) /\ Tree(r, D) /\ Held(x, r, D)
  BY DEF Tidy
<1>2. ASSUME NEW e \in DOMAIN D
      PROVE  /\ e \in DOMAIN r /\ e # 0 /\ e \in Clusters
             /\ r[e] \in Seq(Clusters) /\ Chain(fat, e) = r[e]
             /\ DirSlots(fat, x, e) = D[e] /\ D[e] = Flat(x, r[e])
             /\ D[e] \in Seq(Slots) /\ Len(D[e]) \in Nat
  <2>1. e \in DOMAIN r /\ e # 0 /\ e \in Clusters
    BY <1>1, TreeDirs
  <2>2. r[e] \in Seq(Clusters) /\ Chain(fat, e) = r[e]
    BY <1>1, <2>1, HeapChain
  <2>3. D[e] = Flat(x, r[e])
    BY <1>1 DEF Held
  <2>4. DirSlots(fat, x, e) = D[e]
    BY <1>1, <2>1, <2>3, DirIs
  <2>5. D[e] \in Seq(Slots)
    BY <1>1 DEF Tree
  <2>6. QED
    BY <2>1, <2>2, <2>3, <2>4, <2>5, LenProperties
<1>3. 0 \notin DOMAIN D
  BY <1>2
<1>4. Root \in DOMAIN D
  BY <1>1 DEF Tree
<1>5. QED
  BY <1>1, <1>2, <1>3, <1>4

\* The directories that a path may name.
DirNames == {<<>>} \cup {<<n>> : n \in Names}

\* What is found by a name is a directory of the tree.
LEMMA UnderIs ==
  ASSUME NEW fat, NEW x, NEW r, NEW D, Tidy(fat, x, r, D), NEW n \in Names,
         Under(D[Root], n) # 0
  PROVE  LET c == Under(D[Root], n)
             k == Lookup(D[Root], n)
         IN c \in DOMAIN D /\ c # Root /\ k # 0 /\ k \in 1..Len(D[Root]) /\ Holds(D, Root, k, c)
            /\ Hit(D[Root][k], n)
<1> DEFINE k == Lookup(D[Root], n)
           e == D[Root][k]
<1>1. k # 0 /\ e.dir /\ Under(D[Root], n) = e.cluster
  BY DEF Under
<1>2. Root \in DOMAIN D
  BY TidyDirs
<1>3. k \in 1..Len(D[Root]) /\ Hit(e, n) /\ Placed(r, D, Root, e) /\ Holds(D, Root, k, e.cluster)
  BY <1>1, <1>2, TreeEntry
<1>4. e.cluster \in DOMAIN D /\ e.cluster # Root
  BY <1>1, <1>3 DEF Placed
<1>5. QED
  BY <1>1, <1>3, <1>4

\* What find_dir finds is a directory of the tree.
LEMMA FindIs ==
  ASSUME NEW fat, NEW x, NEW r, NEW D, Tidy(fat, x, r, D), NEW dirs \in DirNames
  PROVE  FindDir(fat, x, dirs) \in DOMAIN D \cup {0}
<1>1. Root \in DOMAIN D /\ DirSlots(fat, x, Root) = D[Root]
  BY TidyDirs
<1>2. CASE dirs = <<>>
  BY <1>1, <1>2, FindRoot
<1>3. CASE dirs # <<>>
  <2>1. PICK n \in Names : dirs = <<n>>
    BY <1>3 DEF DirNames
  <2>2. FindDir(fat, x, dirs) = Under(D[Root], n)
    BY <1>1, <2>1, FindUnder
  <2>3. Under(D[Root], n) # 0 => Under(D[Root], n) \in DOMAIN D
    BY UnderIs
  <2>4. QED
    BY <2>2, <2>3
<1>4. QED
  BY <1>2, <1>3

\* The short names of a path's directories.
ShortDirs(dirs) == [i \in DOMAIN dirs |-> Short[dirs[i]]]

\* Two names of one directory are the same for the installer.
LEMMA DirsApart ==
  ASSUME NEW fat, NEW x, NEW r, NEW D, Tidy(fat, x, r, D),
         NEW a \in DirNames, NEW b \in DirNames,
         FindDir(fat, x, a) # 0, FindDir(fat, x, b) = FindDir(fat, x, a)
  PROVE  ShortDirs(a) = ShortDirs(b)
<1>1. Root \in DOMAIN D /\ DirSlots(fat, x, Root) = D[Root] /\ Tree(r, D)
  BY TidyDirs
<1>2. FindDir(fat, x, <<>>) = Root
  BY FindRoot
<1>3. ASSUME NEW n \in Names PROVE FindDir(fat, x, <<n>>) # Root
  <2>1. FindDir(fat, x, <<n>>) = Under(D[Root], n)
    BY <1>1, FindUnder
  <2>2. Root # 0
    BY DEF Root
  <2>3. QED
    BY <2>1, <2>2, UnderIs
<1>4. CASE a = <<>> \/ b = <<>>
  BY <1>2, <1>3, <1>4 DEF DirNames
<1>5. CASE a # <<>> /\ b # <<>>
  <2>1. PICK m \in Names : a = <<m>>
    BY <1>5 DEF DirNames
  <2>2. PICK n \in Names : b = <<n>>
    BY <1>5 DEF DirNames
  <2> DEFINE s == D[Root]
             k == Lookup(s, m)
             j == Lookup(s, n)
             c == Under(s, m)
  <2>3. c # 0 /\ Under(s, n) = c
    BY <1>1, <2>1, <2>2, FindUnder
  <2>4. /\ c \in DOMAIN D /\ k \in 1..Len(s) /\ Holds(D, Root, k, c) /\ Hit(s[k], m)
        /\ j \in 1..Len(s) /\ Holds(D, Root, j, c) /\ Hit(s[j], n)
    BY <2>3, UnderIs
  <2>5. c \in Clusters
    BY <2>4, TidyDirs
  <2> HIDE DEF c, k, j
  <2>6. k = j
    BY <1>1, <2>4, <2>5 DEF Tree
  <2>7. Short[m] = Short[n]
    BY <2>4, <2>6 DEF Hit
  <2>8. ShortDirs(a) = [i \in {1} |-> Short[m]]
    BY <2>1 DEF ShortDirs
  <2>9. ShortDirs(b) = [i \in {1} |-> Short[n]]
    BY <2>2 DEF ShortDirs
  <2>10. QED
    BY <2>7, <2>8, <2>9
<1>6. QED
  BY <1>4, <1>5

\* The table fat2 and the data y are what a call on file n of directory d, with
\* cluster h, leaves of fat and x, or what it passes through.
Moved(fat, x, r, D, d, n, h, fat2, y, q, t) ==
  /\ Tidy(fat, x, r, D) /\ d \in DOMAIN D /\ n \in Names /\ h = Target(D[d], n, d)
  /\ y \in Datas /\ Heap(fat2, q) /\ Kept(r, x, q, y, d, h)
  /\ d \in DOMAIN q /\ t = Flat(y, q[d]) /\ t \in Seq(Slots)
  /\ Near(D[d], t, Short[n], Files(Short[n]))

\* The file's run is not a directory, but d where there is none.
LEMMA TargetIs ==
  ASSUME NEW fat, NEW x, NEW r, NEW D, Tidy(fat, x, r, D), NEW d \in DOMAIN D, NEW n \in Names,
         NEW h, h = Target(D[d], n, d)
  PROVE  /\ h \in DOMAIN r /\ h \in Cells
         /\ h # d => /\ h \notin DOMAIN D /\ Lookup(D[d], n) # 0
                     /\ Lookup(D[d], n) \in 1..Len(D[d]) /\ Holds(D, d, Lookup(D[d], n), h)
                     /\ Hit(D[d][Lookup(D[d], n)], n)
<1> DEFINE k == Lookup(D[d], n)
<1>1. d \in DOMAIN r /\ d \in Clusters /\ Clusters \subseteq Cells
  BY TidyDirs, CellFacts
<1>2. CASE k = 0 \/ D[d][k].dir
  BY <1>1, <1>2 DEF Target
<1>3. CASE k # 0 /\ ~D[d][k].dir
  <2>1. h = D[d][k].cluster
    BY <1>3 DEF Target
  <2>2. /\ k \in 1..Len(D[d]) /\ Holds(D, d, k, D[d][k].cluster) /\ Hit(D[d][k], n)
        /\ D[d][k].cluster \in Cells /\ D[d][k].cluster \in DOMAIN r
        /\ D[d][k].cluster \notin DOMAIN D
    BY <1>3, TreeEntry
  <2>3. QED
    BY <1>3, <2>1, <2>2
<1>4. QED
  BY <1>2, <1>3

\* The directories afterwards.
LEMMA MovedDirs ==
  ASSUME NEW fat, NEW x, NEW r, NEW D, NEW d, NEW n, NEW h, NEW fat2, NEW y, NEW q, NEW t,
         Moved(fat, x, r, D, d, n, h, fat2, y, q, t)
  PROVE  /\ DirSlots(fat2, y, d) = t
         /\ \A e \in DOMAIN D : e # d => DirSlots(fat2, y, e) = D[e]
<1>1. /\ Tidy(fat, x, r, D) /\ d \in DOMAIN D /\ n \in Names /\ h = Target(D[d], n, d)
      /\ y \in Datas /\ Heap(fat2, q) /\ Kept(r, x, q, y, d, h)
      /\ d \in DOMAIN q /\ t = Flat(y, q[d])
  BY DEF Moved
<1>2. x \in Datas /\ Heap(fat, r) /\ d # 0
  BY <1>1, TidyDirs
<1>3. DirSlots(fat2, y, d) = t
  BY <1>1, <1>2, DirIs
<1>4. ASSUME NEW e \in DOMAIN D, e # d PROVE DirSlots(fat2, y, e) = D[e]
  <2>1. e \in DOMAIN r /\ e # 0 /\ D[e] = Flat(x, r[e])
    BY <1>1, TidyDirs
  <2>2. e # h
    BY <1>1, <1>4, TargetIs
  <2>3. e \in DOMAIN q /\ q[e] = r[e] /\ Flat(y, q[e]) = Flat(x, r[e])
    BY <1>1, <1>2, <1>4, <2>1, <2>2, KeptFlat
  <2>4. QED
    BY <1>1, <2>1, <2>3, DirIs
<1>5. QED
  BY <1>3, <1>4

\* After a call, a path's directory is the one it was.
LEMMA MovedFind ==
  ASSUME NEW fat, NEW x, NEW r, NEW D, NEW d, NEW n, NEW h, NEW fat2, NEW y, NEW q, NEW t,
         Moved(fat, x, r, D, d, n, h, fat2, y, q, t)
  PROVE  /\ \A dirs \in DirNames : FindDir(fat2, y, dirs) = FindDir(fat, x, dirs)
         /\ \A m : Buried(DirSlots(fat, x, Root), m) => Buried(DirSlots(fat2, y, Root), m)
<1>1. /\ Tidy(fat, x, r, D) /\ d \in DOMAIN D /\ n \in Names
      /\ t \in Seq(Slots) /\ Near(D[d], t, Short[n], Files(Short[n]))
  BY DEF Moved
<1>2. /\ Root \in DOMAIN D /\ DirSlots(fat, x, Root) = D[Root] /\ D[Root] \in Seq(Slots)
      /\ D[d] \in Seq(Slots)
  BY <1>1, TidyDirs
<1>3. DirSlots(fat2, y, Root) = IF Root = d THEN t ELSE D[Root]
  BY <1>2, MovedDirs
<1>4. \A m : Under(DirSlots(fat2, y, Root), m) = Under(D[Root], m)
  <2>1. CASE Root = d
    BY <1>1, <1>2, <1>3, <2>1, UnderKept
  <2>2. CASE Root # d
    BY <1>3, <2>2
  <2>3. QED
    BY <2>1, <2>2
<1>5. \A m : Buried(D[Root], m) => Buried(DirSlots(fat2, y, Root), m)
  <2>1. CASE Root = d
    BY <1>1, <1>2, <1>3, <2>1, NearBuries
  <2>2. CASE Root # d
    BY <1>3, <2>2
  <2>3. QED
    BY <2>1, <2>2
<1>6. ASSUME NEW dirs \in DirNames PROVE FindDir(fat2, y, dirs) = FindDir(fat, x, dirs)
  <2>1. CASE dirs = <<>>
    BY <2>1, FindRoot
  <2>2. CASE dirs # <<>>
    <3>1. PICK m \in Names : dirs = <<m>>
      BY <2>2 DEF DirNames
    <3>2. /\ FindDir(fat, x, dirs) = Under(D[Root], m)
          /\ FindDir(fat2, y, dirs) = Under(DirSlots(fat2, y, Root), m)
      BY <1>2, <3>1, FindUnder
    <3>3. QED
      BY <1>4, <3>2
  <2>3. QED
    BY <2>1, <2>2
<1>7. QED
  BY <1>2, <1>5, <1>6

\* The run of another file is untouched.
LEMMA MovedRun ==
  ASSUME NEW fat, NEW x, NEW r, NEW D, NEW d, NEW n, NEW h, NEW fat2, NEW y, NEW q, NEW t,
         Moved(fat, x, r, D, d, n, h, fat2, y, q, t),
         NEW e \in DOMAIN D, NEW m \in Names, e # d \/ Short[m] # Short[n],
         Lookup(D[e], m) # 0, ~D[e][Lookup(D[e], m)].dir
  PROVE  SameRun(fat, x, fat2, y, D[e][Lookup(D[e], m)].cluster)
<1> DEFINE k == Lookup(D[e], m)
           c == D[e][k].cluster
<1>1. /\ Tidy(fat, x, r, D) /\ d \in DOMAIN D /\ n \in Names /\ h = Target(D[d], n, d)
      /\ Heap(fat2, q) /\ Kept(r, x, q, y, d, h)
  BY DEF Moved
<1>2. Heap(fat, r) /\ Tree(r, D)
  BY <1>1, TidyDirs
<1>3. /\ k \in 1..Len(D[e]) /\ Hit(D[e][k], m) /\ Holds(D, e, k, c) /\ c \in Cells
      /\ c \in DOMAIN r /\ c \notin DOMAIN D
  BY <1>1, TreeEntry
<1>4. c # d
  BY <1>1, <1>3
<1>5. ASSUME c # 0, c = h PROVE FALSE
  <2> DEFINE j == Lookup(D[d], n)
  <2>1. j \in 1..Len(D[d]) /\ Holds(D, d, j, h) /\ Hit(D[d][j], n)
    BY <1>1, <1>4, <1>5, TargetIs
  <2>2. c \in Clusters
    BY <1>3, <1>5, CellFacts
  <2> HIDE DEF c, k, j
  <2>3. e = d /\ k = j
    BY <1>1, <1>2, <1>3, <1>5, <2>1, <2>2 DEF Tree
  <2>4. QED
    BY <1>3, <2>1, <2>3 DEF Hit
<1> HIDE DEF c, k
<1>6. SameRun(fat, x, fat2, y, c)
  BY <1>1, <1>2, <1>3, <1>4, <1>5, KeptRun
<1>7. QED
  BY <1>6 DEF c, k

\* Every other path is okay still.
LEMMA MovedOkay ==
  ASSUME NEW fat, NEW x, NEW r, NEW D, NEW d, NEW n, NEW h, NEW fat2, NEW y, NEW q, NEW t,
         Moved(fat, x, r, D, d, n, h, fat2, y, q, t),
         NEW path, path.dirs \in DirNames, path.name = n, FindDir(fat, x, path.dirs) = d,
         NEW other, other.dirs \in DirNames, other.name \in Names,
         ~(ShortDirs(other.dirs) = ShortDirs(path.dirs) /\ Short[other.name] = Short[n]),
         NEW v, Okay(fat, x, other, v)
  PROVE  Okay(fat2, y, other, v)
<1> DEFINE e == FindDir(fat, x, other.dirs)
           m == other.name
<1>1. /\ Tidy(fat, x, r, D) /\ d \in DOMAIN D /\ n \in Names
      /\ t \in Seq(Slots) /\ Near(D[d], t, Short[n], Files(Short[n]))
  BY DEF Moved
<1>2. FindDir(fat2, y, other.dirs) = e
  BY MovedFind
<1>3. CASE e = 0
  <2>1. v = Absent \/ Buried(DirSlots(fat, x, Root), other.dirs[1])
    BY <1>3 DEF Okay
  <2>2. v = Absent \/ Buried(DirSlots(fat2, y, Root), other.dirs[1])
    BY <2>1, MovedFind
  <2>3. QED
    BY <1>2, <1>3, <2>2 DEF Okay
<1>4. CASE e # 0
  <2>1. e \in DOMAIN D
    BY <1>1, <1>4, FindIs
  <2>2. DirSlots(fat, x, e) = D[e] /\ D[e] \in Seq(Slots)
    BY <1>1, <2>1, TidyDirs
  <2>3. Reads(fat, x, D[e], m, v)
    BY <1>4, <2>2 DEF Okay
  <2>4. DirSlots(fat2, y, e) = IF e = d THEN t ELSE D[e]
    BY <2>1, MovedDirs
  <2>5. e # d \/ Short[m] # Short[n]
    BY <1>1, <1>4, DirsApart
  <2> DEFINE s2 == DirSlots(fat2, y, e)
  <2>6. SameFound(D[e], s2, m)
    <3>1. CASE e # d
      BY <2>4, <3>1 DEF SameFound
    <3>2. CASE e = d
      <4> DEFINE E == Files(Short[n])
      <4>1. Short[m] # Short[n] /\ s2 = t
        BY <2>4, <2>5, <3>2
      <4>2. \A z \in E : ~Hit(z, m)
        BY <4>1 DEF Files, File, Hit
      <4>3. D[e] \in Seq(Slots) /\ t \in Seq(Slots) /\ Near(D[e], t, Short[n], E)
        BY <1>1, <2>2, <3>2
      <4> HIDE DEF E, e, m
      <4>4. SameFound(D[e], t, m)
        BY <4>1, <4>2, <4>3, OtherFound
      <4>5. QED
        BY <4>1, <4>4
    <3>3. QED
      BY <3>1, <3>2
  <2>7. Lookup(D[e], m) # 0 /\ ~D[e][Lookup(D[e], m)].dir =>
          SameRun(fat, x, fat2, y, D[e][Lookup(D[e], m)].cluster)
    BY <2>1, <2>5, MovedRun
  <2> HIDE DEF s2, e, m
  <2>8. Reads(fat2, y, s2, m, v)
    BY <2>2, <2>3, <2>6, <2>7, ReadsKept
  <2>9. QED
    BY <1>2, <1>4, <2>8 DEF Okay, s2, e, m
<1>5. QED
  BY <1>3, <1>4

\* A scan tells names by their short names only.
LEMMA SameLookup ==
  ASSUME NEW m, NEW n, Short[m] = Short[n], NEW s
  PROVE  /\ Lookup(s, m) = Lookup(s, n) /\ (Buried(s, m) <=> Buried(s, n))
         /\ Under(s, m) = Under(s, n)
         /\ \A fat, x, v : Reads(fat, x, s, m, v) <=> Reads(fat, x, s, n, v)
<1>1. Lookup(s, m) = Lookup(s, n)
  BY DEF Lookup
<1>2. Buried(s, m) <=> Buried(s, n)
  BY DEF Buried, Hit
<1>3. Under(s, m) = Under(s, n)
  BY <1>1 DEF Under
<1>4. ASSUME NEW fat, NEW x, NEW v
      PROVE  Reads(fat, x, s, m, v) <=> Reads(fat, x, s, n, v)
  <2>1. Read(fat, x, s, m) = Read(fat, x, s, n)
    BY <1>1 DEF Read
  <2>2. QED
    BY <1>1, <1>2, <2>1 DEF Reads
<1>5. QED
  BY <1>1, <1>2, <1>3, <1>4

\* Two paths with the same short names read the same.
LEMMA SameOkay ==
  ASSUME NEW fat, NEW x, NEW a, NEW b, a.dirs \in DirNames, b.dirs \in DirNames,
         ShortDirs(a.dirs) = ShortDirs(b.dirs), Short[a.name] = Short[b.name],
         NEW v, Okay(fat, x, b, v)
  PROVE  Okay(fat, x, a, v)
<1> DEFINE s == DirSlots(fat, x, Root)
           d == FindDir(fat, x, a.dirs)
           u == DirSlots(fat, x, d)
<1>1. /\ FindDir(fat, x, b.dirs) = d
      /\ d = 0 => (Buried(s, a.dirs[1]) <=> Buried(s, b.dirs[1]))
  <2>1. CASE a.dirs = <<>>
    <3>1. DOMAIN ShortDirs(b.dirs) = {}
      BY <2>1 DEF ShortDirs
    <3>2. b.dirs = <<>>
      <4>1. ASSUME NEW n, b.dirs = <<n>> PROVE FALSE
        <5>1. 1 \in DOMAIN b.dirs
          BY <4>1
        <5>2. QED
          BY <3>1, <5>1 DEF ShortDirs
      <4>2. QED
        BY <4>1 DEF DirNames
    <3>3. d = Root /\ Root # 0
      BY <2>1, FindRoot DEF Root
    <3>4. QED
      BY <2>1, <3>2, <3>3
  <2>2. CASE a.dirs # <<>>
    <3>1. PICK m \in Names : a.dirs = <<m>>
      BY <2>2 DEF DirNames
    <3>2. 1 \in DOMAIN a.dirs /\ a.dirs[1] = m
      BY <3>1
    <3>3. 1 \in DOMAIN b.dirs
      BY <3>2 DEF ShortDirs
    <3>4. b.dirs # <<>>
      BY <3>3
    <3>5. PICK n \in Names : b.dirs = <<n>>
      BY <3>4 DEF DirNames
    <3>6. ShortDirs(a.dirs)[1] = Short[m] /\ ShortDirs(b.dirs)[1] = Short[n]
      BY <3>2, <3>3, <3>5 DEF ShortDirs
    <3>7. Short[m] = Short[n]
      BY <3>6
    <3> HIDE DEF s
    <3>8. Under(s, m) = Under(s, n) /\ (Buried(s, m) <=> Buried(s, n))
      BY <3>7, SameLookup
    <3>9. d = Under(s, m) /\ FindDir(fat, x, b.dirs) = Under(s, n)
      BY <3>1, <3>5, FindUnder DEF s
    <3>10. a.dirs[1] = m /\ b.dirs[1] = n
      BY <3>1, <3>5
    <3>11. QED
      BY <3>8, <3>9, <3>10
  <2>3. QED
    BY <2>1, <2>2
<1>2. Okay(fat, x, b, v) <=> IF d = 0 THEN v = Absent \/ Buried(s, b.dirs[1])
                             ELSE Reads(fat, x, u, b.name, v)
  BY <1>1 DEF Okay
<1>3. Okay(fat, x, a, v) <=> IF d = 0 THEN v = Absent \/ Buried(s, a.dirs[1])
                             ELSE Reads(fat, x, u, a.name, v)
  BY DEF Okay
<1>4. Reads(fat, x, u, a.name, v) <=> Reads(fat, x, u, b.name, v)
  <2> DEFINE m == a.name
             n == b.name
  <2>1. Short[m] = Short[n]
    OBVIOUS
  <2> HIDE DEF m, n, u
  <2>2. Reads(fat, x, u, m, v) <=> Reads(fat, x, u, n, v)
    BY <2>1, SameLookup
  <2>3. QED
    BY <2>2 DEF m, n
<1> HIDE DEF s, d, u
<1>5. QED
  BY <1>1, <1>2, <1>3, <1>4

\* A file that was written reads what was written.
LEMMA WroteReads ==
  ASSUME NEW fat, NEW q, Heap(fat, q), NEW x, NEW t \in Seq(Slots), NEW n,
         NEW vals \in Seq(Blocks), Wrote(t, q, x, n, vals)
  PROVE  Reads(fat, x, t, n, vals)
<1> DEFINE k == Lookup(t, n)
           e == t[k]
           c == e.cluster
<1>1. CASE Buried(t, n)
  BY <1>1 DEF Reads
<1>2. CASE k # 0 /\ ~e.dir /\ c = 0
  <2>1. CASE vals # <<>>
    BY <1>2, <2>1 DEF Reads
  <2>2. CASE vals = <<>>
    <3>1. Chain(fat, c) = <<>>
      BY <1>2, CellFacts, NoChain
    <3>2. k \in 1..Len(t) /\ Hit(e, n)
      <4>1. k \in 0..Len(t) /\ Hit(e, n) /\ Len(t) \in Nat
        BY <1>2, LookupIs, LenProperties
      <4> HIDE DEF k
      <4>2. QED
        BY <1>2, <4>1
    <3>3. e \in Slots
      BY <3>2, LenProperties
    <3>4. e.size \in Nat
      <4> HIDE DEF e
      <4>1. QED
        BY <3>2, <3>3, RealIs DEF Hit
    <3> DEFINE z == e.size
               ch == Chain(fat, c)
               m == IF z < Len(ch) THEN z ELSE Len(ch)
    <3>5. m = 0
      <4>1. Len(ch) = 0 /\ z \in Nat
        BY <3>1, <3>4
      <4> HIDE DEF z, ch
      <4>2. QED
        BY <4>1
    <3>6. Read(fat, x, t, n) = [i \in 1..m |-> x[ch[i]]]
      BY <1>2 DEF Read
    <3> HIDE DEF m, ch
    <3>7. Read(fat, x, t, n) = <<>>
      BY <3>5, <3>6
    <3>8. QED
      BY <2>2, <3>7 DEF Reads
  <2>3. QED
    BY <2>1, <2>2
<1>3. CASE /\ k # 0 /\ ~e.dir /\ c # 0
           /\ c \in DOMAIN q /\ Len(q[c]) = Len(vals) /\ e.size = Len(vals)
           /\ \A i \in 1..Len(vals) : x[q[c][i]] = vals[i]
  <2>1. Chain(fat, c) = q[c]
    BY <1>3, HeapChain
  <2> DEFINE ch == Chain(fat, c)
             z == e.size
             m == IF z < Len(ch) THEN z ELSE Len(ch)
  <2>2. Read(fat, x, t, n) = [i \in 1..m |-> x[ch[i]]]
    BY <1>3 DEF Read
  <2>3. m = Len(vals)
    BY <1>3, <2>1
  <2>4. \A i \in 1..Len(vals) : x[ch[i]] = vals[i]
    BY <1>3, <2>1
  <2> HIDE DEF m, ch
  <2>5. Read(fat, x, t, n) = [i \in 1..Len(vals) |-> vals[i]]
    BY <2>2, <2>3, <2>4
  <2>6. vals = [i \in 1..Len(vals) |-> vals[i]]
    BY LenProperties
  <2>7. QED
    BY <2>5, <2>6 DEF Reads
<1>4. QED
  <2>1. \/ Buried(t, n)
        \/ /\ k # 0 /\ ~e.dir
           /\ \/ c = 0
              \/ /\ c \in DOMAIN q /\ Len(q[c]) = Len(vals) /\ e.size = Len(vals)
                 /\ \A i \in 1..Len(vals) : x[q[c][i]] = vals[i]
    BY DEF Wrote
  <2>2. QED
    BY <1>1, <1>2, <1>3, <2>1

\* Where an entry of the name is behind the end, a new one is so too.
LEMMA NearHides ==
  ASSUME NEW s \in Seq(Slots), NEW t \in Seq(Slots), NEW sh, NEW E, Near(s, t, sh, E),
         NEW n, Lookup(s, n) = 0, Buried(s, n)
  PROVE  Lookup(t, n) = 0
<1>1. ~Ended(s)
  BY DEF Ended, Buried, Hit, Zero
<1> SUFFICES ASSUME Lookup(t, n) # 0 PROVE FALSE
  OBVIOUS
<1> DEFINE k == Lookup(t, n)
<1>2. /\ EndOf(t) = EndOf(s) /\ EndOf(s) <= Len(s)
      /\ \A i \in 1..Len(s) : t[i] = s[i] \/ (File(s[i], sh) /\ File(t[i], sh))
  BY <1>1, NearEnds
<1>3. k \in 0..Len(t) /\ k # 0 /\ k < EndOf(t) /\ Hit(t[k], n)
  BY LookupIs
<1>4. \A i \in 1..Len(s) : i < EndOf(s) => ~Hit(s[i], n)
  BY LookupIs
<1>5. Len(s) \in Nat /\ EndOf(s) \in Int /\ Len(t) \in Nat
  BY EndOfIs, LenProperties
<1> HIDE DEF k
<1>6. k \in 1..Len(s) /\ k < EndOf(s)
  BY <1>2, <1>3, <1>5
<1>7. Hit(s[k], n)
  BY <1>2, <1>3, <1>6 DEF Hit, File
<1>8. QED
  BY <1>4, <1>6, <1>7

-----------------------------------------------------------------------------
(* What they read after a call that creates its directory. *)

\* The slots of a new directory show the file that is being written only.
Quiet(s, name) ==
  \A k \in 1..Len(s) : s[k].kind = "entry" => s[k].short \in {".", "..", Short[name]}

\* The table fat2 and the data y are what a call that creates directory n in the
\* root, in cluster c, and file name in it leaves or passes through.
Built(fat, x, r, D, n, name, c, fat2, y, q, t) ==
  /\ Tidy(fat, x, r, D) /\ n \in Names /\ Lookup(D[Root], n) = 0
  /\ y \in Datas /\ Heap(fat2, q) /\ Kept(r, x, q, y, Root, Root)
  /\ t = Flat(y, q[Root]) /\ t \in Seq(Slots)
  /\ Near(D[Root], t, Short[n], {Entry(Short[n], c, 0, TRUE)})
  /\ Lookup(t, n) # 0 => Quiet(DirSlots(fat2, y, c), name)

\* The entry of a new directory.
LEMMA DirEntry ==
  ASSUME NEW n \in Names, NEW c \in Clusters
  PROVE  LET e == Entry(Short[n], c, 0, TRUE)
         IN /\ e \in Slots /\ Hit(e, n) /\ Real(e) /\ e.cluster = c /\ e.size = 0 /\ e.dir = TRUE
            /\ e.kind = "entry" /\ e.short = Short[n] /\ Lfn[n] + 1 \in 1..SlotsPer
<1> DEFINE e == Entry(Short[n], c, 0, TRUE)
<1>1. /\ e \in Slots /\ e.kind = "entry" /\ e.short = Short[n] /\ e.cluster = c /\ e.size = 0
      /\ e.dir = TRUE
  <2> DEFINE z == TRUE
             sh == Short[n]
  <2>1. z \in BOOLEAN /\ c \in Cells /\ sh \in Shorts /\ 0 \in Nat
    BY LfnIs, CellFacts
  <2> HIDE DEF z, sh
  <2>2. /\ Entry(sh, c, 0, z) \in Slots
        /\ Entry(sh, c, 0, z).kind = "entry" /\ Entry(sh, c, 0, z).short = sh
        /\ Entry(sh, c, 0, z).cluster = c /\ Entry(sh, c, 0, z).size = 0
        /\ Entry(sh, c, 0, z).dir = z
    BY <2>1, EntryIs
  <2>3. QED
    BY <2>2 DEF z, sh
<1>2. Short[n] \notin {".", ".."} /\ Lfn[n] + 1 \in 1..SlotsPer
  BY LfnIs
<1> HIDE DEF e
<1>3. Hit(e, n) /\ Real(e)
  BY <1>1, <1>2 DEF Hit, Real
<1>4. QED
  BY <1>1, <1>2, <1>3 DEF e

\* The directories D, but the root with t, and the files in them are as they were.
Around(fat, x, D, fat2, y, t) ==
  /\ DirSlots(fat2, y, Root) = t
  /\ \A e \in DOMAIN D : e # Root => DirSlots(fat2, y, e) = D[e]
  /\ \A e \in DOMAIN D, m \in Names :
       Lookup(D[e], m) # 0 /\ ~D[e][Lookup(D[e], m)].dir =>
         SameRun(fat, x, fat2, y, D[e][Lookup(D[e], m)].cluster)

\* The directories that were there, and the root.
LEMMA BuiltDirs ==
  ASSUME NEW fat, NEW x, NEW r, NEW D, NEW n, NEW name, NEW c \in Clusters, NEW fat2, NEW y,
         NEW q, NEW t, Built(fat, x, r, D, n, name, c, fat2, y, q, t)
  PROVE  Around(fat, x, D, fat2, y, t)
<1>1. /\ Tidy(fat, x, r, D) /\ y \in Datas /\ Heap(fat2, q) /\ Kept(r, x, q, y, Root, Root)
      /\ t = Flat(y, q[Root])
  BY DEF Built
<1>2. x \in Datas /\ Heap(fat, r) /\ Root # 0 /\ Root \in DOMAIN q
  BY <1>1, TidyDirs, HeapFacts DEF Root
<1>3. DirSlots(fat2, y, Root) = t
  BY <1>1, <1>2, DirIs
<1>4. ASSUME NEW e \in DOMAIN D, e # Root PROVE DirSlots(fat2, y, e) = D[e]
  <2>1. e \in DOMAIN r /\ e # 0 /\ D[e] = Flat(x, r[e])
    BY <1>1, TidyDirs
  <2>2. e \in DOMAIN q /\ q[e] = r[e] /\ Flat(y, q[e]) = Flat(x, r[e])
    BY <1>1, <1>2, <1>4, <2>1, KeptFlat
  <2>3. QED
    BY <1>1, <2>1, <2>2, DirIs
<1>5. ASSUME NEW e \in DOMAIN D, NEW m \in Names, Lookup(D[e], m) # 0, ~D[e][Lookup(D[e], m)].dir
      PROVE  SameRun(fat, x, fat2, y, D[e][Lookup(D[e], m)].cluster)
  <2> DEFINE g == D[e][Lookup(D[e], m)].cluster
  <2>1. g \in DOMAIN r /\ g # Root
    BY <1>1, <1>5, TreeEntry
  <2> HIDE DEF g
  <2>2. SameRun(fat, x, fat2, y, g)
    BY <1>1, <1>2, <2>1, KeptRun
  <2>3. QED
    BY <2>2 DEF g
<1>6. QED
  BY <1>3, <1>4, <1>5 DEF Around

\* What a scan for m finds in the root, with the slots s and then t, when the
\* directory n is created in cluster c.
RootScan(s, t, n, m, c) ==
  /\ Short[m] # Short[n] => SameFound(s, t, m) /\ Under(t, m) = Under(s, m)
  /\ Short[m] = Short[n] =>
       /\ Lookup(s, m) = 0 /\ Lookup(t, m) = Lookup(t, n)
       /\ Lookup(t, m) # 0 => t[Lookup(t, m)] = Entry(Short[n], c, 0, TRUE)
       /\ Under(t, m) \in {0, c} /\ (Under(t, m) # 0 => Lookup(t, n) # 0)
       /\ Buried(s, m) => Buried(t, m) /\ Lookup(t, m) = 0

\* A scan of the new root.
LEMMA BuiltRoot ==
  ASSUME NEW fat, NEW x, NEW r, NEW D, NEW n, NEW name, NEW c \in Clusters, NEW fat2, NEW y,
         NEW q, NEW t, Built(fat, x, r, D, n, name, c, fat2, y, q, t), NEW m
  PROVE  /\ D[Root] \in Seq(Slots) /\ t \in Seq(Slots)
         /\ RootScan(D[Root], t, n, m, c)
<1> DEFINE s == D[Root]
           e == Entry(Short[n], c, 0, TRUE)
           E == {e}
           sh == Short[n]
<1>1. /\ Tidy(fat, x, r, D) /\ n \in Names /\ Lookup(s, n) = 0 /\ t \in Seq(Slots)
      /\ Near(s, t, sh, E)
  BY DEF Built
<1>2. s \in Seq(Slots)
  BY <1>1, TidyDirs
<1>3. e.kind = "entry" /\ e.short = Short[n] /\ e.dir = TRUE /\ e.cluster = c
  BY <1>1, DirEntry
<1> HIDE DEF s, e, sh
<1>4. ASSUME Short[m] # Short[n] PROVE SameFound(s, t, m) /\ Under(t, m) = Under(s, m)
  <2>1. \A z \in E : ~Hit(z, m)
    BY <1>3, <1>4 DEF Hit
  <2>2. SameFound(s, t, m)
    BY <1>1, <1>2, <1>4, <2>1, OtherFound DEF sh
  <2>3. Under(t, m) = Under(s, m)
    BY <2>2 DEF SameFound, Under
  <2>4. QED
    BY <2>2, <2>3
<1>5. ASSUME Short[m] = Short[n]
      PROVE  /\ Lookup(s, m) = 0 /\ Lookup(t, m) = Lookup(t, n)
             /\ Lookup(t, m) # 0 => t[Lookup(t, m)] = e
             /\ Under(t, m) \in {0, c} /\ (Under(t, m) # 0 => Lookup(t, n) # 0)
             /\ Buried(s, m) => Buried(t, m) /\ Lookup(t, m) = 0
  <2>1. Lookup(s, m) = 0 /\ Lookup(t, m) = Lookup(t, n)
    BY <1>1, <1>5, SameLookup
  <2>2. Lookup(t, m) # 0 => t[Lookup(t, m)] \in E
    BY <1>1, <1>2, <2>1, NearFinds
  <2>3. Lookup(t, m) # 0 => t[Lookup(t, m)] = e
    BY <2>2
  <2>4. Under(t, m) \in {0, c} /\ (Under(t, m) # 0 => Lookup(t, n) # 0)
    BY <1>3, <2>1, <2>3 DEF Under
  <2>5. Buried(s, m) => Buried(t, m) /\ Lookup(t, m) = 0
    BY <1>1, <1>2, <2>1, NearBuries, NearHides
  <2>6. QED
    BY <2>1, <2>3, <2>4, <2>5
<1>6. QED
  BY <1>1, <1>2, <1>4, <1>5 DEF RootScan, s, e

\* A file in the root, when a directory is created there.
LEMMA BuiltRootFile ==
  ASSUME NEW fat, NEW x, NEW r, NEW D, NEW n, NEW name, NEW c \in Clusters, NEW fat2, NEW y,
         NEW q, NEW t, Built(fat, x, r, D, n, name, c, fat2, y, q, t),
         NEW m \in Names, NEW v, Reads(fat, x, D[Root], m, v)
  PROVE  Reads(fat2, y, t, m, v)
<1>r. RootScan(D[Root], t, n, m, c) /\ D[Root] \in Seq(Slots) /\ t \in Seq(Slots)
  BY BuiltRoot
<1>a. Around(fat, x, D, fat2, y, t)
  BY BuiltDirs
<1> DEFINE s == D[Root]
<1>1. s \in Seq(Slots) /\ t \in Seq(Slots)
  BY <1>r DEF RootScan
<1>2. CASE Short[m] # Short[n]
  <2>1. SameFound(s, t, m)
    BY <1>2, <1>r DEF RootScan
  <2>2. Root \in DOMAIN D
    BY TidyDirs DEF Built
  <2>3. Lookup(s, m) # 0 /\ ~s[Lookup(s, m)].dir =>
          SameRun(fat, x, fat2, y, s[Lookup(s, m)].cluster)
    BY <2>2, <1>a DEF Around
  <2> HIDE DEF s
  <2>4. QED
    BY <1>1, <2>1, <2>3, ReadsKept DEF s
<1>3. CASE Short[m] = Short[n]
  <2> DEFINE e == Entry(Short[n], c, 0, TRUE)
  <2>1. /\ Lookup(s, m) = 0 /\ (Lookup(t, m) # 0 => t[Lookup(t, m)] = e)
        /\ Buried(s, m) => Buried(t, m)
    BY <1>3, <1>r DEF RootScan
  <2>2. e.dir = TRUE
    BY DirEntry DEF Built
  <2> HIDE DEF s, e
  <2>3. Read(fat, x, s, m) = Absent
    BY <2>1 DEF Read
  <2>4. Read(fat2, y, t, m) = Absent
    BY <2>1, <2>2 DEF Read
  <2>5. Read(fat, x, s, m) = v \/ Buried(s, m)
    BY <2>1 DEF Reads, s
  <2>6. QED
    BY <2>1, <2>3, <2>4, <2>5 DEF Reads
<1>4. QED
  BY <1>2, <1>3

\* A scan of the new directory finds no other file.
LEMMA QuietScan ==
  ASSUME NEW s \in Seq(Slots), NEW name, Quiet(s, name), NEW m \in Names, Short[m] # Short[name]
  PROVE  Lookup(s, m) = 0
<1> SUFFICES ASSUME Lookup(s, m) # 0 PROVE FALSE
  OBVIOUS
<1> DEFINE k == Lookup(s, m)
<1>1. k \in 0..Len(s) /\ k # 0 /\ Hit(s[k], m) /\ Len(s) \in Nat
  BY LookupIs, LenProperties
<1> HIDE DEF k
<1>2. k \in 1..Len(s)
  BY <1>1
<1>3. s[k].short \in {".", "..", Short[name]} /\ s[k].short = Short[m]
  BY <1>1, <1>2 DEF Quiet, Hit
<1>4. QED
  BY <1>3, LfnIs

\* A path into a directory of the root, when another one is created.
LEMMA BuiltUnder ==
  ASSUME NEW fat, NEW x, NEW r, NEW D, NEW n, NEW name, NEW c \in Clusters, NEW fat2, NEW y,
         NEW q, NEW t, Built(fat, x, r, D, n, name, c, fat2, y, q, t),
         NEW other, NEW m \in Names, other.dirs = <<m>>, other.name \in Names,
         Short[m] # Short[n], NEW v, Okay(fat, x, other, v)
  PROVE  Okay(fat2, y, other, v)
<1>r. RootScan(D[Root], t, n, m, c) /\ D[Root] \in Seq(Slots) /\ t \in Seq(Slots)
  BY BuiltRoot
<1>a. Around(fat, x, D, fat2, y, t)
  BY BuiltDirs
<1> DEFINE e == Under(D[Root], m)
           f == other.name
<1>1. Tidy(fat, x, r, D)
  BY DEF Built
<1>2. DirSlots(fat, x, Root) = D[Root] /\ DirSlots(fat2, y, Root) = t
  BY <1>1, TidyDirs, <1>a DEF Around
<1>3. Under(t, m) = e /\ SameFound(D[Root], t, m)
  BY <1>r DEF RootScan
<1>4. FindDir(fat, x, other.dirs) = e /\ FindDir(fat2, y, other.dirs) = e
  BY <1>2, <1>3, FindUnder
<1>5. CASE e = 0
  <2>1. v = Absent \/ Buried(D[Root], m)
    BY <1>2, <1>4, <1>5 DEF Okay
  <2>2. v = Absent \/ Buried(t, m)
    BY <1>3, <2>1 DEF SameFound
  <2>3. QED
    BY <1>2, <1>4, <1>5, <2>2 DEF Okay
<1>6. CASE e # 0
  <2>1. e \in DOMAIN D /\ e # Root
    BY <1>1, <1>6, UnderIs
  <2>2. DirSlots(fat, x, e) = D[e] /\ DirSlots(fat2, y, e) = D[e] /\ D[e] \in Seq(Slots)
    BY <1>1, <2>1, TidyDirs, <1>a DEF Around
  <2> DEFINE s == D[e]
  <2>3. Reads(fat, x, s, f, v)
    BY <1>4, <1>6, <2>2 DEF Okay
  <2>4. Lookup(s, f) # 0 /\ ~s[Lookup(s, f)].dir =>
          SameRun(fat, x, fat2, y, s[Lookup(s, f)].cluster)
    BY <2>1, <1>a DEF Around
  <2>5. SameFound(s, s, f)
    BY DEF SameFound
  <2>6. s \in Seq(Slots)
    BY <2>2
  <2> HIDE DEF s, e, f
  <2>7. Reads(fat2, y, s, f, v)
    BY <2>3, <2>4, <2>5, <2>6, ReadsKept
  <2>8. Okay(fat2, y, other, v)
    BY <1>4, <1>6, <2>2, <2>7 DEF Okay, s, f
  <2>9. QED
    BY <2>8
<1>7. QED
  BY <1>5, <1>6

\* A path into the directory that is created.
LEMMA BuiltInside ==
  ASSUME NEW fat, NEW x, NEW r, NEW D, NEW n, NEW name, NEW c \in Clusters, NEW fat2, NEW y,
         NEW q, NEW t, Built(fat, x, r, D, n, name, c, fat2, y, q, t),
         NEW other, NEW m \in Names, other.dirs = <<m>>, other.name \in Names,
         Short[m] = Short[n], Short[other.name] # Short[name], NEW v, Okay(fat, x, other, v)
  PROVE  Okay(fat2, y, other, v)
<1>r. RootScan(D[Root], t, n, m, c) /\ D[Root] \in Seq(Slots) /\ t \in Seq(Slots)
  BY BuiltRoot
<1>a. Around(fat, x, D, fat2, y, t)
  BY BuiltDirs
<1> DEFINE s == D[Root]
           f == other.name
           w == DirSlots(fat2, y, c)
<1>1. Tidy(fat, x, r, D) /\ y \in Datas
  BY DEF Built
<1>2. DirSlots(fat, x, Root) = s /\ DirSlots(fat2, y, Root) = t
  BY <1>1, TidyDirs, <1>a DEF Around
<1>3. /\ Lookup(s, m) = 0 /\ Lookup(t, m) = Lookup(t, n)
      /\ Under(t, m) \in {0, c} /\ (Under(t, m) # 0 => Lookup(t, n) # 0)
      /\ Buried(s, m) => Buried(t, m) /\ Lookup(t, m) = 0
  BY <1>r DEF RootScan
<1>4. Under(s, m) = 0
  BY <1>3 DEF Under
<1>5. FindDir(fat, x, other.dirs) = 0 /\ FindDir(fat2, y, other.dirs) = Under(t, m)
  BY <1>2, <1>4, FindUnder
<1>6. v = Absent \/ Buried(s, m)
  BY <1>2, <1>5 DEF Okay
<1>7. CASE Under(t, m) = 0
  <2>1. v = Absent \/ Buried(t, m)
    BY <1>3, <1>6
  <2>2. QED
    BY <1>2, <1>5, <1>7, <2>1 DEF Okay
<1>8. CASE Under(t, m) # 0
  <2>1. Under(t, m) = c /\ Lookup(t, n) # 0 /\ Lookup(t, m) # 0
    BY <1>3, <1>8
  <2>2. v = Absent
    BY <1>3, <1>6, <2>1
  <2>3. Quiet(w, name)
    BY <2>1 DEF Built
  <2>4. w \in Seq(Slots)
    BY <1>1, DirType
  <2> HIDE DEF w, f
  <2>5. Lookup(w, f) = 0
    BY <2>3, <2>4, QuietScan DEF f
  <2>6. Reads(fat2, y, w, f, v)
    BY <2>2, <2>5 DEF Reads, Read
  <2>7. QED
    BY <1>5, <1>8, <2>1, <2>6 DEF Okay, w, f
<1>9. QED
  BY <1>7, <1>8

\* Every other path is okay still.
LEMMA BuiltOkay ==
  ASSUME NEW fat, NEW x, NEW r, NEW D, NEW n, NEW name, NEW c \in Clusters, NEW fat2, NEW y,
         NEW q, NEW t, Built(fat, x, r, D, n, name, c, fat2, y, q, t),
         NEW other, other.dirs \in DirNames, other.name \in Names,
         ~(ShortDirs(other.dirs) = ShortDirs(<<n>>) /\ Short[other.name] = Short[name]),
         NEW v, Okay(fat, x, other, v)
  PROVE  Okay(fat2, y, other, v)
<1>a. Around(fat, x, D, fat2, y, t)
  BY BuiltDirs
<1>1. CASE other.dirs = <<>>
  <2>1. FindDir(fat, x, other.dirs) = Root /\ FindDir(fat2, y, other.dirs) = Root
    BY <1>1, FindRoot
  <2>2. Root # 0
    BY DEF Root
  <2>3. DirSlots(fat, x, Root) = D[Root] /\ DirSlots(fat2, y, Root) = t
    BY TidyDirs, <1>a DEF Built, Around
  <2>4. Reads(fat, x, D[Root], other.name, v)
    BY <2>1, <2>2, <2>3 DEF Okay
  <2>5. Reads(fat2, y, t, other.name, v)
    BY <2>4, BuiltRootFile
  <2>6. QED
    BY <2>1, <2>2, <2>3, <2>5 DEF Okay
<1>2. CASE other.dirs # <<>>
  <2>1. PICK m \in Names : other.dirs = <<m>>
    BY <1>2 DEF DirNames
  <2>2. CASE Short[m] # Short[n]
    BY <2>1, <2>2, BuiltUnder
  <2>3. CASE Short[m] = Short[n]
    <3>1. ShortDirs(other.dirs) = [i \in {1} |-> Short[m]]
      BY <2>1 DEF ShortDirs
    <3>2. ShortDirs(<<n>>) = [i \in {1} |-> Short[n]]
      BY DEF ShortDirs
    <3>3. Short[other.name] # Short[name]
      BY <2>3, <3>1, <3>2
    <3>4. QED
      BY <2>1, <2>3, <3>3, BuiltInside
  <2>4. QED
    BY <2>2, <2>3
<1>3. QED
  BY <1>1, <1>2

-----------------------------------------------------------------------------
(* How write_file gets to the directory. *)

\* The partition at the root.
Start(p) == [p EXCEPT !.hint = 2, !.got = Root]

\* resolve_dir of a path without directories stays at the root.
LEMMA ResolveRoot ==
  ASSUME NEW p
  PROVE  ResolveDir(p, <<>>) = Start(p)
<1> DEFINE Down(q, n) == IF q.ok THEN ChildDir(q, q.got, n) ELSE q
           Is(w) == w = [k \in 0..Len(<<>>) |->
                          IF k = 0 THEN Start(p) ELSE Down(w[k - 1], (<<>>)[k])]
           at == CHOOSE w : Is(w)
           f == [k \in 0..0 |-> Start(p)]
<1>1. Len(<<>>) = 0
  OBVIOUS
<1>2. Is(f)
  BY <1>1
<1>3. Is(at)
  <2> HIDE DEF Is, f
  <2>1. QED
    BY <1>2
<1>4. ResolveDir(p, <<>>) = at[0]
  BY <1>1 DEF ResolveDir, Start
<1> HIDE DEF at
<1>5. at[0] = Start(p)
  BY <1>1, <1>3
<1>6. QED
  BY <1>4, <1>5

\* resolve_dir of a path with one directory looks for that in the root.
LEMMA ResolveOne ==
  ASSUME NEW p, NEW n
  PROVE  ResolveDir(p, <<n>>) =
           IF Start(p).ok THEN ChildDir(Start(p), Start(p).got, n) ELSE Start(p)
<1> DEFINE dirs == <<n>>
           Down(q, m) == IF q.ok THEN ChildDir(q, q.got, m) ELSE q
           Is(w) == w = [k \in 0..Len(dirs) |->
                          IF k = 0 THEN Start(p) ELSE Down(w[k - 1], dirs[k])]
           at == CHOOSE w : Is(w)
           v == Start(p)
           c == Down(v, n)
           f == [k \in 0..1 |-> IF k = 0 THEN v ELSE c]
<1>1. Len(dirs) = 1 /\ dirs[1] = n
  OBVIOUS
<1>2. ResolveDir(p, dirs) = at[Len(dirs)]
  BY DEF ResolveDir, Start
<1>3. c = IF Start(p).ok THEN ChildDir(Start(p), Start(p).got, n) ELSE Start(p)
  OBVIOUS
<1> HIDE DEF dirs, v
<1>4. f[0] = v /\ f[1] = c
  OBVIOUS
<1>5. ASSUME NEW k \in 0..1
      PROVE  f[k] = IF k = 0 THEN v ELSE Down(f[k - 1], dirs[k])
  <2> HIDE DEF Down, f
  <2>1. CASE k = 0
    BY <1>4, <2>1
  <2>2. CASE k = 1
    <3>1. k - 1 = 0 /\ k # 0
      BY <2>2
    <3>2. QED
      BY <1>1, <1>4, <2>2, <3>1
  <2>3. QED
    BY <2>1, <2>2
<1>6. f = [k \in 0..1 |-> f[k]]
  OBVIOUS
<1> HIDE DEF f, Down, c
<1>7. Is(f)
  BY <1>1, <1>5, <1>6 DEF v
<1>8. Is(at)
  <2> HIDE DEF Is
  <2>1. QED
    BY <1>7
<1> HIDE DEF at
<1>9. at[0] = v /\ at[1] = Down(at[1 - 1], dirs[1])
  BY <1>1, <1>8 DEF v
<1>10. 1 - 1 = 0
  OBVIOUS
<1>11. at[1] = c
  BY <1>1, <1>9, <1>10 DEF c
<1>12. QED
  BY <1>1, <1>2, <1>3, <1>11 DEF dirs

\* The first slots of a directory of the root.
Dots(c) == [Blank EXCEPT ![1] = Entry(".", c, 0, TRUE), ![2] = Entry("..", 0, 0, TRUE)]

\* The directory n is created in the root.
MakeDir(p, n) ==
  LET a == Alloc(p)
  IN IF a.ok THEN [AddEntry(Put(a, a.got, Dots(a.got)), Root, n, a.got, 0, TRUE)
                    EXCEPT !.got = a.got]
     ELSE a

\* The directory is there, or the name is a file's and the call fails, or it is created.
LEMMA ResolveUnder ==
  ASSUME NEW p \in Parts, p.ok, NEW n
  PROVE  LET s == DirSlots(p.fat, p.data, Root)
             k == Lookup(s, n)
         IN ResolveDir(p, <<n>>) =
              IF k = 0 THEN MakeDir(Start(p), n)
              ELSE IF s[k].dir THEN [Start(p) EXCEPT !.got = s[k].cluster]
              ELSE [Start(p) EXCEPT !.ok = FALSE]
<1> DEFINE v == Start(p)
           s == DirSlots(p.fat, p.data, Root)
           k == Lookup(s, n)
<1>1. v.ok /\ v.got = Root /\ v.fat = p.fat /\ v.data = p.data
  BY PartFacts DEF Start
<1> HIDE DEF v
<1>2. ResolveDir(p, <<n>>) = ChildDir(v, Root, n)
  BY <1>1, ResolveOne DEF v
<1>3. ChildDir(v, Root, n) =
        IF k # 0 THEN IF s[k].dir THEN [v EXCEPT !.got = s[k].cluster] ELSE [v EXCEPT !.ok = FALSE]
        ELSE MakeDir(v, n)
  BY <1>1 DEF ChildDir, MakeDir, Dots
<1>4. QED
  BY <1>2, <1>3 DEF v

\* A trail in G is one in a larger set.
LEMMA TrailMono ==
  ASSUME NEW G, NEW H, G \subseteq H, NEW d, NEW log, NEW e, Trail(G, d, log, e)
  PROVE  Trail(H, d, log, e)
<1>1. PICK t \in [0..Len(log) -> G] :
        /\ t[0] = d /\ t[Len(log)] = e
        /\ \A i \in 1..Len(log) : Stepped(log[i], t[i - 1], t[i])
  BY DEF Trail
<1>2. t \in [0..Len(log) -> H]
  BY <1>1
<1>3. QED
  BY <1>1, <1>2 DEF Trail

\* Moving on to another directory writes nothing.
LEMMA StartReady ==
  ASSUME NEW p, NEW r, NEW G, NEW F, NEW b, Ready(p, r, G, F, b), NEW hint \in Nat, NEW c \in Cells
  PROVE  LET w == [p EXCEPT !.hint = hint, !.got = c]
         IN /\ Ready(w, r, G, F, b) /\ w.fat = p.fat /\ w.data = p.data
            /\ w.log = p.log /\ w.got = c
<1> DEFINE w == [p EXCEPT !.hint = hint, !.got = c]
<1>1. p \in Parts
  BY DEF Ready
<1>2. /\ w \in Parts /\ w.fat = p.fat /\ w.data = p.data /\ w.log = p.log /\ w.ok = p.ok
      /\ w.got = c
  BY <1>1 DEF Parts
<1> HIDE DEF w
<1>3. Ready(w, r, G, F, b)
  BY <1>2 DEF Ready
<1>4. QED
  BY <1>2, <1>3 DEF w

-----------------------------------------------------------------------------
(* The contents on the way, with the old table still on the disk. *)

\* The clusters that a call may take: the free ones, and the run h it rewrites.
FreeCells(fat) == {c \in Clusters : fat[c] = Free}
Loose(fat, r, d, h) ==
  FreeCells(fat) \cup (IF h = d THEN {} ELSE {r[h][i] : i \in 1..Len(r[h])})

\* The clusters that a call may take are not the directory's.
LEMMA LooseApart ==
  ASSUME NEW fat, NEW r, Heap(fat, r), NEW d \in DOMAIN r, d # 0, NEW h \in DOMAIN r
  PROVE  /\ \A i \in 1..Len(r[d]) : r[d][i] \in Clusters /\ r[d][i] \notin Loose(fat, r, d, h)
         /\ h # d => RunIn(r[h], Loose(fat, r, d, h))
         /\ \A c \in Clusters : fat[c] = Free => c \in Loose(fat, r, d, h)
<1>1. ASSUME NEW i \in 1..Len(r[d])
      PROVE  r[d][i] \in Clusters /\ r[d][i] \notin Loose(fat, r, d, h)
  <2>1. r[d][i] \in Clusters
    BY <1>1, HeapFacts
  <2>2. fat[r[d][i]] # Free /\ (h # d => \A j \in 1..Len(r[h]) : r[h][j] # r[d][i])
    BY <1>1, <2>1, HeapOther
  <2>3. QED
    BY <2>1, <2>2 DEF Loose, FreeCells
<1>2. ASSUME h # d PROVE RunIn(r[h], Loose(fat, r, d, h))
  BY <1>2 DEF RunIn, Loose
<1>3. QED
  BY <1>1, <1>2 DEF Loose, FreeCells

\* The contents that writing file n to directory d passes through.
Passes(fat, x, r, D, d, n, h) ==
  {y \in Datas :
     /\ Beyond(x, y, Loose(fat, r, d, h), r[d])
     /\ \A k \in 1..(Len(r[d]) * SlotsPer) :
          Flat(y, r[d])[k] \in Allowed(D[d], k, Short[n], Files(Short[n]))}

\* The contents a call passes through do not depend on the clusters it takes, and
\* the first of them is the one it starts from.
LEMMA PassesOpen ==
  ASSUME NEW fat, NEW x, NEW r, NEW D, Tidy(fat, x, r, D), NEW d \in DOMAIN D, NEW n,
         NEW h \in DOMAIN r
  PROVE  /\ Open(Passes(fat, x, r, D, d, n, h), Loose(fat, r, d, h))
         /\ x \in Passes(fat, x, r, D, d, n, h)
         /\ Roomy(Passes(fat, x, r, D, d, n, h), Loose(fat, r, d, h), x, r[d], Short[n],
                  Files(Short[n]))
<1> DEFINE G == Passes(fat, x, r, D, d, n, h)
           F == Loose(fat, r, d, h)
           u == r[d]
           sh == Short[n]
           s == D[d]
<1>1. /\ x \in Datas /\ Heap(fat, r) /\ d \in DOMAIN r /\ d # 0 /\ u \in Seq(Clusters)
      /\ s = Flat(x, u)
  BY TidyDirs
<1>2. \A i \in 1..Len(u) : u[i] \in Clusters /\ u[i] \notin F
  BY <1>1, LooseApart
<1>3. \A y : y \in G <=> /\ y \in Datas /\ Beyond(x, y, F, u)
                         /\ \A k \in 1..(Len(u) * SlotsPer) :
                              Flat(y, u)[k] \in Allowed(s, k, sh, Files(sh))
  BY DEF Passes
<1> HIDE DEF G, F, u, sh, s
<1>4. ASSUME NEW e \in G, NEW y \in Datas, \A c \in Clusters \ F : y[c] = e[c]
      PROVE  y \in G
  <2>1. e \in Datas /\ Beyond(x, e, F, u)
    BY <1>3
  <2>2. Beyond(x, y, F, u)
    BY <1>4, <2>1 DEF Beyond
  <2>3. \A i \in 1..Len(u) : y[u[i]] = e[u[i]]
    BY <1>2, <1>4
  <2>4. Flat(y, u) = Flat(e, u)
    BY <1>1, <1>4, <2>1, <2>3, FlatOn
  <2>5. QED
    BY <1>3, <1>4, <2>2, <2>4
<1>5. Open(G, F)
  BY <1>4 DEF Open
<1>6. x \in G
  <2>1. \A k : s[k] \in Allowed(s, k, sh, Files(sh))
    BY DEF Allowed
  <2>2. Beyond(x, x, F, u)
    BY DEF Beyond
  <2>3. QED
    BY <1>1, <1>3, <2>1, <2>2
<1>7. Roomy(G, F, x, u, sh, Files(sh))
  BY <1>1, <1>3 DEF Roomy
<1>8. QED
  BY <1>5, <1>6, <1>7 DEF G, F, u, sh

\* In each of these contents, read through the old table, the other paths stay okay.
LEMMA PassesMoved ==
  ASSUME NEW fat, NEW x, NEW r, NEW D, Tidy(fat, x, r, D), NEW d \in DOMAIN D, NEW n \in Names,
         NEW h, h = Target(D[d], n, d), NEW y \in Passes(fat, x, r, D, d, n, h)
  PROVE  Moved(fat, x, r, D, d, n, h, fat, y, r, Flat(y, r[d]))
<1> DEFINE F == Loose(fat, r, d, h)
           u == r[d]
           s == D[d]
           t == Flat(y, u)
           sh == Short[n]
<1>1. /\ x \in Datas /\ Heap(fat, r) /\ d \in DOMAIN r /\ d # 0 /\ u \in Seq(Clusters)
      /\ s = Flat(x, u) /\ h \in DOMAIN r
  BY TidyDirs, TargetIs
<1>2. /\ y \in Datas /\ Beyond(x, y, F, u)
      /\ \A k \in 1..(Len(u) * SlotsPer) : t[k] \in Allowed(s, k, sh, Files(sh))
  BY DEF Passes
<1>3. ASSUME NEW g \in DOMAIN r, g # d, g # h, NEW i \in 1..Len(r[g]), r[g][i] \in Clusters
      PROVE  y[r[g][i]] = x[r[g][i]]
  <2> DEFINE c == r[g][i]
  <2>1. /\ c \in Clusters /\ fat[c] # Free
        /\ \A j \in 1..Len(r[d]) : r[d][j] # c
        /\ \A j \in 1..Len(r[h]) : r[h][j] # c
    BY <1>1, <1>3, HeapOther
  <2> HIDE DEF c
  <2>2. c \notin F
    BY <2>1 DEF Loose, FreeCells
  <2>3. y[c] = x[c]
    BY <1>2, <2>1, <2>2 DEF Beyond
  <2>4. QED
    BY <2>3 DEF c
<1>4. Kept(r, x, r, y, d, h)
  BY <1>3 DEF Kept
<1>5. /\ s \in SlotSeq(Len(u)) /\ t \in SlotSeq(Len(u)) /\ Len(u) \in Nat
  BY <1>1, <1>2, FlatIs, LenProperties
<1> HIDE DEF F, u, s, t, sh
<1>6. /\ Len(s) = Len(u) * SlotsPer /\ Len(t) = Len(u) * SlotsPer /\ t \in Seq(Slots)
      /\ Len(u) * SlotsPer \in Nat
  BY <1>5, SlotSeqIs
<1>7. Near(s, t, sh, Files(sh))
  <2> DEFINE z == Len(u) * SlotsPer
  <2>1. z \in Nat /\ Len(s) = z /\ Len(t) = z
    BY <1>6
  <2>2. \A k \in 1..z : t[k] \in Allowed(s, k, sh, Files(sh))
    BY <1>2
  <2> HIDE DEF z
  <2>3. QED
    BY <2>1, <2>2 DEF Near
<1>8. QED
  BY <1>1, <1>2, <1>4, <1>6, <1>7 DEF Moved, F, u, s, t, sh

\* The contents in which every path but the one written reads what V says.
Spares(fat, V, path) ==
  {y \in Datas : \A q \in Paths : ~SameFile(q, path) => Okay(fat, y, q, V[q])}

\* On a tidy disk every path reads what V says, and path reads vals.
Stored(fat, data, path, vals, V) ==
  /\ \E r, D : Tidy(fat, data, r, D)
  /\ \A q \in Paths : Okay(fat, data, q, IF SameFile(q, path) THEN vals ELSE V[q])

\* What V says is there.
AllOkay(fat, data, V) == \A q \in Paths : Okay(fat, data, q, V[q])

\* What paths consist of, and when the installer takes two for one.
LEMMA PathIs ==
  ASSUME NEW a \in Paths, NEW b \in Paths
  PROVE  /\ a.name \in Names /\ a.dirs \in DirNames
         /\ SameFile(a, b) <=> ShortDirs(a.dirs) = ShortDirs(b.dirs) /\ Short[a.name] = Short[b.name]
BY CallsAssumption DEF DirNames, SameFile, Shortened, ShortDirs

\* p is about to write the file of path in the directory d it found.
Arrived(p, r, D, path, V) ==
  /\ p \in Parts /\ p.ok /\ p.log = <<>> /\ Tidy(p.fat, p.data, r, D)
  /\ p.got \in DOMAIN D /\ path \in Paths /\ FindDir(p.fat, p.data, path.dirs) = p.got
  /\ AllOkay(p.fat, p.data, V)

\* While write_file writes in the directory it found, the other paths stay okay.
LEMMA HereSpares ==
  ASSUME NEW p, NEW r, NEW D, NEW path, NEW V, Arrived(p, r, D, path, V),
         NEW h, h = Target(D[p.got], path.name, p.got)
  PROVE  Passes(p.fat, p.data, r, D, p.got, path.name, h) \subseteq Spares(p.fat, V, path)
<1> DEFINE d == p.got
           n == path.name
           fat == p.fat
           x == p.data
<1>1. /\ Tidy(fat, x, r, D) /\ d \in DOMAIN D /\ path \in Paths /\ FindDir(fat, x, path.dirs) = d
      /\ AllOkay(fat, x, V)
  BY DEF Arrived
<1>2. n \in Names /\ path.dirs \in DirNames
  BY <1>1, PathIs
<1> SUFFICES ASSUME NEW y \in Passes(fat, x, r, D, d, n, h) PROVE y \in Spares(fat, V, path)
  OBVIOUS
<1> DEFINE t == Flat(y, r[d])
<1>3. y \in Datas
  BY DEF Passes
<1> HIDE DEF d, n, fat, x, t
<1>4. Moved(fat, x, r, D, d, n, h, fat, y, r, t)
  BY <1>1, <1>2, PassesMoved DEF d, n, t
<1>5. ASSUME NEW q \in Paths, ~SameFile(q, path) PROVE Okay(fat, y, q, V[q])
  <2>1. /\ q.name \in Names /\ q.dirs \in DirNames
        /\ ~(ShortDirs(q.dirs) = ShortDirs(path.dirs) /\ Short[q.name] = Short[n])
    BY <1>1, <1>5, PathIs DEF n
  <2>2. Okay(fat, x, q, V[q])
    BY <1>1 DEF AllOkay
  <2> DEFINE v == V[q]
  <2>3. Okay(fat, x, q, v)
    BY <2>2
  <2> HIDE DEF v
  <2>4. path.name = n
    BY DEF n
  <2>5. Okay(fat, y, q, v)
    BY <1>1, <1>2, <1>4, <2>1, <2>3, <2>4, MovedOkay
  <2>6. QED
    BY <2>5 DEF v
<1>6. QED
  BY <1>3, <1>5 DEF Spares

\* When it has written there, the path reads the new content and the others theirs.
LEMMA HereStores ==
  ASSUME NEW p, NEW r, NEW D, NEW path, NEW V, Arrived(p, r, D, path, V),
         NEW h, h = Target(D[p.got], path.name, p.got), NEW w, NEW G, NEW F, NEW b,
         NEW vals \in Seq(Blocks), NEW q, NEW t,
         Written(w, G, F, b, r, p.data, D, p.got, h, path.name, vals, q, t)
  PROVE  Stored(w.fat, w.data, path, vals, V)
<1> DEFINE d == p.got
           n == path.name
           fat == p.fat
           x == p.data
           D2 == [D EXCEPT ![d] = t]
           fat2 == w.fat
           y == w.data
<1>1. /\ Tidy(fat, x, r, D) /\ d \in DOMAIN D /\ path \in Paths /\ FindDir(fat, x, path.dirs) = d
      /\ AllOkay(fat, x, V)
  BY DEF Arrived
<1>2. n \in Names /\ path.dirs \in DirNames
  BY <1>1, PathIs
<1>3. /\ Ready(w, q, G, F, b) /\ Tree(q, D2) /\ Held(y, q, D2)
      /\ Near(D[d], t, Short[n], Files(Short[n])) /\ Wrote(t, q, y, n, vals)
      /\ Kept(r, x, q, y, d, h)
  BY DEF Written
<1>4. w \in Parts /\ Heap(fat2, q) /\ y \in Datas
  BY <1>3, PartFacts DEF Ready
<1>5. Tidy(fat2, y, q, D2)
  BY <1>3, <1>4 DEF Tidy
<1>6. d \in DOMAIN D2 /\ D2[d] = t
  BY <1>1
<1> HIDE DEF D2, fat2, y, d, n, fat, x
<1>7. d \in DOMAIN q /\ t = Flat(y, q[d]) /\ t \in Seq(Slots) /\ d # 0
  BY <1>5, <1>6, TidyDirs
<1>8. Moved(fat, x, r, D, d, n, h, fat2, y, q, t)
  BY <1>1, <1>2, <1>3, <1>4, <1>7 DEF Moved, d, n
<1>9. Okay(fat2, y, path, vals)
  <2>1. FindDir(fat2, y, path.dirs) = d
    BY <1>1, <1>2, <1>8, MovedFind
  <2>2. DirSlots(fat2, y, d) = t
    BY <1>8, MovedDirs
  <2>3. Reads(fat2, y, t, n, vals)
    BY <1>3, <1>4, <1>7, WroteReads
  <2>4. QED
    BY <1>7, <2>1, <2>2, <2>3 DEF Okay, n
<1>10. ASSUME NEW a \in Paths
       PROVE  Okay(fat2, y, a, IF SameFile(a, path) THEN vals ELSE V[a])
  <2>1. CASE SameFile(a, path)
    <3>1. /\ a.dirs \in DirNames
          /\ ShortDirs(a.dirs) = ShortDirs(path.dirs) /\ Short[a.name] = Short[path.name]
      BY <1>1, <2>1, PathIs
    <3>2. Okay(fat2, y, a, vals)
      BY <1>2, <1>9, <3>1, SameOkay
    <3>3. QED
      BY <2>1, <3>2
  <2>2. CASE ~SameFile(a, path)
    <3>1. /\ a.name \in Names /\ a.dirs \in DirNames
          /\ ~(ShortDirs(a.dirs) = ShortDirs(path.dirs) /\ Short[a.name] = Short[n])
      BY <1>1, <2>2, PathIs DEF n
    <3> DEFINE v == V[a]
    <3>2. Okay(fat, x, a, v)
      BY <1>1 DEF AllOkay
    <3> HIDE DEF v
    <3>3. path.name = n
      BY DEF n
    <3>4. Okay(fat2, y, a, v)
      BY <1>1, <1>2, <1>8, <3>1, <3>2, <3>3, MovedOkay
    <3>5. QED
      BY <2>2, <3>4 DEF v
  <2>3. QED
    BY <2>1, <2>2
<1>11. QED
  BY <1>5, <1>10 DEF Stored, fat2, y

\* What a call is to leave: writes that spare the others and, when it returns
\* Ok, the file.
Kind(w, fat, data, path, vals, V) ==
  /\ w \in Parts /\ Trail(Spares(fat, V, path), data, w.log, w.data)
  /\ w.ok => Stored(w.fat, w.data, path, vals, V)

\* write_file in the directory it found is a call as it should be.
LEMMA HereIs ==
  ASSUME NEW p, NEW r, NEW D, NEW path, NEW V, Arrived(p, r, D, path, V),
         NEW vals \in Seq(Blocks)
  PROVE  Kind(WriteUnder(p, path.name, vals), p.fat, p.data, path, vals, V)
<1> DEFINE d == p.got
           n == path.name
           fat == p.fat
           x == p.data
           h == Target(D[d], n, d)
           G == Passes(fat, x, r, D, d, n, h)
           F == Loose(fat, r, d, h)
           w == WriteUnder(p, n, vals)
<1>1. /\ p \in Parts /\ p.ok /\ p.log = <<>> /\ Tidy(fat, x, r, D) /\ d \in DOMAIN D
      /\ path \in Paths
  BY DEF Arrived
<1>2. n \in Names
  BY <1>1, PathIs
<1>3. /\ x \in Datas /\ Heap(fat, r) /\ Tree(r, D) /\ d \in DOMAIN r /\ d # 0 /\ Held(x, r, D)
  BY <1>1, TidyDirs DEF Tidy
<1>4. h \in DOMAIN r
  BY <1>1, <1>2, TargetIs
<1>5. Open(G, F) /\ x \in G /\ Roomy(G, F, x, r[d], Short[n], Files(Short[n]))
  BY <1>1, <1>4, PassesOpen
<1>6. /\ h # d => RunIn(r[h], F)
      /\ \A c \in Clusters : fat[c] = Free => c \in F
  BY <1>3, <1>4, LooseApart
<1> HIDE DEF G, F, h
<1>7. Trail(G, x, p.log, p.data)
  BY <1>1, <1>5, TrailNone
<1>8. Ready(p, r, G, F, x)
  BY <1>1, <1>3, <1>5, <1>6, <1>7 DEF Ready
<1>9. Working(p, r, G, F, x, D, d, n, h)
  BY <1>1, <1>2, <1>3, <1>5, <1>6, <1>8 DEF Working
<1>10. d = p.got /\ h = Target(D[d], n, d)
  BY DEF h
<1> HIDE DEF d, n, x, fat, w
<1>11. /\ Outcome(w, G, x)
       /\ w.ok => \E q, t : Written(w, G, F, x, r, p.data, D, d, h, n, vals, q, t)
  BY <1>9, <1>10, WriteUnderIs DEF w
<1>12. G \subseteq Spares(fat, V, path)
  BY <1>10, HereSpares DEF G, d, n, x, fat
<1>13. w \in Parts /\ Trail(Spares(fat, V, path), x, w.log, w.data)
  BY <1>11, <1>12, TrailMono DEF Outcome
<1>14. ASSUME w.ok PROVE Stored(w.fat, w.data, path, vals, V)
  <2>1. PICK q, t : Written(w, G, F, x, r, p.data, D, d, h, n, vals, q, t)
    BY <1>11, <1>14
  <2>2. QED
    BY <1>10, <2>1, HereStores DEF d, n
<1>15. QED
  BY <1>13, <1>14 DEF Kind, w, n, fat, x

-----------------------------------------------------------------------------
(* The contents on the way when a directory is created. *)

\* The chain at a free cluster is that cluster.
LEMMA FreeChainIs ==
  ASSUME NEW fat \in Fats, NEW c \in Clusters, fat[c] = Free
  PROVE  Chain(fat, c) = <<c>> /\ <<c>> \in Seq(Clusters)
<1> DEFINE s == <<c>>
<1>1. s \in Seq(Clusters) /\ Len(s) = 1 /\ s[1] = c
  OBVIOUS
<1>2. fat[c] \notin Clusters /\ 1 <= MaxCluster
  BY CellFacts DEF Clusters, Free
<1> HIDE DEF s
<1>3. \A i \in 1..(Len(s) - 1) : fat[s[i]] = s[i + 1]
  BY <1>1
<1>4. Chain(fat, s[1]) = s
  <2>1. Len(s) > 0 /\ Len(s) <= MaxCluster
    BY <1>1, <1>2
  <2>2. fat[s[Len(s)]] \notin Clusters
    BY <1>1, <1>2
  <2>3. s \in Seq(Clusters)
    BY <1>1
  <2>4. QED
    BY <1>3, <2>1, <2>2, <2>3, ChainIs
<1>5. QED
  BY <1>1, <1>4 DEF s

\* The slots of a directory in one cluster.
LEMMA FlatOne ==
  ASSUME NEW x \in Datas, NEW c \in Clusters
  PROVE  /\ Flat(x, <<c>>) \in Seq(Slots) /\ Len(Flat(x, <<c>>)) = SlotsPer
         /\ \A k \in 1..SlotsPer : Flat(x, <<c>>)[k] = x[c][k]
<1> DEFINE s == <<c>>
<1>1. s \in Seq(Clusters) /\ Len(s) = 1 /\ s[1] = c
  OBVIOUS
<1> HIDE DEF s
<1>2. /\ Flat(x, s) \in SlotSeq(1)
      /\ \A i \in 1..1, j \in 1..SlotsPer : Flat(x, s)[At(i, j)] = x[s[i]][j]
  BY <1>1, FlatIs
<1>3. Flat(x, s) \in Seq(Slots) /\ Len(Flat(x, s)) = 1 * SlotsPer
  BY <1>2, SlotSeqIs
<1>4. SlotsPer \in Nat
  BY SlotCount
<1>5. 1 * SlotsPer = SlotsPer
  BY <1>4
<1>6. \A j \in 1..SlotsPer : At(1, j) = j
  BY <1>4 DEF At
<1>7. \A k \in 1..SlotsPer : Flat(x, s)[k] = x[c][k]
  BY <1>1, <1>2, <1>6
<1>8. QED
  BY <1>3, <1>5, <1>7 DEF s

\* The only entries in s are those every directory has.
Clean(s) == \A k \in 1..Len(s) : s[k].kind = "entry" => s[k].short \in {".", ".."}

\* A directory with . and .. only has no entry of a file and no name in it.
LEMMA CleanIs ==
  ASSUME NEW s \in Seq(Slots), Clean(s)
  PROVE  /\ \A k \in 1..Len(s) : ~Real(s[k])
         /\ \A n \in Names : Lookup(s, n) = 0
<1>1. \A k \in 1..Len(s) : ~Real(s[k])
  BY DEF Clean, Real
<1>2. ASSUME NEW n \in Names, Lookup(s, n) # 0 PROVE FALSE
  <2> DEFINE k == Lookup(s, n)
  <2>1. k \in 0..Len(s) /\ k # 0 /\ Hit(s[k], n) /\ Len(s) \in Nat
    BY <1>2, LookupIs, LenProperties
  <2> HIDE DEF k
  <2>2. k \in 1..Len(s)
    BY <2>1
  <2>3. s[k].short \in {".", ".."} /\ s[k].short = Short[n]
    BY <2>1, <2>2 DEF Clean, Hit
  <2>4. QED
    BY <2>3, LfnIs
<1>3. QED
  BY <1>1, <1>2

\* The first slots of a new directory are . and .. only.
LEMMA DotsIs ==
  ASSUME NEW c \in Clusters
  PROVE  /\ Dots(c) \in Blocks
         /\ \A k \in 1..SlotsPer : Dots(c)[k].kind = "entry" => Dots(c)[k].short \in {".", ".."}
<1> DEFINE z == TRUE
           one == Entry(".", c, 0, z)
           two == Entry("..", 0, 0, z)
<1>1. z \in BOOLEAN /\ {".", ".."} \subseteq Shorts /\ c \in Cells /\ 0 \in Cells
  BY CellFacts DEF Shorts
<1> HIDE DEF z
<1>2. one \in Slots /\ one.short = "."
  BY <1>1, EntryIs
<1>3. two \in Slots /\ two.short = ".."
  BY <1>1, EntryIs
<1>4. Dots(c) = [Blank EXCEPT ![1] = one, ![2] = two]
  BY DEF Dots, z
<1>5. Blank \in Blocks /\ SlotsPer \in Nat /\ SlotsPer >= 2
  BY BlankIs, SlotCount
<1> HIDE DEF one, two
<1>6. Dots(c) \in Blocks
  BY <1>2, <1>3, <1>4, <1>5 DEF Blocks
<1>7. ASSUME NEW k \in 1..SlotsPer, Dots(c)[k].kind = "entry"
      PROVE  Dots(c)[k].short \in {".", ".."}
  <2>1. Dots(c)[k] = IF k = 2 THEN two ELSE IF k = 1 THEN one ELSE Blank[k]
    BY <1>4, <1>5 DEF Blocks
  <2>2. Blank[k].kind # "entry"
    BY DEF Blank, Zero
  <2>3. QED
    BY <1>2, <1>3, <1>7, <2>1, <2>2
<1>8. QED
  BY <1>6, <1>7

\* The contents before the entry of directory n, in cluster c, is put in the
\* root, and those after that.
Before(fat, x) == {y \in Datas : Beyond(x, y, FreeCells(fat), <<>>)}
Building(fat, x, r, D, n, name, c) ==
  {y \in Datas :
     /\ Beyond(x, y, FreeCells(fat), r[Root])
     /\ \A k \in 1..(Len(r[Root]) * SlotsPer) :
          Flat(y, r[Root])[k] \in Allowed(D[Root], k, Short[n], {Entry(Short[n], c, 0, TRUE)})
     /\ Quiet(Flat(y, <<c>>), name)}
Creating(fat, x, r, D, n, name, c) == Before(fat, x) \cup Building(fat, x, r, D, n, name, c)

\* Until a new directory has its entry, the free clusters may hold anything.
LEMMA BeforeOpen ==
  ASSUME NEW fat, NEW x \in Datas
  PROVE  Open(Before(fat, x), FreeCells(fat)) /\ x \in Before(fat, x)
<1>1. x \in Before(fat, x)
  BY DEF Before, Beyond
<1>2. ASSUME NEW e \in Before(fat, x), NEW y \in Datas,
             \A c \in Clusters \ FreeCells(fat) : y[c] = e[c]
      PROVE  y \in Before(fat, x)
  BY <1>2 DEF Before, Beyond
<1>3. QED
  BY <1>1, <1>2 DEF Open

\* The root's clusters are not free.
LEMMA RootApart ==
  ASSUME NEW fat, NEW r, Heap(fat, r)
  PROVE  /\ r[Root] \in Seq(Clusters) /\ Root \in DOMAIN r /\ Root # 0
         /\ \A i \in 1..Len(r[Root]) : r[Root][i] \in Clusters /\ r[Root][i] \notin FreeCells(fat)
<1>1. Root \in DOMAIN r /\ Root # 0
  BY HeapFacts DEF Root
<1>2. r[Root] \in Seq(Clusters)
  BY <1>1, HeapChain
<1>3. \A i \in 1..Len(r[Root]) : r[Root][i] \in Clusters
  BY <1>1, HeapFacts
<1>4. ASSUME NEW i \in 1..Len(r[Root]) PROVE fat[r[Root][i]] # Free
  BY <1>1, <1>3, HeapOther
<1>5. QED
  BY <1>1, <1>2, <1>3, <1>4 DEF FreeCells

\* The contents passed through while a directory is created do not depend on the
\* clusters that are still free.
LEMMA CreatingOpen ==
  ASSUME NEW fat, NEW x, NEW r, NEW D, Tidy(fat, x, r, D), NEW n, NEW name, NEW c \in FreeCells(fat)
  PROVE  Open(Creating(fat, x, r, D, n, name, c), FreeCells(fat) \ {c})
<1> DEFINE F == FreeCells(fat)
           u == r[Root]
           E == {Entry(Short[n], c, 0, TRUE)}
<1>1. x \in Datas /\ Heap(fat, r)
  BY TidyDirs
<1>2. u \in Seq(Clusters) /\ \A i \in 1..Len(u) : u[i] \in Clusters /\ u[i] \notin F
  BY <1>1, RootApart
<1>3. c \in Clusters /\ c \in F
  BY DEF FreeCells
<1>4. \A y : y \in Before(fat, x) <=> y \in Datas /\ Beyond(x, y, F, <<>>)
  BY DEF Before
<1>5. \A y : y \in Building(fat, x, r, D, n, name, c) <=>
               /\ y \in Datas /\ Beyond(x, y, F, u)
               /\ \A k \in 1..(Len(u) * SlotsPer) : Flat(y, u)[k] \in Allowed(D[Root], k, Short[n], E)
               /\ Quiet(Flat(y, <<c>>), name)
  BY DEF Building
<1> HIDE DEF F, u, E
<1>6. ASSUME NEW e \in Before(fat, x), NEW y \in Datas, \A a \in Clusters \ (F \ {c}) : y[a] = e[a]
      PROVE  y \in Before(fat, x)
  BY <1>4, <1>6 DEF Beyond
<1>7. ASSUME NEW e \in Building(fat, x, r, D, n, name, c), NEW y \in Datas,
             \A a \in Clusters \ (F \ {c}) : y[a] = e[a]
      PROVE  y \in Building(fat, x, r, D, n, name, c)
  <2>1. e \in Datas /\ Beyond(x, e, F, u)
    BY <1>5
  <2>2. Beyond(x, y, F, u)
    BY <1>7, <2>1 DEF Beyond
  <2>3. \A i \in 1..Len(u) : y[u[i]] = e[u[i]]
    BY <1>2, <1>7
  <2>4. Flat(y, u) = Flat(e, u)
    BY <1>2, <2>1, <2>3, FlatOn
  <2>5. Flat(y, <<c>>) = Flat(e, <<c>>)
    <3> DEFINE s == <<c>>
    <3>1. s \in Seq(Clusters) /\ \A i \in 1..Len(s) : s[i] = c
      BY <1>3
    <3>2. y[c] = e[c]
      BY <1>3, <1>7
    <3> HIDE DEF s
    <3>3. Flat(y, s) = Flat(e, s)
      BY <2>1, <3>1, <3>2, FlatOn
    <3>4. QED
      BY <3>3 DEF s
  <2>6. QED
    BY <1>5, <1>7, <2>2, <2>4, <2>5
<1>8. QED
  BY <1>6, <1>7 DEF Open, Creating, F

\* In each of these contents, read through the old table, the other paths stay okay.
LEMMA CreatingBuilt ==
  ASSUME NEW fat, NEW x, NEW r, NEW D, Tidy(fat, x, r, D), NEW n \in Names, NEW name,
         Lookup(D[Root], n) = 0, NEW c \in FreeCells(fat),
         NEW y \in Creating(fat, x, r, D, n, name, c)
  PROVE  Built(fat, x, r, D, n, name, c, fat, y, r, Flat(y, r[Root]))
<1> DEFINE F == FreeCells(fat)
           u == r[Root]
           s == D[Root]
           t == Flat(y, u)
           sh == Short[n]
           E == {Entry(sh, c, 0, TRUE)}
<1>1. /\ x \in Datas /\ Heap(fat, r) /\ Root \in DOMAIN D /\ s = Flat(x, u) /\ fat \in Fats
  BY TidyDirs, HeapFacts
<1>2. /\ u \in Seq(Clusters) /\ Root \in DOMAIN r
      /\ \A i \in 1..Len(u) : u[i] \in Clusters /\ u[i] \notin F
  BY <1>1, RootApart
<1>3. y \in Datas /\ Beyond(x, y, F, u)
  BY DEF Creating, Before, Building, Beyond
<1>4. ASSUME NEW g \in DOMAIN r, g # Root, NEW i \in 1..Len(r[g]), r[g][i] \in Clusters
      PROVE  y[r[g][i]] = x[r[g][i]]
  <2> DEFINE a == r[g][i]
  <2>1. a \in Clusters /\ fat[a] # Free /\ \A j \in 1..Len(u) : u[j] # a
    BY <1>1, <1>2, <1>4, HeapOther
  <2> HIDE DEF a
  <2>2. a \notin F
    BY <2>1 DEF FreeCells
  <2>3. y[a] = x[a]
    BY <1>3, <2>1, <2>2 DEF Beyond
  <2>4. QED
    BY <2>3 DEF a
<1>5. Kept(r, x, r, y, Root, Root)
  BY <1>4 DEF Kept
<1>6. s \in SlotSeq(Len(u)) /\ t \in SlotSeq(Len(u)) /\ Len(u) \in Nat
  BY <1>1, <1>2, <1>3, FlatIs, LenProperties
<1>7. c \in Clusters /\ fat[c] = Free
  BY DEF FreeCells
<1>8. DirSlots(fat, y, c) = Flat(y, <<c>>)
  <2>1. Chain(fat, c) = <<c>>
    BY <1>1, <1>7, FreeChainIs
  <2>2. DirSlots(fat, y, c) = Flat(y, Chain(fat, c))
    BY <1>3, DirType
  <2>3. QED
    BY <2>1, <2>2
<1>9. /\ \A k \in 1..(Len(u) * SlotsPer) : t[k] \in Allowed(s, k, sh, E)
      /\ Lookup(t, n) # 0 => Quiet(Flat(y, <<c>>), name)
  <2>1. CASE y \in Before(fat, x)
    <3>1. \A a \in Clusters : a \notin F => y[a] = x[a]
      BY <2>1 DEF Before, Beyond
    <3>2. \A i \in 1..Len(u) : y[u[i]] = x[u[i]]
      BY <1>2, <3>1
    <3> HIDE DEF u
    <3>3. t = s
      BY <1>1, <1>2, <1>3, <3>2, FlatOn
    <3>4. QED
      BY <3>3 DEF Allowed
  <2>2. CASE y \in Building(fat, x, r, D, n, name, c)
    BY <2>2 DEF Building
  <2>3. QED
    BY <2>1, <2>2 DEF Creating
<1> HIDE DEF u, s, t, sh, E
<1>10. /\ Len(s) = Len(u) * SlotsPer /\ Len(t) = Len(u) * SlotsPer /\ t \in Seq(Slots)
       /\ Len(u) * SlotsPer \in Nat
  BY <1>6, SlotSeqIs
<1>11. Near(s, t, sh, E)
  <2> DEFINE z == Len(u) * SlotsPer
  <2>1. z \in Nat /\ Len(s) = z /\ Len(t) = z
    BY <1>10
  <2>2. \A k \in 1..z : t[k] \in Allowed(s, k, sh, E)
    BY <1>9
  <2> HIDE DEF z
  <2>3. QED
    BY <2>1, <2>2 DEF Near
<1>12. QED
  BY <1>1, <1>3, <1>5, <1>8, <1>9, <1>10, <1>11 DEF Built, u, s, t, sh, E

\* a is p with cluster c taken for a new directory.
DirTaken(a, p, r, D, n, name, c) ==
  /\ c \in FreeCells(p.fat) /\ a.got = c
  /\ Ready(a, Fresh(r, c), Creating(p.fat, p.data, r, D, n, name, c), FreeCells(p.fat) \ {c}, p.data)
  /\ a.fat = [p.fat EXCEPT ![c] = Eoc] /\ a.data = [p.data EXCEPT ![c] = Dots(c)]

\* The new directory gets a cluster with its first slots, or there is none.
LEMMA TakeDir ==
  ASSUME NEW p \in Parts, p.ok, p.log = <<>>, NEW r, NEW D, Tidy(p.fat, p.data, r, D),
         NEW n, NEW name, NEW G, p.data \in G, Before(p.fat, p.data) \subseteq G
  PROVE  /\ Outcome(Alloc(p), G, p.data)
         /\ Alloc(p).ok => DirTaken(Put(Alloc(p), Alloc(p).got, Dots(Alloc(p).got)), p, r, D, n, name,
                                    Alloc(p).got)
<1> DEFINE fat == p.fat
           x == p.data
           H == Before(fat, x)
           F == FreeCells(fat)
           a == Alloc(p)
           c == a.got
           b == Put(a, c, Dots(c))
           q == Fresh(r, c)
           K == Creating(fat, x, r, D, n, name, c)
<1>1. x \in Datas /\ Heap(fat, r) /\ fat \in Fats
  BY TidyDirs, HeapFacts
<1>2. Open(H, F) /\ x \in H
  BY <1>1, BeforeOpen
<1>3. Ready(p, r, H, F, x)
  BY <1>1, <1>2, TrailNone DEF Ready, FreeCells
<1>4. a \in Parts /\ Trail(H, x, a.log, a.data)
  BY <1>3, AllocReady
<1>5. Trail(G, x, a.log, a.data)
  BY <1>4, TrailMono
<1>6. ASSUME a.ok PROVE DirTaken(b, p, r, D, n, name, c)
  <2>1. /\ Ready(a, q, H, F, x) /\ c \in Clusters /\ c \in F /\ fat[c] = Free
        /\ a.fat = [fat EXCEPT ![c] = Eoc] /\ a.data = [x EXCEPT ![c] = Blank]
    BY <1>3, <1>6, FreshReady
  <2> DEFINE v == Dots(c)
  <2>2. v \in Blocks
    BY <2>1, DotsIs
  <2> HIDE DEF fat, x, H, F, a, c, q, v
  <2>3. a.data \in H /\ a.data \in Datas
    BY <1>4, TrailEnds, PartFacts
  <2> DEFINE y == [a.data EXCEPT ![c] = v]
  <2>4. y \in H
    BY <1>2, <2>1, <2>2, <2>3, OpenPut
  <2> HIDE DEF y
  <2>5. /\ Put(a, c, v) = [a EXCEPT !.data = y, !.log = Append(a.log, ClusterWrite(c, v))]
        /\ Put(a, c, v) \in Parts /\ Trail(H, x, Put(a, c, v).log, Put(a, c, v).data)
    BY <1>4, <2>1, <2>2, <2>4, PutIs DEF y
  <2> DEFINE w == Put(a, c, v)
  <2>6. w.data = y /\ w.fat = a.fat /\ w.got = a.got /\ w.ok = a.ok /\ w.hint = a.hint
    BY <1>4, <2>5 DEF Parts
  <2>7. w \in Parts /\ Trail(H, x, w.log, w.data)
    BY <2>5
  <2> HIDE DEF w
  <2>8. y = [x EXCEPT ![c] = v]
    BY <1>1, <2>1 DEF Datas, y, x
  <2>9. H \subseteq K
    BY DEF Creating, H
  <2> HIDE DEF K
  <2>10. Trail(K, x, w.log, w.data)
    BY <2>7, <2>9, TrailMono
  <2>11. Open(K, F \ {c})
    BY <2>1, CreatingOpen DEF K, F, fat, x
  <2>12. ASSUME NEW d \in Clusters, w.fat[d] = Free PROVE d \in F \ {c}
    <3>1. d \in Cells /\ d # c /\ fat[d] = Free
      BY <1>1, <2>1, <2>6, <2>12, CellFacts DEF Fats, fat
    <3>2. QED
      BY <2>12, <3>1 DEF F, FreeCells
  <2>13. Heap(w.fat, q)
    BY <2>1, <2>6 DEF Ready
  <2>14. Ready(w, q, K, F \ {c}, x)
    BY <1>6, <2>6, <2>7, <2>10, <2>11, <2>12, <2>13 DEF Ready, a
  <2>15. w.got = c /\ b = w
    BY <2>6 DEF w, v, c
  <2>16. QED
    BY <2>1, <2>6, <2>8, <2>14, <2>15 DEF DirTaken, K, F, fat, x, q, v
<1>7. QED
  BY <1>4, <1>5, <1>6 DEF Outcome

\* The new directory has its slots, the root is as it was, and what the call
\* may write there fits.
DirSpread(p, r, D, n, name, c, b) ==
  LET e == Entry(Short[n], c, 0, TRUE)
      t == Added(D[Root], Lfn[n] + 1, e)
      K == Creating(p.fat, p.data, r, D, n, name, c)
  IN /\ Flat(b.data, r[Root]) = D[Root] /\ Clean(Flat(b.data, <<c>>))
     /\ Wide(K, FreeCells(p.fat) \ {c}, b.data, r[Root], t)
     /\ Near(D[Root], t, Short[n], {e}) /\ b.data \in Datas

\* Once its cluster is taken, there is room for its entry in the root.
LEMMA DirWide ==
  ASSUME NEW p, NEW r, NEW D, Tidy(p.fat, p.data, r, D), NEW n \in Names, NEW name, NEW c, NEW b,
         DirTaken(b, p, r, D, n, name, c)
  PROVE  DirSpread(p, r, D, n, name, c, b)
<1> DEFINE fat == p.fat
           x == p.data
           F == FreeCells(fat)
           u == r[Root]
           s == D[Root]
           sh == Short[n]
           e == Entry(sh, c, 0, TRUE)
           E == {e}
           K == Creating(fat, x, r, D, n, name, c)
           a == b.data
           total == Lfn[n] + 1
<1>1. /\ x \in Datas /\ Heap(fat, r) /\ Root \in DOMAIN D /\ s = Flat(x, u) /\ fat \in Fats
  BY TidyDirs, HeapFacts
<1>2. /\ u \in Seq(Clusters) /\ Root \in DOMAIN r
      /\ \A i \in 1..Len(u) : u[i] \in Clusters /\ u[i] \notin F
  BY <1>1, RootApart
<1>3. c \in F /\ c \in Clusters /\ a = [x EXCEPT ![c] = Dots(c)] /\ b \in Parts
  BY DEF DirTaken, FreeCells, Ready
<1>4. a \in Datas
  BY <1>3, PartFacts
<1>5. e \in Slots /\ total \in 1..SlotsPer
  BY <1>3, DirEntry
<1>6. Len(u) \in Nat
  BY <1>2, LenProperties
<1>7. \A y : y \in Building(fat, x, r, D, n, name, c) <=>
               /\ y \in Datas /\ Beyond(x, y, F, u)
               /\ \A k \in 1..(Len(u) * SlotsPer) : Flat(y, u)[k] \in Allowed(s, k, sh, E)
               /\ Quiet(Flat(y, <<c>>), name)
  BY DEF Building
<1>8. Building(fat, x, r, D, n, name, c) \subseteq K
  BY DEF Creating
<1> HIDE DEF fat, x, F, u, s, sh, e, E, K, a, total
<1>9. \A d \in Clusters : d # c => a[d] = x[d]
  BY <1>1, <1>3 DEF Datas
<1>10. a[c] = Dots(c)
  BY <1>1, <1>3 DEF Datas
<1>11. Flat(a, u) = s
  <2>1. \A i \in 1..Len(u) : a[u[i]] = x[u[i]]
    BY <1>2, <1>3, <1>9
  <2>2. QED
    BY <1>1, <1>2, <1>4, <2>1, FlatOn
<1>12. Clean(Flat(a, <<c>>))
  <2> DEFINE v == Flat(a, <<c>>)
  <2>1. Len(v) = SlotsPer /\ \A k \in 1..SlotsPer : v[k] = a[c][k]
    BY <1>3, <1>4, FlatOne
  <2> HIDE DEF v
  <2>2. \A k \in 1..Len(v) : v[k].kind = "entry" => v[k].short \in {".", ".."}
    BY <1>3, <1>10, <2>1, DotsIs
  <2>3. QED
    BY <2>2 DEF Clean, v
<1>13. Roomy(K, F \ {c}, a, u, sh, E)
  <2>1. ASSUME NEW y \in Datas, Beyond(a, y, F \ {c}, u),
               \A k \in 1..(Len(u) * SlotsPer) : Flat(y, u)[k] \in Allowed(Flat(a, u), k, sh, E)
        PROVE  y \in K
    <3>1. Beyond(x, y, F, u)
      BY <1>3, <1>9, <2>1 DEF Beyond
    <3>2. y[c] = a[c]
      BY <1>2, <1>3, <2>1 DEF Beyond
    <3>3. Flat(y, <<c>>) = Flat(a, <<c>>)
      <4> DEFINE z == <<c>>
      <4>1. z \in Seq(Clusters) /\ \A i \in 1..Len(z) : z[i] = c
        BY <1>3
      <4> HIDE DEF z
      <4>2. Flat(y, z) = Flat(a, z)
        BY <1>4, <2>1, <3>2, <4>1, FlatOn
      <4>3. QED
        BY <4>2 DEF z
    <3>4. Quiet(Flat(y, <<c>>), name)
      BY <1>12, <3>3 DEF Clean, Quiet
    <3>5. QED
      BY <1>7, <1>8, <1>11, <2>1, <3>1, <3>4
  <2>2. QED
    BY <2>1 DEF Roomy
<1>14. Beyond(a, a, F \ {c}, u)
  BY DEF Beyond
<1>15. s \in SlotSeq(Len(u))
  BY <1>1, <1>2, FlatIs
<1>16. e \in E
  BY DEF E
<1> DEFINE m == Len(u)
<1>17. m \in Nat /\ m = Len(u) /\ s \in SlotSeq(m)
  BY <1>6, <1>15
<1> HIDE DEF m
<1> DEFINE F1 == F \ {c}
<1>18. Roomy(K, F1, a, u, sh, E) /\ Beyond(a, a, F1, u) /\ s = Flat(a, u)
  BY <1>11, <1>13, <1>14
<1> HIDE DEF F1
<1>19. Wide(K, F1, a, u, Added(s, total, e)) /\ Near(s, Added(s, total, e), sh, E)
  BY <1>5, <1>16, <1>17, <1>18, AddedWide
<1>20. QED
  BY <1>4, <1>11, <1>12, <1>19 DEF DirSpread, fat, x, F, F1, u, s, sh, e, E, K, a, total

\* w is p with directory n in cluster c; the root has the run u.
DirPut(w, p, r, D, n, name, c, u) ==
  LET x == p.data
      e == Entry(Short[n], c, 0, TRUE)
      t == Added(D[Root], Lfn[n] + 1, e)
      v == Flat(w.data, <<c>>)
      q == [Fresh(r, c) EXCEPT ![Root] = u]
      E == NewTree(D, c, v, t)
  IN /\ Ready(w, q, Creating(p.fat, x, r, D, n, name, c), FreeCells(p.fat) \ {c}, x)
     /\ Tree(q, E) /\ Held(w.data, q, E) /\ Kept(r, x, q, w.data, Root, Root)
     /\ Clean(v) /\ v \in Seq(Slots) /\ Near(D[Root], t, Short[n], {e})

\* Its entry is put into the root.
LEMMA DirEntered ==
  ASSUME NEW p, NEW r, NEW D, Tidy(p.fat, p.data, r, D), NEW n \in Names, NEW name, NEW c, NEW b,
         DirTaken(b, p, r, D, n, name, c), Lookup(D[Root], n) = 0, NEW w, NEW u,
         Entered(w, b, Fresh(r, c), Creating(p.fat, p.data, r, D, n, name, c),
                 FreeCells(p.fat) \ {c}, p.data, Root, u,
                 Added(D[Root], Lfn[n] + 1, Entry(Short[n], c, 0, TRUE)))
  PROVE  DirPut(w, p, r, D, n, name, c, u)
<1> DEFINE fat == p.fat
           x == p.data
           F1 == FreeCells(fat) \ {c}
           s == D[Root]
           e == Entry(Short[n], c, 0, TRUE)
           K == Creating(fat, x, r, D, n, name, c)
           total == Lfn[n] + 1
           t == Added(s, total, e)
           m == AddedAt(s, total)
           f == Fresh(r, c)
           q == [f EXCEPT ![Root] = u]
           v == Flat(w.data, <<c>>)
           E == NewTree(D, c, v, t)
<1>1. /\ x \in Datas /\ Heap(fat, r) /\ Tree(r, D) /\ Root \in DOMAIN D /\ s = Flat(x, r[Root])
  BY TidyDirs
<1>2. r[Root] \in Seq(Clusters) /\ Root \in DOMAIN r /\ Root # 0
  BY <1>1, RootApart
<1>3. /\ c \in Clusters /\ fat[c] = Free /\ Ready(b, f, K, F1, x)
      /\ b.data = [x EXCEPT ![c] = Dots(c)] /\ Heap(b.fat, f) /\ b \in Parts
  BY DEF DirTaken, FreeCells, Ready
<1>4. c \notin DOMAIN r /\ c # Root
  BY <1>1, <1>2, <1>3, FreshName
<1>5. DOMAIN f = DOMAIN r \cup {c} /\ f[c] = <<c>> /\ \A h \in DOMAIN r : f[h] = r[h]
  BY <1>4 DEF Fresh
<1>0. DirSpread(p, r, D, n, name, c, b)
  BY DirWide
<1>6. /\ Clean(Flat(b.data, <<c>>)) /\ Near(s, t, Short[n], {e}) /\ b.data \in Datas
  BY <1>0 DEF DirSpread
<1>7. /\ e \in Slots /\ Real(e) /\ e.cluster = c /\ e.dir = TRUE /\ total \in 1..SlotsPer
  BY <1>3, DirEntry
<1>8. s \in SlotSeq(Len(r[Root])) /\ Len(r[Root]) \in Nat
  BY <1>1, <1>2, FlatIs, LenProperties
<1>9. Entered(w, b, f, K, F1, x, Root, u, t)
  OBVIOUS
<1> HIDE DEF fat, x, F1, s, e, K, total, t, m, f
<1>10. Ready(w, q, K, F1, x) /\ Flat(w.data, u) = t /\ w.data \in Datas
  BY <1>9, PartFacts DEF Entered, Ready
<1>11. Kept(f, b.data, q, w.data, Root, Root)
  BY <1>2, <1>3, <1>5, <1>9, KeptEntered
<1>12. DOMAIN q = DOMAIN r \cup {c} /\ q[Root] = u /\ \A h \in DOMAIN f : h # Root => q[h] = f[h]
  BY <1>2, <1>5
<1> HIDE DEF q, E
<1>13. w.data[c] = b.data[c]
  <2>1. c \in DOMAIN f /\ 1 \in 1..Len(f[c]) /\ f[c][1] = c
    BY <1>5
  <2>2. QED
    BY <1>3, <1>4, <1>11, <2>1 DEF Kept
<1>14. v = Flat(b.data, <<c>>) /\ v \in Seq(Slots)
  <2> DEFINE z == <<c>>
  <2>1. z \in Seq(Clusters) /\ \A i \in 1..Len(z) : z[i] = c
    BY <1>3
  <2> HIDE DEF z
  <2>2. Flat(w.data, z) = Flat(b.data, z)
    BY <1>6, <1>10, <1>13, <2>1, FlatOn
  <2>3. Flat(b.data, <<c>>) \in Seq(Slots)
    BY <1>3, <1>6, FlatOne
  <2>4. QED
    BY <2>2, <2>3 DEF z
<1> HIDE DEF v
<1>15. Clean(v)
  BY <1>6, <1>14
<1>16. Kept(r, x, q, w.data, Root, Root)
  <2>1. ASSUME NEW g \in DOMAIN r, g # Root
        PROVE  /\ g \in DOMAIN q /\ q[g] = r[g]
               /\ \A i \in 1..Len(r[g]) : r[g][i] \in Clusters => w.data[r[g][i]] = x[r[g][i]]
    <3>1. g \in DOMAIN q /\ q[g] = r[g] /\ g \in DOMAIN f /\ f[g] = r[g]
      BY <1>5, <1>12, <2>1
    <3>2. ASSUME NEW i \in 1..Len(r[g]), r[g][i] \in Clusters
          PROVE  w.data[r[g][i]] = x[r[g][i]]
      <4> DEFINE d == r[g][i]
      <4>1. w.data[d] = b.data[d]
        BY <1>11, <2>1, <3>1, <3>2 DEF Kept
      <4>2. d # c
        BY <1>1, <1>3, <3>2, HeapFree
      <4>3. b.data[d] = x[d]
        BY <1>1, <1>3, <3>2, <4>2 DEF Datas
      <4>4. QED
        BY <4>1, <4>3
    <3>3. QED
      BY <3>1, <3>2
  <2>2. QED
    BY <2>1 DEF Kept
<1>17. Tree(q, E)
  <2>1. /\ t \in Seq(Slots) /\ m \in 1..Len(t) /\ t[m] = e /\ SameEntries(s, t, m)
        /\ m \in 1..Len(s) => ~Real(s[m])
    BY <1>7, <1>8, AddedSame DEF t, m
  <2>2. \A k \in 1..Len(v) : ~Real(v[k])
    BY <1>14, <1>15, CleanIs
  <2>3. \A h \in DOMAIN r : h # Root => q[h] = r[h]
    BY <1>5, <1>12
  <2>4. Real(t[m]) /\ t[m].dir = TRUE /\ c = t[m].cluster
    BY <1>7, <2>1
  <2>5. SlotPut(D[Root], t, m, c)
    BY <2>1, <2>4 DEF SlotPut, s
  <2>6. Tree(q, NewTree(D, c, v, t))
    BY <1>1, <1>3, <1>4, <1>12, <1>14, <2>2, <2>3, <2>5, TreeDir
  <2>7. QED
    BY <2>6 DEF E
<1>18. Held(w.data, q, E)
  <2>1. DOMAIN E = DOMAIN D \cup {c} /\ E[c] = v /\ E[Root] = t
        /\ \A d \in DOMAIN D : d # c /\ d # Root => E[d] = D[d]
    BY <1>1, <1>4 DEF E, NewTree
  <2>2. E[c] = Flat(w.data, q[c])
    BY <1>4, <1>5, <1>12, <2>1 DEF v
  <2>3. E[Root] = Flat(w.data, q[Root])
    BY <1>10, <1>12, <2>1
  <2>4. ASSUME NEW d \in DOMAIN D, d # c, d # Root PROVE E[d] = Flat(w.data, q[d])
    <3>1. d \in DOMAIN r /\ d # 0 /\ D[d] = Flat(x, r[d])
      BY TidyDirs DEF x
    <3>2. q[d] = r[d] /\ Flat(w.data, q[d]) = Flat(x, r[d])
      BY <1>1, <1>10, <1>16, <2>4, <3>1, KeptFlat
    <3>3. QED
      BY <2>1, <2>4, <3>1, <3>2
  <2>5. QED
    BY <2>1, <2>2, <2>3, <2>4 DEF Held
<1>19. QED
  BY <1>6, <1>10, <1>14, <1>15, <1>16, <1>17, <1>18
     DEF DirPut, fat, x, F1, s, e, K, total, t, f, q, v, E

\* The call creates directory n for path.
Making(fat, x, r, D, n, path, V) ==
  /\ Tidy(fat, x, r, D) /\ AllOkay(fat, x, V) /\ path \in Paths
  /\ path.dirs = <<n>> /\ n \in Names /\ Lookup(D[Root], n) = 0

\* What creating a directory passes through spares the other paths.
LEMMA CreatingSpares ==
  ASSUME NEW fat, NEW x, NEW r, NEW D, NEW n, NEW path, NEW V, Making(fat, x, r, D, n, path, V)
  PROVE  /\ \A c \in FreeCells(fat) :
              Creating(fat, x, r, D, n, path.name, c) \subseteq Spares(fat, V, path)
         /\ Before(fat, x) \subseteq Spares(fat, V, path)
<1>1. /\ Tidy(fat, x, r, D) /\ AllOkay(fat, x, V) /\ path \in Paths
      /\ path.dirs = <<n>> /\ n \in Names /\ Lookup(D[Root], n) = 0 /\ x \in Datas
  BY TidyDirs DEF Making
<1>2. ASSUME NEW c \in FreeCells(fat), NEW y \in Creating(fat, x, r, D, n, path.name, c)
      PROVE  y \in Spares(fat, V, path)
  <2> DEFINE name == path.name
             t == Flat(y, r[Root])
  <2>1. c \in Clusters
    BY DEF FreeCells
  <2>2. y \in Datas
    BY <1>2 DEF Creating, Before, Building
  <2>3. Built(fat, x, r, D, n, name, c, fat, y, r, t)
    BY <1>1, <1>2, CreatingBuilt
  <2> HIDE DEF t, name
  <2>4. ASSUME NEW q \in Paths, ~SameFile(q, path) PROVE Okay(fat, y, q, V[q])
    <3>1. /\ q.name \in Names /\ q.dirs \in DirNames
          /\ ~(ShortDirs(q.dirs) = ShortDirs(<<n>>) /\ Short[q.name] = Short[name])
      BY <1>1, <2>4, PathIs DEF name
    <3> DEFINE v == V[q]
    <3>2. Okay(fat, x, q, v)
      BY <1>1 DEF AllOkay
    <3> HIDE DEF v
    <3>3. Okay(fat, y, q, v)
      BY <2>1, <2>3, <3>1, <3>2, BuiltOkay
    <3>4. QED
      BY <3>3 DEF v
  <2>5. QED
    BY <2>2, <2>4 DEF Spares
<1>3. ASSUME NEW y \in Before(fat, x) PROVE y \in Spares(fat, V, path)
  <2>1. CASE FreeCells(fat) # {}
    <3>1. PICK c : c \in FreeCells(fat)
      BY <2>1
    <3>2. y \in Creating(fat, x, r, D, n, path.name, c)
      BY <1>3 DEF Creating
    <3>3. QED
      BY <1>2, <3>1, <3>2
  <2>2. CASE FreeCells(fat) = {}
    <3>1. y \in Datas /\ \A c \in Clusters : y[c] = x[c]
      BY <1>3, <2>2 DEF Before, Beyond
    <3>2. y = x
      BY <1>1, <3>1 DEF Datas
    <3>3. QED
      BY <1>1, <3>2 DEF Spares, AllOkay
  <2>3. QED
    BY <2>1, <2>2
<1>4. QED
  BY <1>2, <1>3

\* With the directory there, the call is about to create the file in it.
InDirReady(p, r, D, n, path, c, w, u) ==
  LET name == path.name
      K == Creating(p.fat, p.data, r, D, n, name, c)
      F == FreeCells(p.fat) \ {c}
      q == [Fresh(r, c) EXCEPT ![Root] = u]
      t == Added(D[Root], Lfn[n] + 1, Entry(Short[n], c, 0, TRUE))
      E == NewTree(D, c, Flat(w.data, <<c>>), t)
      z == [w EXCEPT !.got = c]
  IN /\ Working(z, q, K, F, p.data, E, c, name, c) /\ c = Target(E[c], name, c)
     /\ z.data = w.data /\ z.got = c

\* In the directory it has created, write_file is about to create its file.
LEMMA InDirWorks ==
  ASSUME NEW p, NEW r, NEW D, NEW n, NEW path, NEW V, Making(p.fat, p.data, r, D, n, path, V),
         NEW c \in FreeCells(p.fat), NEW w, NEW u, DirPut(w, p, r, D, n, path.name, c, u)
  PROVE  InDirReady(p, r, D, n, path, c, w, u)
<1> DEFINE fat == p.fat
           x == p.data
           name == path.name
           sh == Short[name]
           K == Creating(fat, x, r, D, n, name, c)
           F0 == FreeCells(fat)
           F == F0 \ {c}
           f == Fresh(r, c)
           q == [f EXCEPT ![Root] = u]
           e == Entry(Short[n], c, 0, TRUE)
           t == Added(D[Root], Lfn[n] + 1, e)
           v == Flat(w.data, <<c>>)
           E == NewTree(D, c, v, t)
           z == [w EXCEPT !.got = c]
           s == r[Root]
<1>1. /\ Tidy(fat, x, r, D) /\ name \in Names /\ n \in Names
  BY PathIs DEF Making
<1>2. /\ x \in Datas /\ Heap(fat, r) /\ Root \in DOMAIN D /\ D[Root] = Flat(x, s)
  BY <1>1, TidyDirs
<1>3. /\ s \in Seq(Clusters) /\ Root \in DOMAIN r
      /\ \A i \in 1..Len(s) : s[i] \in Clusters /\ s[i] \notin F0
  BY <1>2, RootApart
<1>4. c \in Clusters /\ fat[c] = Free /\ c \in F0 /\ c \in Cells
  BY CellFacts DEF FreeCells
<1>5. c \notin DOMAIN r /\ c # Root
  BY <1>2, <1>3, <1>4, FreshName
<1>6. /\ Ready(w, q, K, F, x) /\ Tree(q, E) /\ Held(w.data, q, E) /\ Kept(r, x, q, w.data, Root, Root)
      /\ Clean(v) /\ v \in Seq(Slots) /\ Near(D[Root], t, Short[n], {e})
  BY DEF DirPut
<1>7. q[c] = <<c>> /\ c \in DOMAIN q
  BY <1>3, <1>5 DEF Fresh
<1>8. E[c] = v /\ c \in DOMAIN E
  BY DEF NewTree
<1>9. w \in Parts /\ w.data \in Datas /\ w.data \in K
  BY <1>6, PartFacts, TrailEnds DEF Ready
<1>10. \A y : y \in Building(fat, x, r, D, n, name, c) <=>
               /\ y \in Datas /\ Beyond(x, y, F0, s)
               /\ \A k \in 1..(Len(s) * SlotsPer) : Flat(y, s)[k] \in Allowed(D[Root], k, Short[n], {e})
               /\ Quiet(Flat(y, <<c>>), name)
  BY DEF Building
<1>11. /\ Building(fat, x, r, D, n, name, c) \subseteq K
       /\ \A y \in K : y \in Before(fat, x) \/ y \in Building(fat, x, r, D, n, name, c)
  BY DEF Creating
<1>12. /\ z \in Parts /\ z.fat = w.fat /\ z.data = w.data /\ z.log = w.log /\ z.ok = w.ok /\ z.got = c
  BY <1>4, <1>9 DEF Parts
<1> HIDE DEF fat, x, name, K, F0, f, q, e, t, v, E, z, s
<1>13. Ready(z, q, K, F, x)
  BY <1>6, <1>12 DEF Ready
<1>14. Beyond(x, w.data, F0, s)
  BY <1>9, <1>10, <1>11 DEF Before, Beyond, F0
<1>15. \A k \in 1..(Len(s) * SlotsPer) : Flat(w.data, s)[k] \in Allowed(D[Root], k, Short[n], {e})
  <2>1. CASE w.data \in Before(fat, x)
    <3>1. \A a \in Clusters : a \notin F0 => w.data[a] = x[a]
      BY <2>1 DEF Before, Beyond, F0
    <3>2. \A i \in 1..Len(s) : w.data[s[i]] = x[s[i]]
      BY <1>3, <3>1
    <3>3. Flat(w.data, s) = D[Root]
      BY <1>2, <1>3, <1>9, <3>2, FlatOn
    <3>4. QED
      BY <3>3 DEF Allowed
  <2>2. CASE w.data \in Building(fat, x, r, D, n, name, c)
    BY <1>10, <2>2
  <2>3. QED
    BY <1>9, <1>11, <2>1, <2>2
<1>16. Roomy(K, F, w.data, <<c>>, sh, Files(sh))
  <2>1. ASSUME NEW y \in Datas, Beyond(w.data, y, F, <<c>>),
               \A k \in 1..(Len(<<c>>) * SlotsPer) : Flat(y, <<c>>)[k] \in Allowed(v, k, sh, Files(sh))
        PROVE  y \in K
    <3>1. \A a \in Clusters : a \notin F0 => y[a] = w.data[a]
      <4>1. \A i \in 1..Len(<<c>>) : (<<c>>)[i] = c
        OBVIOUS
      <4>2. \A a \in Clusters : a \notin F0 => a # c
        BY <1>4
      <4> DEFINE o == <<c>>
      <4>3. \A a \in Clusters : a \notin F /\ (\A i \in 1..Len(o) : o[i] # a) => y[a] = w.data[a]
        BY <2>1 DEF Beyond
      <4>4. \A i \in 1..Len(o) : o[i] = c
        BY <4>1
      <4> HIDE DEF o
      <4>5. QED
        BY <4>2, <4>3, <4>4
    <3>2. Beyond(x, y, F0, s)
      BY <1>14, <3>1 DEF Beyond
    <3>3. \A i \in 1..Len(s) : y[s[i]] = w.data[s[i]]
      BY <1>3, <3>1
    <3>4. Flat(y, s) = Flat(w.data, s)
      BY <1>3, <1>9, <2>1, <3>3, FlatOn
    <3>5. Quiet(Flat(y, <<c>>), name)
      <4> DEFINE o == Flat(y, <<c>>)
      <4>1. o \in Seq(Slots) /\ Len(o) = SlotsPer
        BY <1>4, <2>1, FlatOne
      <4>2. Len(v) = SlotsPer
        BY <1>4, <1>9, FlatOne DEF v
      <4>3. 1 * SlotsPer = SlotsPer
        BY SlotCount
      <4>4. \A k \in 1..SlotsPer : o[k] \in Allowed(v, k, sh, Files(sh))
        BY <2>1, <4>3
      <4> HIDE DEF o
      <4>5. ASSUME NEW k \in 1..Len(o), o[k].kind = "entry"
            PROVE  o[k].short \in {".", "..", Short[name]}
        <5>1. o[k] \in Allowed(v, k, sh, Files(sh)) /\ k \in 1..Len(v)
          BY <4>1, <4>2, <4>4, <4>5
        <5>2. o[k] = v[k] \/ o[k] \in {Zero, Long} \/ File(o[k], sh)
          BY <5>1 DEF Allowed, Files
        <5>3. CASE o[k] = v[k]
          BY <1>6, <4>5, <5>1, <5>3 DEF Clean
        <5>4. CASE o[k] \in {Zero, Long}
          BY <4>5, <5>4 DEF Zero, Long
        <5>5. CASE File(o[k], sh)
          BY <5>5 DEF File
        <5>6. QED
          BY <5>2, <5>3, <5>4, <5>5
      <4>6. QED
        BY <4>5 DEF Quiet, o
    <3>6. QED
      BY <1>10, <1>11, <1>15, <2>1, <3>2, <3>4, <3>5
  <2>2. v = Flat(w.data, <<c>>)
    BY DEF v
  <2>3. QED
    BY <2>1, <2>2 DEF Roomy
<1>17. c = Target(E[c], name, c)
  <2>1. Lookup(v, name) = 0
    BY <1>1, <1>6, CleanIs
  <2>2. QED
    BY <1>8, <2>1 DEF Target
<1>18. Working(z, q, K, F, x, E, c, name, c)
  BY <1>1, <1>6, <1>7, <1>8, <1>12, <1>13, <1>16 DEF Working
<1>19. QED
  BY <1>12, <1>17, <1>18 DEF InDirReady, fat, x, name, K, F0, F, f, q, e, t, v, E, z

\* In the new directory the call leaves its file only.
LEMMA NearQuiet ==
  ASSUME NEW s \in Seq(Slots), Clean(s), NEW t \in Seq(Slots), NEW name,
         Near(s, t, Short[name], Files(Short[name]))
  PROVE  Quiet(t, name)
<1> DEFINE sh == Short[name]
<1>1. /\ \A k \in 1..Len(s) : t[k] \in Allowed(s, k, sh, Files(sh))
      /\ \A k \in 1..Len(t) : k > Len(s) => t[k] \in {Zero, Long} \cup Files(sh)
      /\ Len(s) \in Nat /\ Len(t) \in Nat
  BY LenProperties DEF Near
<1>2. ASSUME NEW k \in 1..Len(t), t[k].kind = "entry"
      PROVE  t[k].short \in {".", "..", Short[name]}
  <2>1. \/ k \in 1..Len(s) /\ t[k] = s[k]
        \/ t[k] \in {Zero, Long} \/ File(t[k], sh)
    <3>1. CASE k > Len(s)
      BY <1>1, <3>1 DEF Files
    <3>2. CASE ~(k > Len(s))
      <4>1. k \in 1..Len(s)
        BY <1>1, <3>2
      <4>2. t[k] \in Allowed(s, k, sh, Files(sh))
        BY <1>1, <4>1
      <4>3. QED
        BY <4>1, <4>2 DEF Allowed, Files
    <3>3. QED
      BY <3>1, <3>2
  <2>2. CASE k \in 1..Len(s) /\ t[k] = s[k]
    BY <1>2, <2>2 DEF Clean
  <2>3. CASE t[k] \in {Zero, Long}
    BY <1>2, <2>3 DEF Zero, Long
  <2>4. CASE File(t[k], sh)
    BY <2>4 DEF File
  <2>5. QED
    BY <2>1, <2>2, <2>3, <2>4
<1>3. QED
  BY <1>2 DEF Quiet

\* Two calls, one on the root and one on a new run.
LEMMA KeptRoot ==
  ASSUME NEW r, NEW x, NEW q, NEW y, NEW s, NEW z, NEW c, c \notin DOMAIN r,
         Kept(r, x, q, y, Root, Root), Kept(q, y, s, z, c, c)
  PROVE  Kept(r, x, s, z, Root, Root)
<1>1. ASSUME NEW g \in DOMAIN r, g # Root
      PROVE  /\ g \in DOMAIN s /\ s[g] = r[g]
             /\ \A i \in 1..Len(r[g]) : r[g][i] \in Clusters => z[r[g][i]] = x[r[g][i]]
  <2>1. /\ g \in DOMAIN q /\ q[g] = r[g] /\ g # c
        /\ \A i \in 1..Len(r[g]) : r[g][i] \in Clusters => y[r[g][i]] = x[r[g][i]]
    BY <1>1 DEF Kept
  <2>2. /\ g \in DOMAIN s /\ s[g] = q[g]
        /\ \A i \in 1..Len(q[g]) : q[g][i] \in Clusters => z[q[g][i]] = y[q[g][i]]
    BY <2>1 DEF Kept
  <2>3. QED
    BY <2>1, <2>2
<1>2. QED
  BY <1>1 DEF Kept

\* What the call leaves, when it created the directory and the file.
InDir(p, r, D, n, path, c, u, w, w2, vals, q2, t2) ==
  LET q == [Fresh(r, c) EXCEPT ![Root] = u]
      t == Added(D[Root], Lfn[n] + 1, Entry(Short[n], c, 0, TRUE))
      E == NewTree(D, c, Flat(w.data, <<c>>), t)
  IN Written(w2, Creating(p.fat, p.data, r, D, n, path.name, c), FreeCells(p.fat) \ {c}, p.data,
             q, w.data, E, c, c, path.name, vals, q2, t2)

InDirEnds(p, r, D, n, path, c, w2, vals, q2, t2, t) ==
  /\ \E E : Tidy(w2.fat, w2.data, q2, E)
  /\ Built(p.fat, p.data, r, D, n, path.name, c, w2.fat, w2.data, q2, t)
  /\ Heap(w2.fat, q2) /\ DirSlots(w2.fat, w2.data, c) = t2 /\ t2 \in Seq(Slots)
  /\ Wrote(t2, q2, w2.data, path.name, vals)
  /\ DirSlots(w2.fat, w2.data, Root) = t

\* Creating directory and file keeps the other paths okay.
LEMMA InDirBuilt ==
  ASSUME NEW p, NEW r, NEW D, NEW n, NEW path, NEW V, Making(p.fat, p.data, r, D, n, path, V),
         NEW c \in FreeCells(p.fat), NEW w, NEW u, DirPut(w, p, r, D, n, path.name, c, u),
         NEW w2, NEW vals \in Seq(Blocks), NEW q2, NEW t2,
         InDir(p, r, D, n, path, c, u, w, w2, vals, q2, t2)
  PROVE  InDirEnds(p, r, D, n, path, c, w2, vals, q2, t2,
                   Added(D[Root], Lfn[n] + 1, Entry(Short[n], c, 0, TRUE)))
<1> DEFINE fat == p.fat
           x == p.data
           name == path.name
           K == Creating(fat, x, r, D, n, name, c)
           F == FreeCells(fat) \ {c}
           q == [Fresh(r, c) EXCEPT ![Root] = u]
           e == Entry(Short[n], c, 0, TRUE)
           t == Added(D[Root], Lfn[n] + 1, e)
           v == Flat(w.data, <<c>>)
           E == NewTree(D, c, v, t)
           E2 == [E EXCEPT ![c] = t2]
           y == w2.data
           fat2 == w2.fat
<1>1. /\ Tidy(fat, x, r, D) /\ n \in Names /\ Lookup(D[Root], n) = 0
  BY DEF Making
<1>2. /\ x \in Datas /\ Heap(fat, r) /\ Root \in DOMAIN D
  BY <1>1, TidyDirs
<1>3. c \in Clusters /\ fat[c] = Free
  BY DEF FreeCells
<1>4. c \notin DOMAIN r /\ Root \in DOMAIN r /\ c # Root
  BY <1>2, <1>3, FreshName, RootApart
<1>5. /\ Kept(r, x, q, w.data, Root, Root)
      /\ Clean(v) /\ v \in Seq(Slots) /\ Near(D[Root], t, Short[n], {e})
  BY DEF DirPut
<1>6. /\ Ready(w2, q2, K, F, x) /\ Tree(q2, E2) /\ Held(y, q2, E2)
      /\ Near(E[c], t2, Short[name], Files(Short[name])) /\ Wrote(t2, q2, y, name, vals)
      /\ Kept(q, w.data, q2, y, c, c)
  BY DEF InDir, Written
<1>7. E[c] = v /\ E[Root] = t /\ c \in DOMAIN E /\ Root \in DOMAIN E
  BY <1>2, <1>4 DEF NewTree
<1> HIDE DEF fat, x, name, K, F, q, e, t, v, E
<1>8. E2[c] = t2 /\ E2[Root] = t /\ c \in DOMAIN E2 /\ Root \in DOMAIN E2
  BY <1>4, <1>7
<1>9. Heap(fat2, q2) /\ y \in Datas
  BY <1>6, PartFacts DEF Ready
<1>10. Tidy(fat2, y, q2, E2)
  BY <1>6, <1>9 DEF Tidy
<1> HIDE DEF E2, y, fat2
<1>11. /\ DirSlots(fat2, y, c) = t2 /\ t2 \in Seq(Slots)
       /\ DirSlots(fat2, y, Root) = t /\ t \in Seq(Slots) /\ t = Flat(y, q2[Root])
  BY <1>8, <1>10, TidyDirs
<1>12. Quiet(t2, name)
  BY <1>5, <1>6, <1>7, <1>11, NearQuiet
<1>13. Kept(r, x, q2, y, Root, Root)
  BY <1>4, <1>5, <1>6, KeptRoot
<1>14. Built(fat, x, r, D, n, name, c, fat2, y, q2, t)
  BY <1>1, <1>5, <1>9, <1>11, <1>12, <1>13 DEF Built, e
<1>15. \E z : Tidy(fat2, y, q2, z)
  BY <1>10
<1>16. QED
  BY <1>6, <1>9, <1>11, <1>14, <1>15 DEF InDirEnds, fat, x, name, e, t, y, fat2

\* When both are created, the path reads the new content and the others theirs.
LEMMA InDirStores ==
  ASSUME NEW p, NEW r, NEW D, NEW n, NEW path, NEW V, Making(p.fat, p.data, r, D, n, path, V),
         NEW c \in FreeCells(p.fat), NEW w, NEW u, DirPut(w, p, r, D, n, path.name, c, u),
         NEW w2, NEW vals \in Seq(Blocks), NEW q2, NEW t2,
         InDir(p, r, D, n, path, c, u, w, w2, vals, q2, t2)
  PROVE  Stored(w2.fat, w2.data, path, vals, V)
<1> DEFINE fat == p.fat
           x == p.data
           name == path.name
           e == Entry(Short[n], c, 0, TRUE)
           total == Lfn[n] + 1
           t == Added(D[Root], total, e)
           y == w2.data
           fat2 == w2.fat
<1>1. /\ Tidy(fat, x, r, D) /\ AllOkay(fat, x, V) /\ path \in Paths
      /\ path.dirs = <<n>> /\ n \in Names /\ Lookup(D[Root], n) = 0
  BY DEF Making
<1>2. c \in Clusters /\ c # 0
  BY CellFacts DEF FreeCells
<1>0. InDirEnds(p, r, D, n, path, c, w2, vals, q2, t2, t)
  BY InDirBuilt
<1>3. /\ \E E : Tidy(fat2, y, q2, E)
      /\ Built(fat, x, r, D, n, name, c, fat2, y, q2, t)
      /\ Heap(fat2, q2) /\ DirSlots(fat2, y, c) = t2 /\ t2 \in Seq(Slots)
      /\ Wrote(t2, q2, y, name, vals) /\ DirSlots(fat2, y, Root) = t
  BY <1>0 DEF InDirEnds
<1>4. /\ e \in Slots /\ e.dir = TRUE /\ e.cluster = c /\ Hit(e, n) /\ total \in 1..SlotsPer
  BY <1>1, <1>2, DirEntry
<1>5. D[Root] \in SlotSeq(Len(r[Root])) /\ Len(r[Root]) \in Nat
  BY <1>1, TidyDirs, FlatIs, LenProperties
<1> DEFINE m == AddedAt(D[Root], total)
<1> HIDE DEF fat, x, name, e, total, y, fat2, m
<1>6. m # 0 /\ (Lookup(t, n) = m \/ Buried(t, n))
  <2>1. m \in 1..Len(t)
    BY <1>4, <1>5, AddedSame DEF m
  <2>2. Lookup(t, n) = m \/ Buried(t, n)
    BY <1>1, <1>4, <1>5, AddedFound DEF m
  <2>3. QED
    BY <2>1, <2>2
<1> HIDE DEF t
<1>7. Lookup(t, n) # 0 => t[Lookup(t, n)] = e
  <2>1. RootScan(D[Root], t, n, n, c)
    BY <1>2, <1>3, BuiltRoot
  <2>2. QED
    BY <2>1 DEF RootScan, e
<1>8. FindDir(fat2, y, path.dirs) = Under(t, n)
  BY <1>1, <1>3, FindUnder
<1>9. Okay(fat2, y, path, vals)
  <2>1. CASE Lookup(t, n) = 0
    <3>1. Under(t, n) = 0 /\ Buried(t, n)
      BY <1>6, <2>1 DEF Under
    <3>2. path.dirs[1] = n
      BY <1>1
    <3>3. QED
      BY <1>3, <1>8, <3>1, <3>2 DEF Okay
  <2>2. CASE Lookup(t, n) # 0
    <3>1. Under(t, n) = c
      BY <1>4, <1>7, <2>2 DEF Under
    <3>2. Reads(fat2, y, t2, name, vals)
      BY <1>3, WroteReads
    <3>3. QED
      BY <1>2, <1>3, <1>8, <3>1, <3>2 DEF Okay, name
  <2>3. QED
    BY <2>1, <2>2
<1>10. ASSUME NEW a \in Paths
       PROVE  Okay(fat2, y, a, IF SameFile(a, path) THEN vals ELSE V[a])
  <2>1. CASE SameFile(a, path)
    <3>1. /\ a.dirs \in DirNames /\ path.dirs \in DirNames
          /\ ShortDirs(a.dirs) = ShortDirs(path.dirs) /\ Short[a.name] = Short[path.name]
      BY <1>1, <2>1, PathIs
    <3>2. Okay(fat2, y, a, vals)
      BY <1>9, <3>1, SameOkay
    <3>3. QED
      BY <2>1, <3>2
  <2>2. CASE ~SameFile(a, path)
    <3>1. /\ a.name \in Names /\ a.dirs \in DirNames
          /\ ~(ShortDirs(a.dirs) = ShortDirs(<<n>>) /\ Short[a.name] = Short[name])
      BY <1>1, <2>2, PathIs DEF name
    <3> DEFINE v == V[a]
    <3>2. Okay(fat, x, a, v)
      BY <1>1 DEF AllOkay
    <3> HIDE DEF v
    <3>3. Okay(fat2, y, a, v)
      BY <1>2, <1>3, <3>1, <3>2, BuiltOkay
    <3>4. QED
      BY <2>2, <3>3 DEF v
  <2>3. QED
    BY <2>1, <2>2
<1>11. \E r2, E : Tidy(fat2, y, r2, E)
  BY <1>3
<1>12. QED
  BY <1>10, <1>11 DEF Stored, y, fat2

\* write_file writes nothing after an error of resolve_dir.
LEMMA WriteFailed ==
  ASSUME NEW p, ~p.ok, NEW n, NEW vals
  PROVE  WriteUnder(p, n, vals) = p
BY DEF WriteUnder, WriteNamed, WriteEntry

\* In the directory it created, the call writes its file.
LEMMA InDirIs ==
  ASSUME NEW p, NEW r, NEW D, NEW n, NEW path, NEW V, Making(p.fat, p.data, r, D, n, path, V),
         NEW c \in FreeCells(p.fat), NEW w, NEW u, DirPut(w, p, r, D, n, path.name, c, u),
         NEW vals \in Seq(Blocks)
  PROVE  Kind(WriteUnder([w EXCEPT !.got = c], path.name, vals), p.fat, p.data, path, vals, V)
<1> DEFINE fat == p.fat
           x == p.data
           name == path.name
           K == Creating(fat, x, r, D, n, name, c)
           F == FreeCells(fat) \ {c}
           q == [Fresh(r, c) EXCEPT ![Root] = u]
           t == Added(D[Root], Lfn[n] + 1, Entry(Short[n], c, 0, TRUE))
           E == NewTree(D, c, Flat(w.data, <<c>>), t)
           z == [w EXCEPT !.got = c]
           w2 == WriteUnder(z, name, vals)
<1>0. InDirReady(p, r, D, n, path, c, w, u)
  BY InDirWorks
<1>1. /\ Working(z, q, K, F, x, E, c, name, c) /\ c = Target(E[c], name, c)
      /\ z.data = w.data /\ z.got = c
  BY <1>0 DEF InDirReady
<1>2. K \subseteq Spares(fat, V, path)
  BY CreatingSpares
<1> HIDE DEF z, q, K, F, E
<1>3. c = z.got
  BY <1>1
<1>4. /\ Outcome(w2, K, x)
      /\ w2.ok => \E q2, t2 : Written(w2, K, F, x, q, z.data, E, c, c, name, vals, q2, t2)
  BY <1>1, <1>3, WriteUnderIs
<1> HIDE DEF w2, x, fat
<1>5. w2 \in Parts /\ Trail(Spares(fat, V, path), x, w2.log, w2.data)
  BY <1>2, <1>4, TrailMono DEF Outcome
<1>6. ASSUME w2.ok PROVE Stored(w2.fat, w2.data, path, vals, V)
  <2>1. PICK q2, t2 : Written(w2, K, F, x, q, w.data, E, c, c, name, vals, q2, t2)
    BY <1>1, <1>4, <1>6
  <2>2. InDir(p, r, D, n, path, c, u, w, w2, vals, q2, t2)
    BY <2>1 DEF InDir, K, F, x, fat, q, E
  <2>3. QED
    BY <2>2, InDirStores
<1>7. QED
  BY <1>5, <1>6 DEF Kind, w2, z, x, fat

\* write_file that has to create the directory is a call as it should be.
LEMMA MakeIs ==
  ASSUME NEW p \in Parts, p.ok, p.log = <<>>,
         NEW r, NEW D, NEW n, NEW path, NEW V, Making(p.fat, p.data, r, D, n, path, V),
         NEW vals \in Seq(Blocks)
  PROVE  Kind(WriteUnder(MakeDir(p, n), path.name, vals), p.fat, p.data, path, vals, V)
<1> DEFINE fat == p.fat
           x == p.data
           name == path.name
           G == Spares(fat, V, path)
           a == Alloc(p)
           c == a.got
           b == Put(a, c, Dots(c))
           w == AddEntry(b, Root, n, c, 0, TRUE)
           v == MakeDir(p, n)
<1>1. /\ Tidy(fat, x, r, D) /\ n \in Names /\ Lookup(D[Root], n) = 0
  BY DEF Making
<1>2. /\ x \in Datas /\ Heap(fat, r) /\ Root \in DOMAIN D
  BY <1>1, TidyDirs
<1>3. Before(fat, x) \subseteq G /\ x \in G
  <2>1. Before(fat, x) \subseteq G
    BY CreatingSpares
  <2>2. x \in Before(fat, x)
    BY <1>2, BeforeOpen
  <2>3. QED
    BY <2>1, <2>2
<1>4. /\ Outcome(a, G, x)
      /\ a.ok => DirTaken(b, p, r, D, n, name, c)
  <2> HIDE DEF G, name
  <2>1. QED
    BY <1>1, <1>3, TakeDir
<1>5. ASSUME NEW y, ~y.ok, Outcome(y, G, x) PROVE Kind(WriteUnder(y, name, vals), fat, x, path, vals, V)
  BY <1>5, WriteFailed DEF Outcome, Kind
<1>6. CASE ~a.ok
  <2>1. v = a
    BY <1>6 DEF MakeDir
  <2>2. QED
    BY <1>4, <1>5, <1>6, <2>1
<1>7. CASE a.ok
  <2> DEFINE K == Creating(fat, x, r, D, n, name, c)
             F == FreeCells(fat) \ {c}
             f == Fresh(r, c)
             e == Entry(Short[n], c, 0, TRUE)
             t == Added(D[Root], Lfn[n] + 1, e)
  <2>1. DirTaken(b, p, r, D, n, name, c) /\ v = [w EXCEPT !.got = c]
    BY <1>4, <1>7 DEF MakeDir
  <2>2. c \in FreeCells(fat) /\ c \in Clusters /\ c \in Cells /\ fat[c] = Free
        /\ Ready(b, f, K, F, x)
    BY <2>1, CellFacts DEF DirTaken, FreeCells
  <2> HIDE DEF a, b, c
  <2>3. Flat(b.data, r[Root]) = D[Root] /\ Wide(K, F, b.data, r[Root], t)
    <3>1. DirSpread(p, r, D, n, name, c, b)
      BY <1>1, <2>1, DirWide
    <3>2. QED
      BY <3>1 DEF DirSpread
  <2>4. Root \in DOMAIN r /\ r[Root] \in Seq(Clusters) /\ Root # 0
    BY <1>1, <1>2, RootApart
  <2>5. c \notin DOMAIN r /\ c # Root
    BY <1>2, <2>2, <2>4, FreshName
  <2>6. Root \in DOMAIN f /\ f[Root] = r[Root]
    BY <2>4, <2>5 DEF Fresh
  <2>7. K \subseteq G
    BY <2>2, CreatingSpares
  <2> DEFINE T == TRUE
             S == 0
  <2>8. T \in BOOLEAN /\ S \in Nat /\ e = Entry(Short[n], c, S, T) /\ Root # S
        /\ w = AddEntry(b, Root, n, c, S, T)
    BY <2>4
  <2> HIDE DEF K, F, f, G, x, fat, name
  <2> HIDE DEF T, S, w, e, v
  <2> DEFINE m == Added(Flat(b.data, f[Root]), Lfn[n] + 1, Entry(Short[n], c, S, T))
  <2>9. m = t
    BY <2>3, <2>6, <2>8
  <2>10. Wide(K, F, b.data, f[Root], m)
    BY <2>3, <2>6, <2>9
  <2>11. /\ Outcome(w, K, x)
         /\ w.ok => \E u : Entered(w, b, f, K, F, x, Root, u, m)
    BY <1>1, <2>2, <2>4, <2>6, <2>8, <2>10, AddEntryIs
  <2> HIDE DEF m
  <2>12. w \in Parts /\ Trail(G, x, w.log, w.data)
    BY <2>7, <2>11, TrailMono DEF Outcome
  <2>13. v \in Parts /\ v.ok = w.ok /\ v.log = w.log /\ v.data = w.data
    BY <2>1, <2>2, <2>12 DEF Parts
  <2>14. CASE ~w.ok
    BY <1>5, <2>12, <2>13, <2>14 DEF Outcome, v, name, fat, x
  <2>15. CASE w.ok
    <3>1. PICK u : Entered(w, b, f, K, F, x, Root, u, t)
      BY <2>9, <2>11, <2>15
    <3>2. DirPut(w, p, r, D, n, name, c, u)
      <4>1. Entered(w, b, Fresh(r, c), Creating(p.fat, p.data, r, D, n, name, c),
                    FreeCells(p.fat) \ {c}, p.data, Root, u,
                    Added(D[Root], Lfn[n] + 1, Entry(Short[n], c, 0, TRUE)))
        BY <3>1 DEF f, K, F, x, fat, e
      <4>2. QED
        BY <1>1, <2>1, <4>1, DirEntered DEF fat, x
    <3>3. Kind(WriteUnder([w EXCEPT !.got = c], path.name, vals), p.fat, p.data, path, vals, V)
      BY <2>2, <3>2, InDirIs DEF name, fat
    <3>4. QED
      BY <2>1, <3>3 DEF v
  <2>16. QED
    BY <2>14, <2>15 DEF v, name, fat, x
<1>8. QED
  BY <1>6, <1>7

\* write_file to any of the paths is a call as it should be, whether its directory
\* is there or not.
LEMMA ResolvedIs ==
  ASSUME NEW p \in Parts, p.ok, p.log = <<>>, NEW r, NEW D, Tidy(p.fat, p.data, r, D),
         NEW V, AllOkay(p.fat, p.data, V), NEW path \in Paths, NEW vals \in Seq(Blocks)
  PROVE  Kind(WriteUnder(ResolveDir(p, path.dirs), path.name, vals), p.fat, p.data, path, vals, V)
<1> DEFINE fat == p.fat
           x == p.data
           z == Start(p)
           dirs == path.dirs
           name == path.name
<1>1. /\ x \in Datas /\ Heap(fat, r) /\ Root \in DOMAIN D
      /\ DirSlots(fat, x, Root) = D[Root]
  BY TidyDirs
<1>2. Root \in Clusters /\ Root \in Cells /\ 2 \in Nat /\ Root # 0
  BY <1>1, RootApart, CellFacts, TidyDirs
<1>3. /\ z \in Parts /\ z.fat = fat /\ z.data = x /\ z.log = <<>> /\ z.ok = TRUE /\ z.got = Root
  BY <1>2 DEF Start, Parts
<1>4. name \in Names /\ dirs \in DirNames
  BY PathIs
<1> DEFINE Fine(y) == Kind(WriteUnder(y, name, vals), fat, x, path, vals, V)
<1> HIDE DEF z
<1>5. ASSUME NEW y \in Parts, y.ok, y.log = <<>>, y.fat = fat, y.data = x, y.got \in DOMAIN D,
             FindDir(fat, x, dirs) = y.got
      PROVE  Fine(y)
  <2>1. Arrived(y, r, D, path, V)
    BY <1>5 DEF Arrived
  <2>2. Kind(WriteUnder(y, path.name, vals), y.fat, y.data, path, vals, V)
    BY <2>1, HereIs
  <2>3. QED
    BY <1>5, <2>2
<1>6. CASE dirs = <<>>
  <2>1. ResolveDir(p, dirs) = z
    BY <1>6, ResolveRoot DEF z
  <2>2. FindDir(fat, x, dirs) = Root
    BY <1>6, FindRoot
  <2>3. Fine(z)
    BY <1>1, <1>3, <1>5, <2>2
  <2>4. QED
    BY <2>1, <2>3
<1>7. ASSUME NEW n \in Names, dirs = <<n>> PROVE Fine(ResolveDir(p, dirs))
  <2> DEFINE s == D[Root]
             k == Lookup(s, n)
  <2>1. ResolveDir(p, dirs) = IF k = 0 THEN MakeDir(z, n)
                              ELSE IF s[k].dir THEN [z EXCEPT !.got = s[k].cluster]
                              ELSE [z EXCEPT !.ok = FALSE]
    BY <1>1, <1>7, ResolveUnder DEF z
  <2>2. FindDir(fat, x, dirs) = Under(s, n)
    BY <1>1, <1>7, FindUnder
  <2>3. CASE k = 0
    <3>1. Making(z.fat, z.data, r, D, n, path, V)
      BY <1>3, <1>7, <2>3 DEF Making
    <3>2. Kind(WriteUnder(MakeDir(z, n), path.name, vals), z.fat, z.data, path, vals, V)
      BY <1>3, <3>1, MakeIs
    <3>3. QED
      BY <1>3, <2>1, <2>3, <3>2
  <2>4. CASE k # 0 /\ s[k].dir
    <3> DEFINE c == s[k].cluster
               y == [z EXCEPT !.got = c]
    <3>1. k \in 1..Len(s) /\ Placed(r, D, Root, s[k]) /\ Holds(D, Root, k, c)
      BY <1>1, <1>7, <2>4, TreeEntry
    <3>2. c \in DOMAIN D /\ c \in Clusters /\ c \in Cells
      <4>1. c \in DOMAIN D
        BY <2>4, <3>1 DEF Placed
      <4>2. c \in Clusters
        BY <4>1, TidyDirs
      <4>3. QED
        BY <4>1, <4>2, CellFacts
    <3>3. Under(s, n) = c
      BY <2>4 DEF Under
    <3> HIDE DEF c, s, k
    <3>4. y \in Parts /\ y.ok /\ y.log = <<>> /\ y.fat = fat /\ y.data = x /\ y.got = c
      BY <1>3, <3>2 DEF Parts
    <3>5. Fine(y)
      BY <1>5, <2>2, <3>2, <3>3, <3>4
    <3>6. QED
      BY <2>1, <2>4, <3>5 DEF c
  <2>5. CASE k # 0 /\ ~s[k].dir
    <3> DEFINE y == [z EXCEPT !.ok = FALSE]
    <3>1. y \in Parts /\ y.ok = FALSE /\ y.log = <<>> /\ y.data = x
      BY <1>3 DEF Parts
    <3>2. x \in Spares(fat, V, path)
      BY <1>1 DEF Spares, AllOkay
    <3>3. Trail(Spares(fat, V, path), x, y.log, y.data)
      BY <3>1, <3>2, TrailNone
    <3> HIDE DEF y
    <3>4. WriteUnder(y, name, vals) = y
      BY <3>1, WriteFailed
    <3>5. Fine(y)
      BY <3>1, <3>3, <3>4 DEF Kind
    <3>6. QED
      BY <2>1, <2>5, <3>5 DEF y
  <2>6. QED
    BY <2>3, <2>4, <2>5
<1>8. QED
  BY <1>4, <1>6, <1>7 DEF DirNames

-----------------------------------------------------------------------------
(* The disk while the writes of a call land. *)

TableWrite(i, fat) == [kind |-> "fat", at |-> i, val |-> fat]
FreeCount(fat) == Cardinality({c \in Clusters : fat[c] = Free})
CountWrite(fat) == [kind |-> "free", at |-> 0, val |-> FreeCount(fat)]
Flushes(fat) == <<TableWrite(1, fat), TableWrite(2, fat), CountWrite(fat)>>
Writes == ClusterWrites \cup [kind : {"fat"}, at : 1..2, val : Fats]
                        \cup [kind : {"free"}, at : {0}, val : Nat]
Opened == [fat : Fats, data : Datas, log : Seq(Writes), hint : Nat, got : Cells, ok : BOOLEAN]

\* The first write of a log of two parts is the first one of the first part.
LEMMA ConcatNext ==
  ASSUME NEW S, NEW l \in Seq(S), l # <<>>, NEW m \in Seq(S)
  PROVE  /\ l \o m # <<>> /\ Head(l \o m) = l[1] /\ Tail(l \o m) = Tail(l) \o m
         /\ Len(l \o m) = Len(l) + Len(m) /\ Tail(l) \in Seq(S)
<1> DEFINE a == l \o m
           b == Tail(l)
           e == b \o m
           f == Tail(a)
<1>1. /\ a \in Seq(S) /\ Len(a) = Len(l) + Len(m) /\ Len(l) \in Nat /\ Len(m) \in Nat
      /\ \A i \in 1..Len(a) : a[i] = IF i <= Len(l) THEN l[i] ELSE m[i - Len(l)]
  BY ConcatProperties, LenProperties
<1>2. Len(l) > 0
  BY <1>1, EmptySeq
<1>3. b \in Seq(S) /\ Len(b) = Len(l) - 1 /\ \A i \in 1..Len(b) : b[i] = l[i + 1]
  BY HeadTailProperties
<1>4. /\ e \in Seq(S) /\ Len(e) = Len(b) + Len(m)
      /\ \A i \in 1..Len(e) : e[i] = IF i <= Len(b) THEN b[i] ELSE m[i - Len(b)]
  BY <1>3, ConcatProperties
<1>5. a # <<>>
  BY <1>1, <1>2, EmptySeq
<1> HIDE DEF a, b, e
<1>6. f \in Seq(S) /\ Len(f) = Len(a) - 1 /\ \A i \in 1..Len(f) : f[i] = a[i + 1]
  BY <1>1, <1>5, HeadTailProperties
<1>7. Head(a) = l[1]
  <2>1. Head(a) = a[1]
    BY <1>1, <1>5
  <2>2. a[1] = l[1]
    BY <1>1, <1>2
  <2>3. QED
    BY <2>1, <2>2
<1> HIDE DEF f
<1>8. ASSUME NEW i \in 1..Len(f) PROVE f[i] = e[i]
  <2>1. f[i] = a[i + 1] /\ i + 1 \in 1..Len(a) /\ i \in 1..Len(e) /\ i \in Nat
    BY <1>1, <1>3, <1>4, <1>6
  <2>2. CASE i + 1 <= Len(l)
    <3>1. i \in 1..Len(b) /\ i <= Len(b)
      BY <1>1, <1>3, <2>1, <2>2
    <3>2. QED
      BY <1>1, <1>3, <1>4, <2>1, <2>2, <3>1
  <2>3. CASE ~(i + 1 <= Len(l))
    <3>1. ~(i <= Len(b)) /\ (i + 1) - Len(l) = i - Len(b)
      BY <1>1, <1>3, <2>1, <2>3
    <3>2. a[i + 1] = m[(i + 1) - Len(l)]
      BY <1>1, <2>1, <2>3
    <3>3. e[i] = m[i - Len(b)]
      BY <1>4, <2>1, <3>1
    <3>4. QED
      BY <2>1, <3>1, <3>2, <3>3
  <2>4. QED
    BY <2>2, <2>3
<1>9. Len(f) = Len(e)
  BY <1>1, <1>3, <1>4, <1>6
<1>10. f = e
  BY <1>4, <1>6, <1>8, <1>9, SeqEqual
<1>11. QED
  BY <1>1, <1>3, <1>5, <1>7, <1>10 DEF a, b, e, f

\* The free count is a number.
LEMMA CountIs ==
  ASSUME NEW fat
  PROVE  FreeCount(fat) \in Nat
<1> DEFINE S == {c \in Clusters : fat[c] = Free}
<1>1. 2 \in Int /\ MaxCluster \in Int
  BY GeometryAssumption
<1>2. IsFiniteSet(2..MaxCluster)
  BY <1>1, FS_Interval
<1>3. IsFiniteSet(S)
  BY <1>2, FS_Subset DEF Clusters
<1>4. QED
  BY <1>3, FS_CardinalityType DEF FreeCount

\* The writes of flush_fat are writes.
LEMMA FlushesAre ==
  ASSUME NEW fat \in Fats
  PROVE  /\ TableWrite(1, fat) \in Writes /\ TableWrite(2, fat) \in Writes
         /\ CountWrite(fat) \in Writes /\ Flushes(fat) \in Seq(Writes)
         /\ <<TableWrite(2, fat), CountWrite(fat)>> \in Seq(Writes)
         /\ <<CountWrite(fat)>> \in Seq(Writes)
<1>1. /\ TableWrite(1, fat) \in Writes /\ TableWrite(2, fat) \in Writes
      /\ CountWrite(fat) \in Writes
  BY CountIs DEF TableWrite, CountWrite, Writes
<1>2. QED
  BY <1>1 DEF Flushes

\* write_file ends with the writes of flush_fat, unless it failed.
LEMMA FlushIs ==
  ASSUME NEW w \in Parts
  PROVE  LET z == FlushFat(w)
         IN /\ z \in Opened /\ z.fat = w.fat /\ z.data = w.data /\ z.ok = w.ok
            /\ z.log = w.log \o (IF w.ok THEN Flushes(w.fat) ELSE <<>>)
<1>1. w.fat \in Fats /\ w.log \in Seq(ClusterWrites) /\ w.ok \in BOOLEAN
  BY PartFacts
<1>2. w.log \in Seq(Writes) /\ w \in Opened
  <2>1. ClusterWrites \subseteq Writes
    BY DEF Writes
  <2>2. w.log \in Seq(Writes)
    BY <1>1, <2>1
  <2>3. QED
    BY <2>2 DEF Parts, Opened
<1>3. CASE ~w.ok
  <2>1. FlushFat(w) = w
    BY <1>3 DEF FlushFat
  <2>2. w.log \o <<>> = w.log
    BY <1>1, ConcatEmptySeq
  <2>3. QED
    BY <1>2, <1>3, <2>1, <2>2
<1>4. CASE w.ok
  <2> DEFINE m == w.log \o Flushes(w.fat)
             z == [w EXCEPT !.log = m]
  <2>1. FlushFat(w) = z
    BY <1>4 DEF FlushFat, Flushes, TableWrite, CountWrite, FreeCount
  <2>2. m \in Seq(Writes)
    BY <1>1, <1>2, FlushesAre, ConcatProperties
  <2> HIDE DEF m
  <2>3. z \in Opened /\ z.fat = w.fat /\ z.data = w.data /\ z.ok = w.ok /\ z.log = m
    BY <1>2, <2>2 DEF Opened
  <2>4. QED
    BY <1>4, <2>1, <2>3 DEF m
<1>5. QED
  BY <1>3, <1>4

-----------------------------------------------------------------------------
(* The inductive invariant. *)

\* The disk's files, read through table fat, are there whatever the call in
\* path did to its own.
Sparing(fat, x) == x \in Spares(fat, expected, call.path)

\* When the call has landed, the table it leaves has its file too.
Done == Stored(part.fat, part.data, call.path, Content(call), expected)

\* Between calls.
Rest ==
  /\ part.log = <<>> /\ part.ok
  /\ image.fats[1] = part.fat /\ image.fats[2] = part.fat /\ image.data = part.data
  /\ intact = {1, 2}
  /\ calls > 0 => image.free = FreeCount(part.fat)
  /\ \E r, D : Tidy(part.fat, image.data, r, D)
  /\ AllOkay(part.fat, image.data, expected)

\* The writes l to clusters are left, and the tables after them if the call went
\* well.
Left(l) ==
  /\ part.log = l \o (IF part.ok THEN Flushes(part.fat) ELSE <<>>)
  /\ 2 \in intact => image.fats[1] = image.fats[2]
  /\ Trail(Spares(image.fats[1], expected, call.path), image.data, l, part.data)
  /\ part.ok => Done
Landing == \E l : Left(l)

\* The second table is left, or only the free count.
Second ==
  /\ part.log = <<TableWrite(2, part.fat), CountWrite(part.fat)>> /\ part.ok
  /\ image.fats[1] = part.fat /\ image.data = part.data
  /\ 2 \in intact => Sparing(image.fats[2], image.data)
  /\ Done
Third ==
  /\ part.log = <<CountWrite(part.fat)>> /\ part.ok
  /\ image.fats[1] = part.fat /\ image.fats[2] = part.fat /\ image.data = part.data
  /\ intact = {1, 2} /\ Done

Typed ==
  /\ image \in Images /\ part \in Opened /\ calls \in Nat
  /\ expected = [q \in Paths |-> expected[q]]
  /\ 1 \in intact /\ intact \subseteq {1, 2}
Stage == Rest \/ (calls > 0 /\ call.path \in Paths /\ (Landing \/ Second \/ Third))
IInv == Typed /\ Stage

\* An image's parts.
LEMMA ImageIs ==
  ASSUME NEW m \in Images
  PROVE  /\ m.data \in Datas /\ m.fats \in [1..2 -> Fats] /\ m.fats[1] \in Fats /\ m.fats[2] \in Fats
         /\ m.free \in Nat
  BY DEF Images

\* An opened partition's parts.
LEMMA OpenedIs ==
  ASSUME NEW p \in Opened
  PROVE  /\ p.fat \in Fats /\ p.data \in Datas /\ p.log \in Seq(Writes) /\ p.ok \in BOOLEAN
         /\ p.log = <<>> => p \in Parts
<1>1. <<>> \in Seq(ClusterWrites)
  BY EmptySeq
<1>2. QED
  BY <1>1 DEF Opened, Parts

\* The first state is between two calls, on an image that fsck accepts.
LEMMA RestFirst ==
  ASSUME Init
  PROVE  Typed /\ Rest
<1>1. /\ image \in Images /\ image.fats[1] = image.fats[2] /\ Sound(image.fats[1], image.data)
  BY CallsAssumption DEF Init
<1>2. image.data \in Datas /\ image.fats[1] \in Fats /\ image.fats[2] \in Fats
  BY <1>1, ImageIs
<1>3. /\ part = [fat |-> image.fats[2], data |-> image.data, log |-> <<>>,
                 hint |-> 2, got |-> 0, ok |-> TRUE]
      /\ calls = 0 /\ expected = [q \in Paths |-> OnDisk(1, q)] /\ intact = {1, 2}
  BY DEF Init, OpenPartition
<1>4. <<>> \in Seq(Writes) /\ 0 \in Cells /\ 2 \in Nat
  BY EmptySeq, CellFacts
<1>5. part \in Opened /\ part.log = <<>> /\ part.ok = TRUE /\ part.fat = image.fats[1]
      /\ part.data = image.data
  BY <1>1, <1>2, <1>3, <1>4 DEF Opened
<1>6. \E r, D : Tidy(image.fats[1], image.data, r, D)
  BY <1>1, <1>2, SoundIsTidy
<1>7. ASSUME NEW q \in Paths PROVE Okay(image.fats[1], image.data, q, expected[q])
  <2>1. OnDisk(1, q) = expected[q]
    BY <1>3
  <2>2. QED
    BY <1>2, <2>1, OkayIs
<1>8. AllOkay(image.fats[1], image.data, expected)
  BY <1>7 DEF AllOkay
<1>9. expected = [q \in Paths |-> expected[q]]
  BY <1>3
<1>10. QED
  BY <1>1, <1>3, <1>5, <1>6, <1>8, <1>9 DEF Typed, Rest

\* What a call writes to its file is a sequence of blocks.
LEMMA ContentIs ==
  ASSUME NEW c, c.size \in Nat, c.tag \in Nat
  PROVE  Content(c) \in Seq(Blocks)
<1> DEFINE s == c.size
<1>1. \A i \in 1..s : Chunk(c.tag, i) \in Blocks
  <2>1. ASSUME NEW i \in 1..s PROVE Chunk(c.tag, i) \in Blocks
    <3>1. [kind |-> "data", tag |-> c.tag, part |-> i] \in Slots
      BY DEF Slots
    <3>2. QED
      BY <3>1 DEF Chunk, Blocks
  <2>2. QED
    BY <2>1
<1>2. [i \in 1..s |-> Chunk(c.tag, i)] \in Seq(Blocks)
  BY <1>1, IsASeq
<1>3. QED
  BY <1>2 DEF Content

\* write_file begins: its writes are computed and none has landed.
LEMMA WriteStep ==
  ASSUME Typed, Rest, NEW path \in Paths, NEW size \in Sizes, Write(path, size)
  PROVE  Typed' /\ Stage'
<1> DEFINE c == [path |-> path, tag |-> calls + 1, size |-> size]
           vals == Content(c)
           v == WriteUnder(ResolveDir(part, path.dirs), path.name, vals)
<1>1. /\ calls' = calls + 1 /\ call' = c /\ part' = WriteFile(part, path, c)
      /\ image' = image /\ expected' = expected /\ intact' = intact
  BY DEF Write
<1>2. image \in Images /\ part \in Opened /\ calls \in Nat /\ part \in Parts
  BY OpenedIs DEF Typed, Rest
<1>3. c.size = size /\ c.tag = calls + 1 /\ c.path = path /\ size \in Nat /\ c.tag \in Nat
  BY <1>2, CallsAssumption
<1>4. vals \in Seq(Blocks)
  BY <1>3, ContentIs
<1>5. part' = FlushFat(v)
  BY <1>1 DEF WriteFile, Content
<1> HIDE DEF c, vals
<1>6. PICK r, D : Tidy(part.fat, part.data, r, D)
  BY DEF Rest
<1>7. /\ part.ok /\ part.log = <<>> /\ AllOkay(part.fat, part.data, expected)
      /\ image.fats[1] = part.fat /\ image.fats[2] = part.fat /\ image.data = part.data
  BY DEF Rest
<1>8. Kind(v, part.fat, part.data, path, vals, expected)
  BY <1>2, <1>4, <1>6, <1>7, ResolvedIs
<1> HIDE DEF v
<1>9. /\ v \in Parts /\ Trail(Spares(part.fat, expected, path), part.data, v.log, v.data)
      /\ v.ok => Stored(v.fat, v.data, path, vals, expected)
  BY <1>8 DEF Kind
<1>10. /\ part' \in Opened /\ part'.fat = v.fat /\ part'.data = v.data /\ part'.ok = v.ok
       /\ part'.log = v.log \o (IF v.ok THEN Flushes(v.fat) ELSE <<>>)
  BY <1>5, <1>9, FlushIs
<1>11. Typed'
  BY <1>1, <1>2, <1>10 DEF Typed
<1>12. PICK l : l = v.log
  OBVIOUS
<1>13. Left(l)'
  <2>1. /\ part'.log = l \o (IF part'.ok THEN Flushes(part'.fat) ELSE <<>>)
        /\ 2 \in intact' => image'.fats[1] = image'.fats[2]
    BY <1>1, <1>7, <1>10, <1>12
  <2>2. Trail(Spares(image'.fats[1], expected', call'.path), image'.data, l, part'.data)
    BY <1>1, <1>3, <1>7, <1>9, <1>10, <1>12
  <2>3. part'.ok => Stored(part'.fat, part'.data, call'.path, Content(call'), expected')
    BY <1>1, <1>3, <1>9, <1>10 DEF vals
  <2>4. QED
    BY <2>1, <2>2, <2>3 DEF Left, Done
<1>14. calls' > 0 /\ call'.path \in Paths
  BY <1>1, <1>2, <1>3
<1>15. QED
  BY <1>11, <1>13, <1>14 DEF Stage, Landing

\* The cells of a table with a block over its end are cells of a table.
LEMMA ScrawledIs ==
  ASSUME NEW fat \in Fats
  PROVE  Scrawled(fat) \in Fats
<1>1. \A c \in DOMAIN Scrawl : Scrawl[c] \in Cells \cup {Eoc}
  BY GeometryAssumption DEF Cells, Free
<1>2. DOMAIN fat = Cells /\ \A c \in Cells : fat[c] \in Cells \cup {Eoc}
  BY DEF Fats
<1>3. QED
  BY <1>1, <1>2 DEF Scrawled, Fats

\* What the image is after a write to a cluster, astray, to a table, or of the free
\* count.
LEMMA LandIs ==
  ASSUME NEW m \in Images
  PROVE  /\ \A c \in Clusters, v \in Blocks :
              LET z == Land(m, ClusterWrite(c, v))
              IN z \in Images /\ z.data = [m.data EXCEPT ![c] = v] /\ z.fats = m.fats
         /\ \A v \in Blocks :
              LET z == Land(m, Astray(v))
              IN z \in Images /\ z.data = m.data /\ z.fats[1] = m.fats[1]
         /\ \A i \in 1..2, fat \in Fats :
              LET z == Land(m, TableWrite(i, fat))
              IN z \in Images /\ z.data = m.data /\ z.fats = [m.fats EXCEPT ![i] = fat]
         /\ \A fat : LET z == Land(m, CountWrite(fat))
                     IN /\ z \in Images /\ z.data = m.data /\ z.fats = m.fats
                        /\ z.free = FreeCount(fat)
<1>1. /\ m.data \in Datas /\ m.fats \in [1..2 -> Fats] /\ m.free \in Nat
  BY ImageIs
<1>2. ASSUME NEW c \in Clusters, NEW v \in Blocks
      PROVE  LET z == Land(m, ClusterWrite(c, v))
             IN z \in Images /\ z.data = [m.data EXCEPT ![c] = v] /\ z.fats = m.fats
  <2> DEFINE x == [m.data EXCEPT ![c] = v]
             w == ClusterWrite(c, v)
  <2>1. x \in Datas
    BY <1>1 DEF Datas
  <2>2. Land(m, w) = [m EXCEPT !.data = x]
    <3>1. w.kind = "cluster" /\ w.at = c /\ w.val = v
      BY DEF ClusterWrite
    <3>2. Land(m, w) = [m EXCEPT !.data[w.at] = w.val]
      BY <3>1 DEF Land
    <3>3. QED
      BY <3>1, <3>2
  <2> HIDE DEF x, w
  <2>3. QED
    BY <2>1, <2>2 DEF Images, x, w
<1>3. ASSUME NEW i \in 1..2, NEW fat \in Fats
      PROVE  LET z == Land(m, TableWrite(i, fat))
             IN z \in Images /\ z.data = m.data /\ z.fats = [m.fats EXCEPT ![i] = fat]
  <2> DEFINE x == [m.fats EXCEPT ![i] = fat]
             w == TableWrite(i, fat)
  <2>1. x \in [1..2 -> Fats]
    BY <1>1
  <2>2. Land(m, w) = [m EXCEPT !.fats = x]
    <3>1. w.kind = "fat" /\ w.at = i /\ w.val = fat
      BY DEF TableWrite
    <3>2. Land(m, w) = [m EXCEPT !.fats[w.at] = w.val]
      BY <3>1 DEF Land
    <3>3. QED
      BY <3>1, <3>2
  <2> HIDE DEF x, w
  <2>3. QED
    BY <2>1, <2>2 DEF Images, x, w
<1>4. ASSUME NEW fat
      PROVE  LET z == Land(m, CountWrite(fat))
             IN z \in Images /\ z.data = m.data /\ z.fats = m.fats /\ z.free = FreeCount(fat)
  <2> DEFINE x == FreeCount(fat)
             w == CountWrite(fat)
  <2>1. x \in Nat
    BY CountIs
  <2>2. Land(m, w) = [m EXCEPT !.free = x]
    <3>1. w.kind = "free" /\ w.val = x
      BY DEF CountWrite
    <3>2. Land(m, w) = [m EXCEPT !.free = w.val]
      BY <3>1 DEF Land
    <3>3. QED
      BY <3>1, <3>2
  <2> HIDE DEF x, w
  <2>3. QED
    BY <2>1, <2>2 DEF Images, x, w
<1>5. ASSUME NEW v \in Blocks
      PROVE  LET z == Land(m, Astray(v))
             IN z \in Images /\ z.data = m.data /\ z.fats[1] = m.fats[1]
  <2> DEFINE f == Scrawled(m.fats[2])
             x == [m.fats EXCEPT ![2] = f]
             w == Astray(v)
  <2>1. f \in Fats
    BY ImageIs, ScrawledIs
  <2>2. Land(m, w) = [m EXCEPT !.fats = x]
    <3>1. w.kind = "astray"
      BY DEF Astray
    <3> HIDE DEF w
    <3>2. Land(m, w) = [m EXCEPT !.fats[2] = f]
      BY <3>1 DEF Land
    <3> HIDE DEF f
    <3>3. QED
      BY <3>2
  <2> HIDE DEF f, w
  <2>3. x \in [1..2 -> Fats] /\ x[1] = m.fats[1]
    BY <1>1, <2>1
  <2> HIDE DEF x
  <2>4. QED
    BY <2>2, <2>3 DEF Images, w
<1>6. QED
  BY <1>2, <1>3, <1>4, <1>5

\* What is intact after a write.
LEMMA IntactIs ==
  ASSUME Typed, LandNext
  PROVE  /\ Head(part.log).kind = "cluster" \/ Head(part.log).kind = "free" => intact' = intact
         /\ Head(part.log).kind = "astray" => intact' = {1}
         /\ Head(part.log).kind = "fat" => intact' = intact \cup {Head(part.log).at}
  BY DEF Typed, LandNext

\* A write that lands leaves the partition in memory as it is.
LEMMA LandKeeps ==
  ASSUME Typed, LandNext
  PROVE  /\ part.log # <<>> /\ part' \in Opened /\ part'.fat = part.fat /\ part'.data = part.data
         /\ part'.ok = part.ok /\ part'.log = Tail(part.log)
         /\ image' = Land(image, Head(part.log)) /\ call' = call /\ calls' = calls
         /\ Len(part.log) # 1 \/ ~part.ok => expected' = expected
<1>1. part \in Opened /\ part.log # <<>> /\ part.log \in Seq(Writes)
  BY OpenedIs DEF Typed, LandNext, Idle
<1>2. Tail(part.log) \in Seq(Writes)
  BY <1>1, HeadTailProperties
<1>3. part' = [part EXCEPT !.log = Tail(part.log)]
  BY DEF LandNext
<1>4. /\ part' \in Opened /\ part'.fat = part.fat /\ part'.data = part.data
      /\ part'.ok = part.ok /\ part'.log = Tail(part.log)
  BY <1>1, <1>2, <1>3 DEF Opened
<1>5. ASSUME Len(part.log) # 1 \/ ~part.ok PROVE expected' = expected
  BY <1>5 DEF LandNext, Typed
<1>6. QED
  BY <1>1, <1>4, <1>5 DEF LandNext

\* The next write to a cluster lands, or after the last one the first table.
LEMMA LeftStep ==
  ASSUME Typed, calls > 0, call.path \in Paths, NEW l, Left(l), LandNext
  PROVE  Typed' /\ Stage'
<1> DEFINE m == IF part.ok THEN Flushes(part.fat) ELSE <<>>
<1>1. /\ part.log = l \o m /\ (2 \in intact => image.fats[1] = image.fats[2])
      /\ (part.ok => Done)
      /\ Trail(Spares(image.fats[1], expected, call.path), image.data, l, part.data)
  BY DEF Left
<1>2. /\ image \in Images /\ part \in Opened /\ calls \in Nat
      /\ expected = [q \in Paths |-> expected[q]]
      /\ part.fat \in Fats /\ part.ok \in BOOLEAN
  BY OpenedIs DEF Typed
<1>3. /\ part.log # <<>> /\ part' \in Opened /\ part'.fat = part.fat /\ part'.data = part.data
      /\ part'.ok = part.ok /\ part'.log = Tail(part.log)
      /\ image' = Land(image, Head(part.log)) /\ call' = call /\ calls' = calls
      /\ Len(part.log) # 1 \/ ~part.ok => expected' = expected
  BY LandKeeps
<1>4. l \in Seq(ClusterWrites) /\ l \in Seq(Writes) /\ m \in Seq(Writes) /\ Len(m) \in {0, 3}
      /\ (part.ok => Len(m) = 3)
  <2>1. l \in Seq(ClusterWrites)
    BY <1>1 DEF Trail
  <2>2. ClusterWrites \subseteq Writes
    BY DEF Writes
  <2>3. Flushes(part.fat) \in Seq(Writes) /\ Len(Flushes(part.fat)) = 3
    BY <1>2, FlushesAre DEF Flushes
  <2>4. <<>> \in Seq(Writes) /\ Len(<<>>) = 0
    BY EmptySeq
  <2>5. QED
    BY <2>1, <2>2, <2>3, <2>4
<1>5. CASE l # <<>>
  <2> HIDE DEF m
  <2>1. /\ Head(part.log) = l[1] /\ Tail(part.log) = Tail(l) \o m
        /\ Len(part.log) = Len(l) + Len(m) /\ Len(l) \in Nat \ {0}
    BY <1>1, <1>4, <1>5, ConcatNext, LenProperties, EmptySeq
  <2>2. expected' = expected
    BY <1>3, <1>4, <2>1
  <2> DEFINE G == Spares(image.fats[1], expected, call.path)
             x == image.data
  <2>3. /\ image' \in Images /\ image'.fats[1] = image.fats[1]
        /\ Trail(G, image'.data, Tail(l), part.data)
        /\ 2 \in intact' => image'.fats[1] = image'.fats[2]
        /\ 1 \in intact' /\ intact' \subseteq {1, 2}
    <3> HIDE DEF G
    <3>1. CASE \E c \in Clusters, v \in Blocks :
                 l[1] = ClusterWrite(c, v) /\ Trail(G, [x EXCEPT ![c] = v], Tail(l), part.data)
      <4>1. PICK c \in Clusters, v \in Blocks :
                   l[1] = ClusterWrite(c, v) /\ Trail(G, [x EXCEPT ![c] = v], Tail(l), part.data)
        BY <3>1
      <4>2. /\ image' \in Images /\ image'.data = [x EXCEPT ![c] = v]
            /\ image'.fats = image.fats
        BY <1>2, <1>3, <2>1, <4>1, LandIs
      <4>3. intact' = intact
        BY <2>1, <4>1, IntactIs DEF ClusterWrite
      <4>4. QED
        BY <1>1, <4>1, <4>2, <4>3 DEF Typed
    <3>2. CASE \E v \in Blocks : l[1] = Astray(v) /\ Trail(G, x, Tail(l), part.data)
      <4>1. PICK v \in Blocks : l[1] = Astray(v) /\ Trail(G, x, Tail(l), part.data)
        BY <3>2
      <4>2. image' \in Images /\ image'.data = x /\ image'.fats[1] = image.fats[1]
        BY <1>2, <1>3, <2>1, <4>1, LandIs
      <4>3. intact' = {1}
        BY <2>1, <4>1, IntactIs DEF Astray
      <4>4. QED
        BY <4>1, <4>2, <4>3
    <3>3. QED
      BY <1>1, <1>5, <3>1, <3>2, TrailNext DEF G
  <2>5. PICK k : k = Tail(l)
    OBVIOUS
  <2>6. part'.log = k \o (IF part'.ok THEN Flushes(part'.fat) ELSE <<>>)
    BY <1>3, <2>1, <2>5 DEF m
  <2>8. Trail(Spares(image'.fats[1], expected', call'.path), image'.data, k, part'.data)
    BY <1>3, <2>2, <2>3, <2>5
  <2>9. part'.ok => Done'
    BY <1>1, <1>3, <2>2 DEF Done
  <2>10. Left(k)'
    BY <2>3, <2>6, <2>8, <2>9 DEF Left
  <2>11. Typed'
    BY <1>2, <1>3, <2>2, <2>3 DEF Typed
  <2>12. QED
    BY <1>3, <2>10, <2>11 DEF Stage, Landing
<1>6. CASE l = <<>>
  <2>1. part.ok /\ part.log = Flushes(part.fat)
    <3>1. <<>> \o m = m
      BY <1>4, ConcatEmptySeq
    <3>2. part.log = m
      BY <1>1, <1>6, <3>1
    <3>3. QED
      BY <1>3, <3>2
  <2>2. /\ Head(part.log) = TableWrite(1, part.fat) /\ Len(part.log) = 3
        /\ Tail(part.log) = <<TableWrite(2, part.fat), CountWrite(part.fat)>>
    BY <2>1 DEF Flushes
  <2>3. expected' = expected
    BY <1>3, <2>2
  <2>4. /\ image' \in Images /\ image'.data = image.data
        /\ image'.fats = [image.fats EXCEPT ![1] = part.fat]
    BY <1>2, <1>3, <2>2, LandIs
  <2>5. image.fats \in [1..2 -> Fats]
    BY <1>2, ImageIs
  <2>6. image'.fats[1] = part.fat /\ image'.fats[2] = image.fats[2]
    BY <2>4, <2>5
  <2>7. /\ image.data = part.data
        /\ image.data \in Spares(image.fats[1], expected, call.path)
    BY <1>1, <1>6, TrailEnds
  <2>11. intact' = intact
    <3>1. intact' = intact \cup {1}
      BY <2>2, IntactIs DEF TableWrite
    <3>2. 1 \in intact
      BY DEF Typed
    <3>3. QED
      BY <3>1, <3>2
  <2>8. Second'
    BY <1>1, <1>3, <2>1, <2>2, <2>3, <2>4, <2>6, <2>7, <2>11 DEF Second, Sparing, Done
  <2>9. Typed'
    BY <1>2, <1>3, <2>3, <2>4, <2>11 DEF Typed
  <2>10. QED
    BY <1>3, <2>8, <2>9 DEF Stage
<1>7. QED
  BY <1>5, <1>6

\* The second table lands: both are the new one.
LEMMA SecondStep ==
  ASSUME Typed, calls > 0, call.path \in Paths, Second, LandNext
  PROVE  Typed' /\ Stage'
<1>1. /\ image \in Images /\ part \in Opened /\ calls \in Nat /\ part.fat \in Fats
      /\ expected = [q \in Paths |-> expected[q]]
  BY OpenedIs DEF Typed
<1>2. /\ part' \in Opened /\ part'.fat = part.fat /\ part'.data = part.data
      /\ part'.ok = part.ok /\ part'.log = Tail(part.log)
      /\ image' = Land(image, Head(part.log)) /\ call' = call /\ calls' = calls
      /\ Len(part.log) # 1 \/ ~part.ok => expected' = expected
  BY LandKeeps
<1>3. /\ Head(part.log) = TableWrite(2, part.fat) /\ Len(part.log) = 2
      /\ Tail(part.log) = <<CountWrite(part.fat)>>
  BY DEF Second
<1>4. /\ image' \in Images /\ image'.data = image.data
      /\ image'.fats = [image.fats EXCEPT ![2] = part.fat]
  BY <1>1, <1>2, <1>3, LandIs
<1>5. image.fats \in [1..2 -> Fats]
  BY <1>1, ImageIs
<1>6. image'.fats[1] = part.fat /\ image'.fats[2] = part.fat
  BY <1>4, <1>5 DEF Second
<1>7. expected' = expected
  BY <1>2, <1>3
<1>11. intact' = {1, 2}
  BY <1>3, IntactIs DEF TableWrite, Typed
<1>8. Third'
  BY <1>2, <1>3, <1>4, <1>6, <1>7, <1>11 DEF Second, Third, Done
<1>9. Typed'
  BY <1>1, <1>2, <1>4, <1>7, <1>11 DEF Typed
<1>10. QED
  BY <1>2, <1>8, <1>9 DEF Stage

\* The free count lands and the call returns: the disk is as between two calls.
LEMMA ThirdStep ==
  ASSUME Typed, calls > 0, call.path \in Paths, Third, LandNext
  PROVE  Typed' /\ Stage'
<1>1. /\ image \in Images /\ part \in Opened /\ calls \in Nat /\ part.fat \in Fats
  BY OpenedIs DEF Typed
<1>2. /\ part' \in Opened /\ part'.fat = part.fat /\ part'.data = part.data
      /\ part'.ok = part.ok /\ part'.log = Tail(part.log)
      /\ image' = Land(image, Head(part.log)) /\ call' = call /\ calls' = calls
  BY LandKeeps
<1>3. /\ Head(part.log) = CountWrite(part.fat) /\ Len(part.log) = 1 /\ Tail(part.log) = <<>>
      /\ part.ok
  BY DEF Third
<1>4. /\ image' \in Images /\ image'.data = image.data /\ image'.fats = image.fats
      /\ image'.free = FreeCount(part.fat)
  BY <1>1, <1>2, <1>3, LandIs
<1>5. expected' = [q \in Paths |-> IF SameFile(q, call.path) THEN Content(call) ELSE expected[q]]
  BY <1>3 DEF LandNext
<1>6. /\ \E r, D : Tidy(part.fat, part.data, r, D)
      /\ \A q \in Paths : Okay(part.fat, part.data, q,
                               IF SameFile(q, call.path) THEN Content(call) ELSE expected[q])
  BY DEF Third, Done, Stored
<1>7. AllOkay(part.fat, part.data, expected')
  BY <1>5, <1>6 DEF AllOkay
<1>8. expected' = [q \in Paths |-> expected'[q]]
  BY <1>5
<1>9. \E r, D : Tidy(part'.fat, image'.data, r, D)
  BY <1>2, <1>4, <1>6 DEF Third
<1>10. AllOkay(part'.fat, image'.data, expected')
  BY <1>2, <1>4, <1>7 DEF Third
<1>14. intact' = {1, 2}
  BY <1>3, IntactIs DEF CountWrite, Third
<1>11. Rest'
  BY <1>2, <1>3, <1>4, <1>9, <1>10, <1>14 DEF Third, Rest
<1>12. Typed'
  BY <1>1, <1>2, <1>4, <1>8, <1>14 DEF Typed
<1>13. QED
  BY <1>11, <1>12 DEF Stage

-----------------------------------------------------------------------------
(* What a tidy image shows to who walks it. *)

OfRun(r, h) == {c \in Clusters : \E i \in 1..Len(r[h]) : r[h][i] = c}

\* Walking the table from an entry's cluster visits the entry's run, and from cell 0
\* what hangs off it.
LEMMA OwnIs ==
  ASSUME NEW fat, NEW r, Heap(fat, r)
  PROVE  /\ \A h \in DOMAIN r : h # 0 => ToSet(Chain(fat, h)) = OfRun(r, h)
         /\ ToSet(Chain(fat, 0)) = {} /\ ToSet(Chain(fat, fat[0])) = OfRun(r, 0)
<1>1. /\ 0 \in DOMAIN r /\ 0 \notin Clusters /\ Eoc \notin Clusters
      /\ \A h \in DOMAIN r : /\ Len(r[h]) \in Nat \ {0} /\ r[h][1] = h
                             /\ \A i \in 1..(Len(r[h]) - 1) : fat[r[h][i]] = r[h][i + 1]
                             /\ fat[r[h][Len(r[h])]] = Eoc
                             /\ \A i \in 2..Len(r[h]) : r[h][i] \in Clusters
      /\ \A h \in DOMAIN r : h # 0 => \A i \in 1..Len(r[h]) : r[h][i] \in Clusters
  BY HeapFacts, CellFacts
<1>2. ASSUME NEW c, c \notin Clusters PROVE ToSet(Chain(fat, c)) = {}
  <2>1. Chain(fat, c) = <<>>
    BY <1>2, NoChain
  <2>2. QED
    BY <2>1 DEF ToSet
<1>3. ASSUME NEW h \in DOMAIN r, h # 0 PROVE ToSet(Chain(fat, h)) = OfRun(r, h)
  <2>1. 1 \in 1..Len(r[h]) /\ r[h][1] = h /\ r[h][1] \in Clusters
    BY <1>1, <1>3
  <2>2. ToSet(Chain(fat, r[h][1])) = RestOf(r, h, 1)
    BY <2>1, RestSet
  <2>3. RestOf(r, h, 1) = OfRun(r, h)
    BY <1>1, <1>3 DEF RestOf, OfRun
  <2>4. QED
    BY <2>1, <2>2, <2>3
<1>4. ToSet(Chain(fat, fat[0])) = OfRun(r, 0)
  <2> DEFINE s == r[0]
  <2>1. /\ Len(s) \in Nat \ {0} /\ s[1] = 0 /\ fat[s[Len(s)]] = Eoc
        /\ \A i \in 1..(Len(s) - 1) : fat[s[i]] = s[i + 1]
        /\ \A i \in 2..Len(s) : s[i] \in Clusters
    BY <1>1
  <2>2. CASE Len(s) = 1
    <3>1. fat[0] = Eoc
      BY <2>1, <2>2
    <3>2. ToSet(Chain(fat, fat[0])) = {}
      BY <1>1, <1>2, <3>1
    <3>3. OfRun(r, 0) = {}
      BY <1>1, <2>1, <2>2 DEF OfRun
    <3>4. QED
      BY <3>2, <3>3
  <2>3. CASE Len(s) # 1
    <3>1. 2 \in 1..Len(s) /\ 2 \in 2..Len(s) /\ 1 \in 1..(Len(s) - 1)
      <4> DEFINE n == Len(s)
      <4>1. n \in Nat \ {0} /\ n # 1
        BY <2>1, <2>3
      <4> HIDE DEF n
      <4>2. 2 \in 1..n /\ 2 \in 2..n /\ 1 \in 1..(n - 1)
        BY <4>1
      <4>3. QED
        BY <4>2 DEF n
    <3>2. s[2] \in Clusters /\ fat[0] = s[2]
      BY <2>1, <3>1
    <3>3. ToSet(Chain(fat, r[0][2])) = RestOf(r, 0, 2)
      BY <1>1, <3>1, <3>2, RestSet
    <3>4. ASSUME NEW c PROVE c \in RestOf(r, 0, 2) <=> c \in OfRun(r, 0)
      <4>1. c \in RestOf(r, 0, 2) <=> \E i \in 2..Len(s) : c = s[i]
        BY DEF RestOf
      <4>2. c \in OfRun(r, 0) <=> c \in Clusters /\ \E i \in 1..Len(s) : s[i] = c
        BY DEF OfRun
      <4>3. ASSUME NEW i \in 1..Len(s), s[i] \in Clusters PROVE i \in 2..Len(s)
        BY <1>1, <2>1, <4>3
      <4>4. \A i \in 2..Len(s) : i \in 1..Len(s)
        BY <2>1
      <4> HIDE DEF s
      <4>5. ASSUME c \in Clusters, NEW i \in 1..Len(s), s[i] = c PROVE \E j \in 2..Len(s) : c = s[j]
        BY <4>3, <4>5
      <4>6. QED
        BY <2>1, <4>1, <4>2, <4>4, <4>5
    <3>5. RestOf(r, 0, 2) = OfRun(r, 0)
      BY <3>4
    <3>6. QED
      BY <3>2, <3>3, <3>5
  <2>4. QED
    BY <2>2, <2>3
<1>5. QED
  BY <1>1, <1>2, <1>3, <1>4

\* The runs share no cluster, and together they are what is allocated.
LEMMA RunsPart ==
  ASSUME NEW fat, NEW r, Heap(fat, r)
  PROVE  /\ \A g, h \in DOMAIN r : g # h => OfRun(r, g) \cap OfRun(r, h) = {}
         /\ \A c \in Clusters : fat[c] # Free <=> \E h \in DOMAIN r : c \in OfRun(r, h)
         /\ \A h \in DOMAIN r : OfRun(r, h) \subseteq Clusters
<1>1. \A g, h \in DOMAIN r : \A i \in 1..Len(r[g]), j \in 1..Len(r[h]) :
        r[g][i] = r[h][j] => g = h /\ i = j
  BY HeapFacts
<1>2. \A c \in Clusters : fat[c] = Free <=> \A h \in DOMAIN r : \A i \in 1..Len(r[h]) : r[h][i] # c
  BY HeapFree
<1>3. ASSUME NEW g \in DOMAIN r, NEW h \in DOMAIN r, NEW c \in OfRun(r, g), c \in OfRun(r, h)
      PROVE  g = h
  <2>1. PICK i \in 1..Len(r[g]) : r[g][i] = c
    BY DEF OfRun
  <2>2. PICK j \in 1..Len(r[h]) : r[h][j] = c
    BY <1>3 DEF OfRun
  <2>3. QED
    BY <1>1, <2>1, <2>2
<1>4. ASSUME NEW c \in Clusters PROVE fat[c] # Free <=> \E h \in DOMAIN r : c \in OfRun(r, h)
  BY <1>2 DEF OfRun
<1>5. \A h \in DOMAIN r : OfRun(r, h) \subseteq Clusters
  BY DEF OfRun
<1>6. QED
  BY <1>3, <1>4, <1>5

\* An entry's place, among the directories that are there.
PlaceOf(fat, data, D, x) ==
  \E d \in DOMAIN D : \E k \in 1..Len(D[d]) :
    /\ x = <<d, k>> /\ Real(D[d][k]) /\ EntryAt(fat, data, x) = D[d][k]

\* The places of entries are those in the directories of the tree.
LEMMA PlacesAre ==
  ASSUME NEW fat, NEW x, NEW r, NEW D, Tidy(fat, x, r, D)
  PROVE  /\ \A y \in Places(fat, x) : PlaceOf(fat, x, D, y)
         /\ \A d \in DOMAIN D : \A k \in 1..Len(D[d]) : Real(D[d][k]) =>
              <<d, k>> \in Places(fat, x) /\ EntryAt(fat, x, <<d, k>>) = D[d][k]
<1> DEFINE S(d) == DirSlots(fat, x, d)
<1>1. /\ Tree(r, D) /\ Root \in DOMAIN D
      /\ \A e \in DOMAIN D : S(e) = D[e] /\ D[e] \in Seq(Slots)
  BY TidyDirs
<1>2. \A e \in DOMAIN D : DOMAIN D[e] = 1..Len(D[e])
  BY <1>1, LenProperties
<1>3. ASSUME NEW d PROVE d \in Dirs(fat, x) <=> d \in DOMAIN D
  <2> DEFINE s == D[Root]
  <2>1. S(Root) = s /\ DOMAIN s = 1..Len(s)
    BY <1>1, <1>2
  <2>2. d \in Dirs(fat, x) <=>
         d = Root \/ \E k \in 1..Len(s) : Real(s[k]) /\ s[k].dir /\ s[k].cluster = d
    BY <2>1 DEF Dirs, ToSet
  <2>3. \A k \in 1..Len(s) : Real(s[k]) => Placed(r, D, Root, s[k])
    BY <1>1 DEF Tree
  <2>4. d \in DOMAIN D => d = Root \/ \E k \in 1..Len(s) : Holds(D, Root, k, d) /\ s[k].dir
    BY <1>1 DEF Tree
  <2> HIDE DEF s
  <2>5. QED
    BY <1>1, <2>2, <2>3, <2>4 DEF Placed, Holds, s
<1>4. ASSUME NEW d, NEW k
      PROVE  <<d, k>> \in Places(fat, x) <=> d \in DOMAIN D /\ k \in 1..Len(D[d]) /\ Real(D[d][k])
  <2>1. <<d, k>> \in Places(fat, x) <=> d \in Dirs(fat, x) /\ k \in DOMAIN S(d) /\ Real(S(d)[k])
    BY DEF Places
  <2>2. QED
    BY <1>1, <1>2, <1>3, <2>1
<1>5. ASSUME NEW y \in Places(fat, x) PROVE \E d, k : y = <<d, k>>
  BY DEF Places
<1>6. ASSUME NEW d, NEW k PROVE EntryAt(fat, x, <<d, k>>) = S(d)[k]
  BY DEF EntryAt
<1>7. ASSUME NEW y \in Places(fat, x) PROVE PlaceOf(fat, x, D, y)
  <2>1. PICK d, k : y = <<d, k>>
    BY <1>5
  <2>2. d \in DOMAIN D /\ k \in 1..Len(D[d]) /\ Real(D[d][k])
    BY <1>4, <2>1
  <2>3. EntryAt(fat, x, y) = D[d][k]
    BY <1>1, <1>6, <2>1, <2>2
  <2>4. QED
    BY <2>1, <2>2, <2>3 DEF PlaceOf
<1>8. QED
  BY <1>1, <1>4, <1>6, <1>7

\* Every allocated cluster belongs to one entry, to the root, or hangs off cell 0.
LEMMA OwnedOnce ==
  ASSUME NEW fat, NEW data, NEW r, NEW D, Tidy(fat, data, r, D)
  PROVE  LET own(c) == ToSet(Chain(fat, c))
             stray == own(fat[0])
             ps == Places(fat, data)
             e(x) == EntryAt(fat, data, x)
             owned == own(Root) \cup UNION {own(e(x).cluster) : x \in ps}
         IN /\ \A x, y \in ps : x # y => own(e(x).cluster) \cap own(e(y).cluster) = {}
            /\ \A x \in ps : own(e(x).cluster) \cap (own(Root) \cup stray) = {}
            /\ owned \cup stray = {c \in Clusters : fat[c] # Free}
<1> DEFINE own(c) == ToSet(Chain(fat, c))
           stray == own(fat[0])
           ps == Places(fat, data)
           e(x) == EntryAt(fat, data, x)
           owned == own(Root) \cup UNION {own(e(x).cluster) : x \in ps}
<1>1. Heap(fat, r) /\ Tree(r, D) /\ Root \in DOMAIN r /\ 0 \in DOMAIN r /\ Root # 0
      /\ DOMAIN r \subseteq Cells
  BY TidyDirs, HeapFacts, RootApart
<1>2. /\ \A h \in DOMAIN r : h # 0 => own(h) = OfRun(r, h)
      /\ own(0) = {} /\ stray = OfRun(r, 0)
  BY <1>1, OwnIs
<1>3. /\ \A g, h \in DOMAIN r : g # h => OfRun(r, g) \cap OfRun(r, h) = {}
      /\ \A c \in Clusters : fat[c] # Free <=> \E h \in DOMAIN r : c \in OfRun(r, h)
      /\ \A h \in DOMAIN r : OfRun(r, h) \subseteq Clusters
  BY <1>1, RunsPart
<1>4. /\ \A x \in ps : PlaceOf(fat, data, D, x)
      /\ \A d \in DOMAIN D : \A k \in 1..Len(D[d]) : Real(D[d][k]) =>
           <<d, k>> \in ps /\ e(<<d, k>>) = D[d][k]
  BY PlacesAre
<1>5. own(Root) = OfRun(r, Root)
  BY <1>1, <1>2
<1> HIDE DEF own, stray, ps, e
<1>6. ASSUME NEW x \in ps PROVE e(x).cluster \in DOMAIN r /\ e(x).cluster # Root
  <2>1. PICK d \in DOMAIN D : \E k \in 1..Len(D[d]) :
          x = <<d, k>> /\ Real(D[d][k]) /\ e(x) = D[d][k]
    BY <1>4 DEF PlaceOf, e
  <2>2. PICK k \in 1..Len(D[d]) : x = <<d, k>> /\ Real(D[d][k]) /\ e(x) = D[d][k]
    BY <2>1
  <2>3. Placed(r, D, d, D[d][k])
    BY <1>1, <2>2 DEF Tree
  <2>4. QED
    BY <2>2, <2>3 DEF Placed
<1>7. ASSUME NEW x \in ps, NEW y \in ps, e(x).cluster = e(y).cluster, e(x).cluster # 0
      PROVE  x = y
  <2>1. PICK d \in DOMAIN D : \E k \in 1..Len(D[d]) :
          x = <<d, k>> /\ Real(D[d][k]) /\ e(x) = D[d][k]
    BY <1>4 DEF PlaceOf, e
  <2>2. PICK k \in 1..Len(D[d]) : x = <<d, k>> /\ Real(D[d][k]) /\ e(x) = D[d][k]
    BY <2>1
  <2>3. PICK g \in DOMAIN D : \E j \in 1..Len(D[g]) :
          y = <<g, j>> /\ Real(D[g][j]) /\ e(y) = D[g][j]
    BY <1>4 DEF PlaceOf, e
  <2>4. PICK j \in 1..Len(D[g]) : y = <<g, j>> /\ Real(D[g][j]) /\ e(y) = D[g][j]
    BY <2>3
  <2> DEFINE h == e(x).cluster
  <2>5. Holds(D, d, k, h) /\ Holds(D, g, j, h)
    BY <1>7, <2>2, <2>4 DEF Holds
  <2>6. h \in Clusters
    BY <1>1, <1>6, <1>7, CellFacts
  <2> HIDE DEF h
  <2>7. d = g /\ k = j
    BY <1>1, <2>5, <2>6 DEF Tree
  <2>8. QED
    BY <2>2, <2>4, <2>7
<1>8. ASSUME NEW x \in ps, NEW y \in ps, x # y
      PROVE  own(e(x).cluster) \cap own(e(y).cluster) = {}
  <2>1. CASE e(x).cluster = 0 \/ e(y).cluster = 0
    BY <1>2, <2>1
  <2>2. CASE e(x).cluster # 0 /\ e(y).cluster # 0
    <3>1. e(x).cluster # e(y).cluster
      BY <1>7, <1>8, <2>2
    <3>2. QED
      BY <1>2, <1>3, <1>6, <2>2, <3>1
  <2>3. QED
    BY <2>1, <2>2
<1>9. ASSUME NEW x \in ps PROVE own(e(x).cluster) \cap (own(Root) \cup stray) = {}
  <2>1. CASE e(x).cluster = 0
    BY <1>2, <2>1
  <2>2. CASE e(x).cluster # 0
    <3> DEFINE h == e(x).cluster
    <3>1. h \in DOMAIN r /\ h # Root /\ h # 0
      BY <1>6, <2>2
    <3> HIDE DEF h
    <3>2. OfRun(r, h) \cap OfRun(r, Root) = {} /\ OfRun(r, h) \cap OfRun(r, 0) = {}
      BY <1>1, <1>3, <3>1
    <3>3. own(h) = OfRun(r, h)
      BY <1>2, <3>1
    <3>4. own(h) \cap (own(Root) \cup stray) = {}
      BY <1>2, <1>5, <3>2, <3>3
    <3>5. QED
      BY <3>4 DEF h
  <2>3. QED
    BY <2>1, <2>2
<1>10. ASSUME NEW c PROVE c \in owned \cup stray <=> c \in Clusters /\ fat[c] # Free
  <2>1. ASSUME c \in owned \cup stray PROVE c \in Clusters /\ fat[c] # Free
    <3>1. PICK h \in DOMAIN r : c \in OfRun(r, h)
      <4>1. CASE c \in own(Root)
        BY <1>1, <1>5, <4>1
      <4>2. CASE c \in stray
        BY <1>1, <1>2, <4>2
      <4>3. ASSUME NEW x \in ps, c \in own(e(x).cluster) PROVE \E h \in DOMAIN r : c \in OfRun(r, h)
        BY <1>2, <1>6, <4>3
      <4>4. QED
        BY <2>1, <4>1, <4>2, <4>3
    <3>2. QED
      BY <1>3, <3>1
  <2>2. ASSUME c \in Clusters, fat[c] # Free PROVE c \in owned \cup stray
    <3>1. PICK h \in DOMAIN r : c \in OfRun(r, h)
      BY <1>3, <2>2
    <3>2. CASE h \in {0, Root}
      BY <1>2, <1>5, <3>1, <3>2
    <3>3. CASE h \notin {0, Root}
      <4>1. PICK d \in DOMAIN D : \E k \in 1..Len(D[d]) : Holds(D, d, k, h)
        BY <1>1, <3>1, <3>3 DEF Tree
      <4>2. PICK k \in 1..Len(D[d]) : Holds(D, d, k, h)
        BY <4>1
      <4>3. PICK x : x = <<d, k>>
        OBVIOUS
      <4>4. x \in ps /\ e(x).cluster = h
        BY <1>4, <4>2, <4>3 DEF Holds
      <4>5. c \in own(e(x).cluster)
        BY <1>2, <3>1, <3>3, <4>4
      <4>6. QED
        BY <4>4, <4>5
    <3>4. QED
      BY <3>2, <3>3
  <2>3. QED
    BY <2>1, <2>2
<1>11. owned \cup stray = {c \in Clusters : fat[c] # Free}
  BY <1>10
<1>12. QED
  BY <1>8, <1>9, <1>11 DEF own, stray, ps, e

\* A file's chain is as long as its size says, unless it has no cluster.
LEMMA SizesMatch ==
  ASSUME NEW fat, NEW data, NEW r, NEW D, Tidy(fat, data, r, D), NEW x \in Places(fat, data)
  PROVE  LET e == EntryAt(fat, data, x)
         IN e.dir \/ Len(Chain(fat, e.cluster)) = e.size \/ e.cluster = 0
<1> DEFINE e == EntryAt(fat, data, x)
<1>1. Heap(fat, r) /\ Tree(r, D)
  BY TidyDirs
<1>2. PlaceOf(fat, data, D, x)
  BY PlacesAre
<1>3. PICK d \in DOMAIN D : \E k \in 1..Len(D[d]) : Real(D[d][k]) /\ e = D[d][k]
  BY <1>2 DEF PlaceOf
<1>4. PICK k \in 1..Len(D[d]) : Real(D[d][k]) /\ e = D[d][k]
  BY <1>3
<1>5. Placed(r, D, d, e)
  BY <1>1, <1>4 DEF Tree
<1> HIDE DEF e
<1>6. ASSUME ~e.dir, e.cluster # 0 PROVE Len(Chain(fat, e.cluster)) = e.size
  BY <1>1, <1>5, <1>6, HeapChain DEF Placed
<1>7. QED
  BY <1>6 DEF e

-----------------------------------------------------------------------------
(* The theorems. *)

\* The invariant holds in the first state.
LEMMA IInvInit == Init => IInv
<1> SUFFICES ASSUME Init PROVE IInv
  OBVIOUS
<1>1. Typed /\ Rest
  BY RestFirst
<1>2. QED
  BY <1>1 DEF IInv, Stage

\* A call that went well has its tables to write until they have landed.
LEMMA OkLanding == Typed /\ part.ok /\ Landing => part.log # <<>>
<1> SUFFICES ASSUME Typed, part.ok, Landing PROVE part.log # <<>>
  OBVIOUS
<1>1. PICK l : Left(l)
  BY DEF Landing
<1>2. part.log = l \o Flushes(part.fat)
  BY <1>1 DEF Left
<1>3. l \in Seq(ClusterWrites)
  BY <1>1 DEF Left, Trail
<1>4. l \in Seq(Writes) /\ Flushes(part.fat) \in Seq(Writes) /\ Len(Flushes(part.fat)) = 3
  <2>1. ClusterWrites \subseteq Writes
    BY DEF Writes
  <2>2. part.fat \in Fats
    BY OpenedIs DEF Typed
  <2>3. Flushes(part.fat) \in Seq(Writes) /\ Len(Flushes(part.fat)) = 3
    BY <2>2, FlushesAre DEF Flushes
  <2>4. QED
    BY <1>3, <2>1, <2>3
<1> DEFINE m == Flushes(part.fat)
<1>5. Len(part.log) = Len(l) + 3 /\ Len(l) \in Nat
  <2>1. part.log = l \o m /\ m \in Seq(Writes) /\ Len(m) = 3
    BY <1>2, <1>4
  <2> HIDE DEF m
  <2>2. Len(l \o m) = Len(l) + Len(m)
    <3>1. l \in Seq(Writes) /\ m \in Seq(Writes)
      BY <1>4, <2>1
    <3>2. QED
      BY <3>1, ConcatProperties
  <2>3. Len(l) \in Nat
    BY <1>4, LenProperties
  <2>4. QED
    BY <2>1, <2>2, <2>3
<1>6. Len(part.log) # 0
  <2> DEFINE a == Len(l)
  <2>1. a \in Nat /\ Len(part.log) = a + 3
    BY <1>5
  <2> HIDE DEF a
  <2>2. a + 3 # 0
    BY <2>1
  <2>3. QED
    BY <2>1, <2>2
<1>7. Len(<<>>) = 0
  OBVIOUS
<1>8. QED
  BY <1>6, <1>7

\* A call that begins and a write that lands keep the invariant.
LEMMA IInvStep == IInv /\ [Next]_vars => IInv'
<1> SUFFICES ASSUME IInv, [Next]_vars PROVE IInv'
  OBVIOUS
<1>1. Typed /\ Stage
  BY DEF IInv
<1>2. part.ok /\ Landing => part.log # <<>>
  BY <1>1, OkLanding
<1>3. CASE \E path \in Paths, size \in Sizes : Write(path, size)
  <2>1. PICK path \in Paths, size \in Sizes : Write(path, size)
    BY <1>3
  <2>2. part.log = <<>> /\ part.ok
    BY <2>1 DEF Write, Idle
  <2>3. ~Second /\ ~Third
    BY <2>2 DEF Second, Third
  <2>4. Rest
    BY <1>1, <1>2, <2>2, <2>3 DEF Stage
  <2>5. Typed' /\ Stage'
    BY <1>1, <2>1, <2>4, WriteStep
  <2>6. QED
    BY <2>5 DEF IInv
<1>4. CASE LandNext
  <2>1. ~Rest
    BY <1>4 DEF LandNext, Idle, Rest
  <2>2. calls > 0 /\ call.path \in Paths /\ (Landing \/ Second \/ Third)
    BY <1>1, <2>1 DEF Stage
  <2>3. CASE Landing
    <3>1. PICK l : Left(l)
      BY <2>3 DEF Landing
    <3>2. Typed' /\ Stage'
      BY <1>1, <1>4, <2>2, <3>1, LeftStep
    <3>3. QED
      BY <3>2 DEF IInv
  <2>4. CASE Second
    BY <1>1, <1>4, <2>2, <2>4, SecondStep DEF IInv
  <2>5. CASE Third
    BY <1>1, <1>4, <2>2, <2>5, ThirdStep DEF IInv
  <2>6. QED
    BY <2>2, <2>3, <2>4, <2>5
<1>5. CASE UNCHANGED vars
  BY <1>1, <1>5 DEF vars, IInv, Typed, Stage, Rest, Landing, Left, Second, Third, Done, Sparing
<1>6. QED
  BY <1>3, <1>4, <1>5 DEF Next

\* The inductive invariant: between calls the partition is tidy and every path okay;
\* during one, what is left of its writes spares the other paths, and leads to a tidy
\* partition with the new file.
THEOREM Invariance == Spec => []IInv
<1>1. QED
  BY IInvInit, IInvStep, PTL DEF Spec

\* The invariant implies that a kill costs the file being written at most.
LEMMA Bystanders == IInv => KillSparesBystanders
<1> SUFFICES ASSUME IInv PROVE KillSparesBystanders
  OBVIOUS
<1>1. Typed /\ Stage
  BY DEF IInv
<1>2. image.data \in Datas /\ intact \subseteq {1, 2}
  BY <1>1, ImageIs DEF Typed
<1>3. ASSUME NEW q \in Paths, NEW i \in {1} \cup intact, Settled \/ ~SameFile(q, call.path)
      PROVE  Okay(image.fats[i], image.data, q, expected[q])
  <2>1. CASE Rest
    BY <1>3, <2>1 DEF Rest, AllOkay
  <2>2. CASE ~Rest
    <3>1. Landing \/ Second \/ Third
      BY <1>1, <2>2 DEF Stage
    <3>2. ASSUME Landing PROVE ~Settled /\ Sparing(image.fats[i], image.data)
      <4>1. PICK l : Left(l)
        BY <3>2 DEF Landing
      <4>2. image.data \in Spares(image.fats[1], expected, call.path)
        BY <4>1, TrailEnds DEF Left
      <4>3. ~Settled
        BY <1>1, <3>2, OkLanding DEF Settled, Idle
      <4>4. image.fats[i] = image.fats[1]
        BY <1>3, <1>2, <4>1 DEF Left
      <4>5. QED
        BY <4>2, <4>3, <4>4 DEF Sparing
    <3>3. ASSUME Second \/ Third PROVE ~Settled
      <4>1. \/ part.log = <<TableWrite(2, part.fat), CountWrite(part.fat)>>
            \/ part.log = <<CountWrite(part.fat)>>
        BY <3>3, Zenon DEF Second, Third
      <4>2. part.log # <<>>
        BY <4>1
      <4>3. QED
        BY <4>2 DEF Settled, Idle
    <3>4. ~SameFile(q, call.path)
      BY <1>3, <3>1, <3>2, <3>3
    <3>5. CASE Sparing(image.fats[i], image.data)
      BY <3>4, <3>5 DEF Sparing, Spares
    <3>6. CASE Done /\ image.fats[i] = part.fat /\ image.data = part.data
      BY <3>4, <3>6 DEF Done, Stored
    <3>7. i = 1 \/ (i = 2 /\ 2 \in intact)
      BY <1>2, <1>3
    <3>8. CASE Second \/ Third
      BY <3>5, <3>6, <3>7, <3>8 DEF Second, Third
    <3>9. QED
      BY <3>1, <3>2, <3>5, <3>8
  <2>3. QED
    BY <2>1, <2>2
<1>4. ASSUME NEW q \in Paths, NEW i \in {1} \cup intact
      PROVE  \/ ~Settled /\ SameFile(q, call.path)
             \/ OnDisk(i, q) = expected[q]
             \/ Hidden(i, q) \/ Struck(i, q)
  <2>1. Okay(image.fats[i], image.data, q, expected[q])
          <=> OnDisk(i, q) = expected[q] \/ Hidden(i, q) \/ Struck(i, q)
    BY <1>2, OkayIs
  <2>2. QED
    BY <1>3, <2>1
<1>5. QED
  BY <1>4 DEF KillSparesBystanders

\* When no write is left of a call that went well, the disk is as between two calls.
LEMMA RestHolds ==
  ASSUME IInv, Settled
  PROVE  Rest
<1>1. Typed /\ Stage /\ part.log = <<>> /\ part.ok
  BY DEF IInv, Settled, Idle
<1>2. ~Landing /\ ~Second /\ ~Third
  BY <1>1, OkLanding DEF Second, Third
<1>3. QED
  BY <1>1, <1>2 DEF Stage

\* A kill of the installer between any two writes of write_file to the disk costs at
\* most the file being written, read through table 1, and through table 2 unless a
\* write for cluster 0 is on the end of it.
THEOREM SparesBystanders == Spec => []KillSparesBystanders
<1>1. QED
  BY Invariance, Bystanders, PTL

\* Between calls no cluster belongs to two files or directories, and none is lost.
THEOREM OwnedOnceAlways == Spec => []ClustersOwnedOnce
<1>1. IInv => ClustersOwnedOnce
  <2> SUFFICES ASSUME IInv, Settled PROVE ClustersOwnedOnce
    BY DEF ClustersOwnedOnce
  <2>1. PICK r, D : Tidy(part.fat, image.data, r, D)
    BY RestHolds DEF Rest
  <2>2. QED
    BY <2>1, OwnedOnce DEF ClustersOwnedOnce
<1>2. QED
  BY <1>1, Invariance, PTL

\* Between calls every file's chain is as long as its entry says.
THEOREM SizesMatchAlways == Spec => []SizeMatchesChain
<1>1. IInv => SizeMatchesChain
  <2> SUFFICES ASSUME IInv, Settled PROVE SizeMatchesChain
    BY DEF SizeMatchesChain
  <2>1. PICK r, D : Tidy(part.fat, image.data, r, D)
    BY RestHolds DEF Rest
  <2>2. QED
    BY <2>1, SizesMatch DEF SizeMatchesChain
<1>2. QED
  BY <1>1, Invariance, PTL

\* Between calls both tables and the free count on the disk are those in memory.
THEOREM DiskAgreesAlways == Spec => []DiskAgrees
<1>1. IInv => DiskAgrees
  <2> SUFFICES ASSUME IInv, Settled, calls > 0
               PROVE  /\ image.fats = <<part.fat, part.fat>>
                      /\ image.free = Cardinality({c \in Clusters : part.fat[c] = Free})
                      /\ image.data = part.data
    BY DEF DiskAgrees
  <2>1. Rest
    BY RestHolds
  <2>2. image.fats \in [1..2 -> Fats]
    BY ImageIs DEF IInv, Typed
  <2>3. image.fats = <<part.fat, part.fat>>
    BY <2>1, <2>2 DEF Rest
  <2>4. QED
    BY <2>1, <2>3 DEF Rest, FreeCount
<1>2. QED
  BY <1>1, Invariance, PTL
=============================================================================
