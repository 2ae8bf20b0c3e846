-------------------------- MODULE HttpServerProofs --------------------------
(***************************************************************************)
(* Theorems about HttpServer, for every number of connections and slots    *)
(* and every script of requests.  First the gate; then what is known of    *)
(* sequences joined, of a request's wire and of what read_request makes of *)
(* it, and with these the framing.                                         *)
(***************************************************************************)
EXTENDS HttpServer, SequenceTheorems, FiniteSetTheorems, WellFoundedInduction, TLAPS

-----------------------------------------------------------------------------
(* The gate.  SlotsAccounted needs to know that the connection the accept  *)
(* loop holds is not one that is served already (LoopHolds).               *)

Steps == {"backlog", "gate", "dropped", "reading", "handling", "leaving", "notify", "gone"}

GateTyped ==
  /\ loop.step \in {"accept", "check", "towait", "waiting", "spawn"}
  /\ active \in Nat /\ panics \in Nat
  /\ conn \in [Conns -> Steps]

\* The loop holds one connection, which waits at the gate, and no other does.
LoopHolds ==
  /\ loop.step # "accept" => loop.c \in Conns /\ conn[loop.c] = "gate"
  /\ \A c \in Conns : conn[c] = "gate" => loop.step # "accept" /\ loop.c = c

Serves(c) == conn[c] \in {"reading", "handling", "leaving"}
Served == {c \in Conns : Serves(c)}

GateInv == GateTyped /\ LoopHolds /\ SlotsAccounted

\* At the start nobody is served.
LEMMA InitGate == Init => GateInv
<1> SUFFICES ASSUME Init PROVE GateInv
  OBVIOUS
<1> USE HttpAssumption DEF Init
<1>1. GateTyped /\ LoopHolds
  BY DEF GateTyped, LoopHolds, Steps
<1>2. Served = {}
  BY DEF Served, Serves
<1>3. SlotsAccounted
  <2>1. active = Cardinality(Served) + 0 + panics /\ loop.step # "spawn"
    BY <1>2, FS_EmptySet
  <2>2. QED
    BY <2>1 DEF SlotsAccounted, Served, Serves
<1>4. QED
  BY <1>1, <1>3 DEF GateInv

\* Serving one connection more or less.
LEMMA CountServed ==
  ASSUME NEW A, NEW B, A \subseteq Conns, B \subseteq Conns
  PROVE  /\ Cardinality(A) \in Nat
         /\ \A c : c \notin A /\ B = A \cup {c} => Cardinality(B) = Cardinality(A) + 1
         /\ \A c : c \in A /\ B = A \ {c} => Cardinality(B) = Cardinality(A) - 1
<1>1. IsFiniteSet(A)
  BY HttpAssumption, FS_Subset
<1>2. QED
  BY <1>1, FS_AddElement, FS_RemoveElement, FS_CardinalityType

\* Each step counts what it gives away or takes back.
LEMMA GateStep ==
  ASSUME GateInv, [Next]_vars
  PROVE  GateInv'
<1> USE HttpAssumption DEF GateInv, GateTyped, Steps
<1> DEFINE Spawning == IF loop.step = "spawn" THEN 1 ELSE 0
<1>1. active = Cardinality(Served) + Spawning + panics /\ active <= MaxConns
  BY DEF SlotsAccounted, Served, Serves
<1>2. Served \subseteq Conns /\ (Served \subseteq Conns)' /\ Cardinality(Served) \in Nat
  BY CountServed DEF Served
<1> DEFINE Goal == /\ (GateTyped /\ LoopHolds)'
                   /\ active' = Cardinality(Served') + Spawning' + panics'
                   /\ active' <= MaxConns
<1> SUFFICES Goal
  BY DEF SlotsAccounted, Served, Serves
\* A step that serves nobody else counts nothing.
<1>3. ASSUME \A c \in Conns : Serves(c)' <=> Serves(c), UNCHANGED <<panics, active>>,
             (GateTyped /\ LoopHolds)', Spawning' = Spawning
      PROVE  Goal
  <2>1. Served' = Served
    BY <1>3 DEF Served
  <2>2. QED
    BY <1>1, <1>3, <2>1
<1>4. ASSUME NEW c \in Conns, Accept(c) PROVE Goal
  BY <1>3, <1>4 DEF Accept, Loop, To, stream, LoopHolds, Serves
<1>5. CASE Enter
  <2>1. Served' = Served
    BY <1>5 DEF Enter, Served, Serves
  <2>2. QED
    BY <1>1, <1>2, <1>5, <2>1 DEF Enter, Loop, stream, LoopHolds
<1>6. CASE Wait
  BY <1>3, <1>6 DEF Wait, Loop, stream, LoopHolds, Serves
<1>7. CASE TimedOut
  BY <1>3, <1>7 DEF TimedOut, Loop, To, stream, LoopHolds, Serves
<1>8. CASE Spawn
  <2>1. loop.c \in Conns /\ loop.c \notin Served
    BY <1>8 DEF Spawn, LoopHolds, Served, Serves
  <2>2. Served' = Served \cup {loop.c}
    BY <1>8, <2>1 DEF Spawn, To, Served, Serves
  <2>3. Cardinality(Served') = Cardinality(Served) + 1
    BY <1>2, <2>1, <2>2, CountServed
  <2>4. QED
    BY <1>1, <1>2, <1>8, <2>3 DEF Spawn, Loop, To, stream, LoopHolds
<1>9. ASSUME NEW c \in Conns, Leave(c) PROVE Goal
  <2>1. c \in Served /\ Served' = Served \ {c}
    BY <1>9 DEF Leave, To, Served, Serves
  <2>2. Cardinality(Served') = Cardinality(Served) - 1
    BY <1>2, <2>1, CountServed
  <2>3. Cardinality(Served') \in Nat
    BY <1>2, CountServed
  <2>4. QED
    <3>1. (GateTyped /\ LoopHolds)'
      <4>1. active' \in Nat
        BY <1>1, <1>2, <1>9, <2>1, <2>2, <2>3 DEF Leave, stream
      <4>2. QED
        BY <1>9, <4>1 DEF Leave, To, stream, LoopHolds
    <3>2. active' = Cardinality(Served') + Spawning' + panics' /\ active' <= MaxConns
      BY <1>1, <1>2, <1>9, <2>2, <2>3 DEF Leave, stream
    <3>3. QED
      BY <3>1, <3>2
<1>10. ASSUME NEW c \in Conns, Notify(c) PROVE Goal
  BY <1>3, <1>10 DEF Notify, To, stream, LoopHolds, Serves
<1>11. ASSUME NEW c \in Conns, Panic(c) PROVE Goal
  <2>1. c \in Served /\ Served' = Served \ {c}
    BY <1>11 DEF Panic, To, Served, Serves
  <2>2. Cardinality(Served') = Cardinality(Served) - 1
    BY <1>2, <2>1, CountServed
  <2>3. QED
    <3>1. (GateTyped /\ LoopHolds)'
      BY <1>11 DEF Panic, To, gate, LoopHolds
    <3>2. active' = Cardinality(Served') + Spawning' + panics' /\ active' <= MaxConns
      BY <1>1, <1>2, <1>11, <2>2 DEF Panic, gate
    <3>3. QED
      BY <3>1, <3>2
\* The connection's own steps move between the steps of a served connection.
<1>12. ASSUME NEW c \in Conns,
              Read(c) \/ ReadFails(c) \/ Malformed(c) \/ Handle(c) \/ BeginStream(c) \/ Finish(c)
       PROVE  Goal
  <2>1. /\ UNCHANGED <<gate, panics>> /\ Serves(c)
        /\ \/ conn' = conn
           \/ \E s \in {"reading", "handling", "leaving"} : conn' = [conn EXCEPT ![c] = s]
    BY <1>12 DEF Read, ReadFails, Malformed, Handle, BeginStream, Finish, To, gate, stream,
                 Serves, Lacks
  <2>2. QED
    BY <1>3, <2>1 DEF gate, LoopHolds, Serves
<1>13. CASE UNCHANGED vars
  BY <1>3, <1>13 DEF vars, LoopHolds, Serves
<1>14. QED
  BY <1>4, <1>5, <1>6, <1>7, <1>8, <1>9, <1>10, <1>11, <1>12, <1>13 DEF Next, Serving

\* The gate, in every state.
LEMMA GateInvariance == Spec => []GateInv
  BY InitGate, GateStep, PTL DEF Spec

\* However connections come, are served, fail and panic, the gate counts
\* exactly those that hold a slot, and never more than MaxConns (http.rs:245-309).
THEOREM GateIsExact == Spec => []SlotsAccounted
<1>1. GateInv => SlotsAccounted
  BY DEF GateInv
<1>2. QED
  BY GateInvariance, <1>1, PTL

-----------------------------------------------------------------------------
(* Sequences put one behind the other.  FlattenSeq is recursive: what is   *)
(* known of it follows by taking a shortest sequence for which it fails.   *)

\* Every non-empty set of naturals has a least element.
LEMMA LeastNat ==
  ASSUME NEW T \in SUBSET Nat, T # {}
  PROVE  \E x \in T : \A y \in T : x <= y
<1> DEFINE R == OpToRel(<, Nat)
<1>1. \A x, y \in Nat : <<x, y>> \in R <=> x < y
  BY DEF OpToRel
<1>2. \E x \in T : \A y \in T : ~(<<y, x>> \in R)
  <2>1. IsWellFoundedOn(R, Nat)
    BY NatLessThanWellFounded
  <2> HIDE DEF R
  <2>2. QED
    BY <2>1, WFMin
<1>3. PICK x \in T : \A y \in T : ~(<<y, x>> \in R)
  BY <1>2
<1>4. \A y \in T : ~(y < x)
  BY <1>1, <1>3
<1>5. QED
  BY <1>4

\* f joins the first n elements of s, for every number of them up to n.
Joins(f, s, n) == f = [i \in 1..n |-> IF i = 1 THEN s[i] ELSE f[i - 1] \o s[i]]
Joined(s) == CHOOSE f : Joins(f, s, Len(s))

\* FlattenSeq, without its local definition.
LEMMA FlattenIs ==
  ASSUME NEW s
  PROVE  /\ Len(s) = 0 => FlattenSeq(s) = s
         /\ Len(s) # 0 => FlattenSeq(s) = Joined(s)[Len(s)]
  BY DEF FlattenSeq, Joined, Joins

\* There is such a function for every number of elements.
LEMMA JoinsExist ==
  ASSUME NEW s, NEW n \in Nat
  PROVE  \E f : Joins(f, s, n)
<1> DEFINE Wrong == {k \in Nat : ~\E f : Joins(f, s, k)}
<1>1. SUFFICES ASSUME Wrong # {} PROVE FALSE
  OBVIOUS
<1>2. Wrong \in SUBSET Nat
  OBVIOUS
<1>3. PICK k \in Wrong : \A j \in Wrong : k <= j
  BY <1>1, <1>2, LeastNat
<1>4. k \in Nat /\ ~\E f : Joins(f, s, k)
  OBVIOUS
<1>5. CASE k = 0
  <2>1. Joins([i \in 1..0 |-> {}], s, k)
    BY <1>5 DEF Joins
  <2>2. QED
    BY <1>4, <2>1
<1>6. CASE k # 0
  <2>1. k - 1 \in Nat /\ k - 1 \notin Wrong
    BY <1>3, <1>4, <1>6
  <2>2. PICK f : Joins(f, s, k - 1)
    BY <2>1
  <2> DEFINE g == [i \in 1..k |-> IF i = 1 THEN s[i] ELSE f[i - 1] \o s[i]]
  <2>3. \A i \in 1..(k - 1) : f[i] = g[i]
    <3> TAKE i \in 1..(k - 1)
    <3>1. f[i] = IF i = 1 THEN s[i] ELSE f[i - 1] \o s[i]
      BY <2>2 DEF Joins
    <3>2. i \in 1..k
      BY <1>4
    <3>3. QED
      BY <3>1, <3>2
  <2>4. Joins(g, s, k)
    <3>1. ASSUME NEW i \in 1..k
          PROVE  (IF i = 1 THEN s[i] ELSE f[i - 1] \o s[i])
                   = (IF i = 1 THEN s[i] ELSE g[i - 1] \o s[i])
      <4>1. i # 1 => i - 1 \in 1..(k - 1)
        BY <1>4
      <4> HIDE DEF g
      <4>2. QED
        BY <2>3, <4>1
    <3>2. g = [i \in 1..k |-> IF i = 1 THEN s[i] ELSE g[i - 1] \o s[i]]
      BY <3>1
    <3> HIDE DEF g
    <3>3. QED
      BY <3>2 DEF Joins
  <2>5. QED
    BY <1>4, <2>4
<1>7. QED
  BY <1>5, <1>6

\* Equal beginnings are joined to equal results.
LEMMA JoinsAgree ==
  ASSUME NEW s, NEW t, NEW m \in Nat, NEW n \in Nat, m <= n, NEW f, NEW g,
         Joins(f, s, m), Joins(g, t, n), \A i \in 1..m : s[i] = t[i]
  PROVE  \A i \in 1..m : f[i] = g[i]
<1> DEFINE Wrong == {i \in 1..m : f[i] # g[i]}
<1>1. SUFFICES ASSUME Wrong # {} PROVE FALSE
  OBVIOUS
<1>2. Wrong \in SUBSET Nat
  OBVIOUS
<1>3. PICK i \in Wrong : \A j \in Wrong : i <= j
  BY <1>1, <1>2, LeastNat
<1>4. i \in 1..m /\ i \in 1..n /\ f[i] # g[i]
  OBVIOUS
<1>5. /\ f[i] = IF i = 1 THEN s[i] ELSE f[i - 1] \o s[i]
      /\ g[i] = IF i = 1 THEN t[i] ELSE g[i - 1] \o t[i]
  BY <1>4 DEF Joins
<1>6. i # 1 => i - 1 \in 1..m /\ i - 1 \notin Wrong
  BY <1>3, <1>4
<1>7. i # 1 => f[i - 1] = g[i - 1]
  BY <1>6
<1>8. QED
  BY <1>4, <1>5, <1>7

\* One step of it.
LEMMA JoinsAt ==
  ASSUME NEW s, NEW n \in Nat, NEW f, Joins(f, s, n), NEW i \in 1..n
  PROVE  f[i] = IF i = 1 THEN s[i] ELSE f[i - 1] \o s[i]
  BY DEF Joins

\* So the function that FlattenSeq chooses is one.
LEMMA JoinedJoins ==
  ASSUME NEW S, NEW s \in Seq(S)
  PROVE  Joins(Joined(s), s, Len(s))
  BY JoinsExist DEF Joined

\* The last element comes last.
LEMMA FlattenLast ==
  ASSUME NEW S, NEW s \in Seq(S), Len(s) > 1
  PROVE  FlattenSeq(s) = FlattenSeq(SubSeq(s, 1, Len(s) - 1)) \o s[Len(s)]
<1> DEFINE n == Len(s)
           t == SubSeq(s, 1, n - 1)
<1>1. n \in Nat /\ n > 1 /\ t \in Seq(S) /\ Len(t) = n - 1
      /\ \A i \in 1..(n - 1) : t[i] = s[i]
  OBVIOUS
<1> HIDE DEF t
<1>2. Joins(Joined(s), s, n)
  BY JoinedJoins
<1>3. Joins(Joined(t), t, n - 1)
  BY <1>1, JoinedJoins
<1> HIDE DEF n
<1>4. \A i \in 1..(n - 1) : Joined(t)[i] = Joined(s)[i]
  BY <1>1, <1>2, <1>3, JoinsAgree
<1>5. Joined(s)[n] = Joined(s)[n - 1] \o s[n]
  <2>1. n \in 1..n /\ n # 1
    BY <1>1
  <2>2. \A i \in 1..n : Joined(s)[i] = IF i = 1 THEN s[i] ELSE Joined(s)[i - 1] \o s[i]
    BY <1>1, <1>2, JoinsAt
  <2>3. QED
    BY <2>1, <2>2
<1>6. FlattenSeq(t) = Joined(t)[n - 1]
  BY <1>1, FlattenIs
<1>7. FlattenSeq(s) = Joined(s)[n]
  BY <1>1, FlattenIs DEF n
<1>8. Joined(s)[n - 1] = Joined(t)[n - 1]
  BY <1>1, <1>4
<1>9. FlattenSeq(s) = FlattenSeq(t) \o s[n]
  BY <1>5, <1>6, <1>7, <1>8
<1>10. QED
  BY <1>9 DEF t, n

\* One element alone.
LEMMA FlattenOne ==
  ASSUME NEW S, NEW s \in Seq(S), Len(s) = 1
  PROVE  FlattenSeq(s) = s[1]
<1>1. Joins(Joined(s), s, 1)
  BY JoinedJoins
<1>2. Joined(s)[1] = s[1]
  BY <1>1, JoinsAt
<1>3. FlattenSeq(s) = Joined(s)[Len(s)]
  <2>1. Len(s) # 0
    OBVIOUS
  <2>2. QED
    BY <2>1, FlattenIs, Zenon
<1>4. QED
  BY <1>2, <1>3

\* No element.
LEMMA FlattenNone ==
  ASSUME NEW S, NEW s \in Seq(S), Len(s) = 0
  PROVE  FlattenSeq(s) = <<>>
  BY FlattenIs

\* Sequences over S make a sequence over S.
LEMMA FlattenType ==
  ASSUME NEW S, NEW s \in Seq(Seq(S))
  PROVE  FlattenSeq(s) \in Seq(S)
<1> DEFINE Wrong == {n \in Nat : \E t \in Seq(Seq(S)) : Len(t) = n /\ FlattenSeq(t) \notin Seq(S)}
<1>1. SUFFICES ASSUME Wrong # {} PROVE FALSE
  BY Zenon, LenProperties
<1>2. Wrong \in SUBSET Nat
  OBVIOUS
<1>3. PICK n \in Wrong : \A k \in Wrong : n <= k
  BY <1>1, <1>2, LeastNat
<1>4. PICK t \in Seq(Seq(S)) : Len(t) = n /\ FlattenSeq(t) \notin Seq(S)
  BY <1>3
<1>5. n \in Nat /\ n # 0
  BY <1>4, FlattenNone
<1>6. CASE n = 1
  <2>1. FlattenSeq(t) = t[1] /\ t[1] \in Seq(S)
    BY <1>4, <1>6, FlattenOne
  <2>2. QED
    BY <1>4, <2>1
<1>7. CASE n # 1
  <2> DEFINE u == SubSeq(t, 1, n - 1)
  <2>1. u \in Seq(Seq(S)) /\ Len(u) = n - 1 /\ t[n] \in Seq(S)
    BY <1>4, <1>5
  <2>2. n - 1 \in Nat /\ n - 1 \notin Wrong
    BY <1>3, <1>5
  <2>3. FlattenSeq(u) \in Seq(S)
    BY <2>1, <2>2
  <2>4. FlattenSeq(t) = FlattenSeq(u) \o t[n]
    <3>1. Len(t) > 1
      BY <1>4, <1>5, <1>7
    <3>2. QED
      BY <1>4, <3>1, FlattenLast
  <2>5. QED
    BY <1>4, <2>1, <2>3, <2>4
<1>8. QED
  BY <1>6, <1>7

\* The last element comes last, of any number.
LEMMA FlattenStep ==
  ASSUME NEW S, NEW s \in Seq(Seq(S)), Len(s) # 0
  PROVE  /\ FlattenSeq(s) = FlattenSeq(SubSeq(s, 1, Len(s) - 1)) \o s[Len(s)]
         /\ FlattenSeq(SubSeq(s, 1, Len(s) - 1)) \in Seq(S) /\ s[Len(s)] \in Seq(S)
<1> DEFINE u == SubSeq(s, 1, Len(s) - 1)
<1>1. u \in Seq(Seq(S)) /\ Len(u) = Len(s) - 1 /\ s[Len(s)] \in Seq(S) /\ Len(s) \in Nat
  <2>1. Len(s) \in Nat /\ Len(s) \in 1..Len(s)
    BY LenProperties
  <2>2. s[Len(s)] \in Seq(S)
    <3>1. \A T : \A x \in Seq(T) : \A n \in 1..Len(x) : x[n] \in T
      BY ElementOfSeq
    <3>2. QED
      BY <2>1, <3>1
  <2>3. u \in Seq(Seq(S)) /\ Len(u) = Len(s) - 1
    <3>1. \A i \in 1..(Len(s) - 1) : s[i] \in Seq(S)
      <4>1. \A T : \A x \in Seq(T) : \A n \in 1..Len(x) : x[n] \in T
        BY ElementOfSeq
      <4>2. \A i \in 1..(Len(s) - 1) : i \in 1..Len(s)
        BY <2>1
      <4>3. QED
        BY <4>1, <4>2
    <3>3. SubSeq(s, 1, Len(s) - 1) \in Seq(Seq(S))
          /\ Len(SubSeq(s, 1, Len(s) - 1)) = IF 1 <= Len(s) - 1 THEN Len(s) - 1 - 1 + 1 ELSE 0
      <4>1. 1 \in Int /\ Len(s) - 1 \in Int
        BY <2>1
      <4>2. QED
        BY <3>1, <4>1, SubSeqProperties
    <3>4. \A n : n \in Nat /\ n \in 1..n => (IF 1 <= n - 1 THEN n - 1 - 1 + 1 ELSE 0) = n - 1
      OBVIOUS
    <3>5. (IF 1 <= Len(s) - 1 THEN Len(s) - 1 - 1 + 1 ELSE 0) = Len(s) - 1
      BY <2>1, <3>4, Zenon
    <3>2. QED
      BY <3>3, <3>5, Zenon
  <2>4. QED
    BY <2>1, <2>2, <2>3
<1> HIDE DEF u
<1>2. FlattenSeq(u) \in Seq(S)
  BY <1>1, FlattenType
<1>3. FlattenSeq(s) = FlattenSeq(u) \o s[Len(s)]
  <2>1. CASE Len(s) = 1
    <3>1. Len(u) = 0
      BY <1>1, <2>1
    <3>2. FlattenSeq(u) = <<>>
      BY <1>1, <3>1, FlattenNone
    <3>3. FlattenSeq(s) = s[1]
      BY <2>1, FlattenOne
    <3>4. <<>> \o s[1] = s[1]
      BY <1>1, <2>1, ConcatEmptySeq
    <3>5. QED
      BY <2>1, <3>2, <3>3, <3>4
  <2>2. CASE Len(s) # 1
    <3>1. Len(s) > 1
      BY <1>1, <2>2
    <3>2. QED
      BY <3>1, FlattenLast DEF u
  <2>3. QED
    BY <2>1, <2>2
<1>4. QED
  BY <1>1, <1>2, <1>3 DEF u

\* Two parts of a sequence are joined one after the other.
LEMMA FlattenParts ==
  ASSUME NEW S, NEW s \in Seq(Seq(S)), NEW k \in 0..Len(s)
  PROVE  FlattenSeq(s) = FlattenSeq(SubSeq(s, 1, k)) \o FlattenSeq(SubSeq(s, k + 1, Len(s)))
<1> DEFINE Fails(t, j) == FlattenSeq(t) # FlattenSeq(SubSeq(t, 1, j))
                                          \o FlattenSeq(SubSeq(t, j + 1, Len(t)))
           Wrong == {n \in Nat : \E t \in Seq(Seq(S)) : \E j \in 0..n : Len(t) = n /\ Fails(t, j)}
<1>1. SUFFICES ASSUME Wrong # {} PROVE FALSE
  <2>1. Len(s) \in Nat
    OBVIOUS
  <2> HIDE DEF Fails
  <2>2. ~Fails(s, k)
    BY <2>1
  <2>3. QED
    BY <2>2 DEF Fails
<1>2. Wrong \in SUBSET Nat
  OBVIOUS
<1>3. PICK n \in Wrong : \A m \in Wrong : n <= m
  BY <1>1, <1>2, LeastNat
<1> HIDE DEF Fails
<1>4. PICK t \in Seq(Seq(S)) : \E j \in 0..n : Len(t) = n /\ Fails(t, j)
  BY <1>3
<1>5. PICK j \in 0..n : Len(t) = n /\ Fails(t, j)
  BY <1>4
<1>6. n \in Nat
  OBVIOUS
<1>7. CASE j = n
  <2>1. SubSeq(t, 1, j) = t /\ SubSeq(t, j + 1, Len(t)) = <<>>
    BY <1>5, <1>6, <1>7
  <2>2. FlattenSeq(<<>>) = <<>>
    <3>1. <<>> \in Seq(S) /\ Len(<<>>) = 0
      OBVIOUS
    <3>2. QED
      BY <3>1, FlattenNone
  <2>3. FlattenSeq(t) \in Seq(S)
    BY FlattenType
  <2>4. FlattenSeq(t) \o <<>> = FlattenSeq(t)
    BY <2>3, ConcatEmptySeq
  <2>5. QED
    BY <1>5, <2>1, <2>2, <2>4 DEF Fails
<1>8. CASE j # n
  <2> DEFINE u == SubSeq(t, 1, n - 1)
             a == SubSeq(t, 1, j)
             b == SubSeq(t, j + 1, n)
             c == SubSeq(t, j + 1, n - 1)
  <2>1. n # 0 /\ n - 1 \in Nat /\ j \in 0..(n - 1) /\ n - 1 \notin Wrong
    BY <1>3, <1>5, <1>6, <1>8
  <2>2. /\ u \in Seq(Seq(S)) /\ a \in Seq(Seq(S)) /\ b \in Seq(Seq(S)) /\ c \in Seq(Seq(S))
        /\ Len(u) = n - 1 /\ Len(b) = n - j /\ t[n] \in Seq(S) /\ b[n - j] = t[n]
    BY <1>5, <1>6, <2>1
  <2>3. /\ SubSeq(u, 1, j) = a /\ SubSeq(u, j + 1, n - 1) = c
        /\ SubSeq(b, 1, n - j - 1) = c
    BY <1>5, <1>6, <2>1
  <2> HIDE DEF u, a, b, c
  <2>4. ~Fails(u, j)
    BY <2>1, <2>2
  <2>5. FlattenSeq(u) = FlattenSeq(a) \o FlattenSeq(c)
    BY <2>2, <2>3, <2>4 DEF Fails
  <2>6. FlattenSeq(t) = FlattenSeq(u) \o t[n]
    <3>1. Len(t) # 0
      BY <1>5, <2>1
    <3>2. QED
      BY <1>5, <3>1, FlattenStep DEF u
  <2>7. FlattenSeq(b) = FlattenSeq(c) \o t[n]
    <3>1. Len(b) # 0 /\ Len(b) - 1 = n - j - 1
      BY <2>1, <2>2
    <3>2. FlattenSeq(b) = FlattenSeq(SubSeq(b, 1, Len(b) - 1)) \o b[Len(b)]
      BY <2>2, <3>1, FlattenStep
    <3>3. QED
      BY <2>2, <2>3, <3>1, <3>2
  <2>8. FlattenSeq(a) \in Seq(S) /\ FlattenSeq(c) \in Seq(S)
    BY <2>2, FlattenType
  <2>9. (FlattenSeq(a) \o FlattenSeq(c)) \o t[n] = FlattenSeq(a) \o (FlattenSeq(c) \o t[n])
    <3>1. \A x, y, z \in Seq(S) : (x \o y) \o z = x \o (y \o z)
      BY ConcatAssociative
    <3>2. QED
      BY <2>2, <2>8, <3>1
  <2>10. FlattenSeq(t) = FlattenSeq(a) \o FlattenSeq(b)
    BY <2>5, <2>6, <2>7, <2>9
  <2>11. QED
    BY <1>5, <2>10 DEF Fails, a, b
<1>9. QED
  BY <1>7, <1>8

\* What is behind a prefix that has been read as a whole.
LEMMA ReadPast ==
  ASSUME NEW S, NEW b \in Seq(S), NEW w \in Seq(S), NEW x \in Seq(S), NEW y \in Seq(S),
         b \o w = x \o y, Len(x) <= Len(b)
  PROVE  /\ \A i \in 1..Len(x) : b[i] = x[i]
         /\ SubSeq(b, Len(x) + 1, Len(b)) \o w = y
<1>1. /\ Len(x) \in Nat /\ Len(b) \in Nat /\ Len(w) \in Nat /\ Len(y) \in Nat
      /\ Len(b) + Len(w) = Len(x) + Len(y)
  <2>1. Len(b \o w) = Len(b) + Len(w) /\ Len(x \o y) = Len(x) + Len(y)
    BY ConcatProperties
  <2>2. QED
    BY <2>1
<1>2. \A i \in 1..(Len(b) + Len(w)) :
        (IF i <= Len(b) THEN b[i] ELSE w[i - Len(b)])
         = (IF i <= Len(x) THEN x[i] ELSE y[i - Len(x)])
  <2> TAKE i \in 1..(Len(b) + Len(w))
  <2>1. (b \o w)[i] = IF i <= Len(b) THEN b[i] ELSE w[i - Len(b)]
    BY ConcatProperties
  <2>2. (x \o y)[i] = IF i <= Len(x) THEN x[i] ELSE y[i - Len(x)]
    BY <1>1, ConcatProperties
  <2>3. QED
    BY <2>1, <2>2
<1>3. \A i \in 1..Len(x) : b[i] = x[i]
  <2> TAKE i \in 1..Len(x)
  <2>1. i \in 1..(Len(b) + Len(w)) /\ i <= Len(b) /\ i <= Len(x)
    BY <1>1
  <2>2. QED
    BY <1>2, <2>1
<1> DEFINE r == SubSeq(b, Len(x) + 1, Len(b))
<1>4. /\ r \in Seq(S) /\ Len(r) = Len(b) - Len(x)
      /\ \A i \in 1..Len(r) : r[i] = b[Len(x) + i]
  BY <1>1
<1> HIDE DEF r
<1>5. r \o w = y
  <2>1. r \o w \in Seq(S) /\ Len(r \o w) = Len(y)
    BY <1>1, <1>4, ConcatProperties
  <2>2. ASSUME NEW i \in 1..Len(r \o w) PROVE (r \o w)[i] = y[i]
    <3>1. i \in 1..(Len(r) + Len(w)) /\ Len(r) \in Nat
      BY <1>1, <1>4, <2>1
    <3>2. (r \o w)[i] = IF i <= Len(r) THEN r[i] ELSE w[i - Len(r)]
      BY <1>4, <3>1, ConcatProperties
    <3> DEFINE k == Len(x) + i
    <3>3. k \in 1..(Len(b) + Len(w)) /\ ~(k <= Len(x)) /\ k - Len(x) = i
          /\ (k <= Len(b) <=> i <= Len(r)) /\ k - Len(b) = i - Len(r)
      BY <1>1, <1>4, <3>1
    <3>4. (IF k <= Len(b) THEN b[k] ELSE w[k - Len(b)]) = y[k - Len(x)]
      <4> HIDE DEF k
      <4>1. QED
        BY <1>2, <3>3
    <3>5. CASE i <= Len(r)
      <4>1. r[i] = b[k]
        BY <1>4, <3>1, <3>5
      <4>2. QED
        BY <3>2, <3>3, <3>4, <3>5, <4>1
    <3>6. CASE ~(i <= Len(r))
      BY <3>2, <3>3, <3>4, <3>6
    <3>7. QED
      BY <3>5, <3>6
  <2>3. QED
    BY <2>1, <2>2, SeqEqual
<1>6. QED
  BY <1>3, <1>5 DEF r

-----------------------------------------------------------------------------
(* What a client sends.                                                    *)

Items == [t : {"line", "blank", "body", "size", "crlf", "junk"}, r : Requests, n : Nat]

\* An item has the fields it was made of.
LEMMA ItemsAre ==
  ASSUME NEW r \in Requests, NEW n \in Nat,
         NEW t \in {"line", "blank", "body", "size", "crlf", "junk"}
  PROVE  Item(t, r, n) \in Items /\ Item(t, r, n).t = t /\ Item(t, r, n).r = r
         /\ Item(t, r, n).n = n
  BY DEF Item, Items

\* A body is r.len items, numbered.
LEMMA BodyIs ==
  ASSUME NEW r \in Requests
  PROVE  /\ r.len \in Nat
         /\ BodyOf(r) \in Seq(Items) /\ Len(BodyOf(r)) = r.len
         /\ \A k \in 1..r.len : BodyOf(r)[k] = Item("body", r, k)
<1>1. r.len \in Nat
  BY DEF Requests
<1>2. \A k \in 1..r.len : Item("body", r, k) \in Items
  <2> TAKE k \in 1..r.len
  <2>1. k \in Nat
    BY <1>1
  <2>2. QED
    BY <2>1, ItemsAre
<1>3. BodyOf(r) \in [1..r.len -> Items]
  BY <1>2 DEF BodyOf
<1>4. BodyOf(r) \in Seq(Items) /\ Len(BodyOf(r)) = r.len
  <2> HIDE DEF Items
  <2>1. BodyOf(r) \in Seq(Items)
    BY <1>1, <1>3, SeqDef
  <2>2. DOMAIN BodyOf(r) = 1..r.len
    BY DEF BodyOf
  <2>3. QED
    BY <1>1, <2>1, <2>2, LenProperties
<1>5. QED
  BY <1>1, <1>4 DEF BodyOf

\* How a chunked body ends.
LEMMA EndsAre ==
  ASSUME NEW r \in Requests
  PROVE  /\ Ends(r) \in Seq(Items)
         /\ r.enc = "garbled" => Ends(r) = <<Item("junk", r, 0)>>
         /\ r.enc = "unended" => Ends(r) = <<Item("size", r, 0)>>
         /\ r.enc = "chunked" => Ends(r) = <<Item("size", r, 0), Item("crlf", r, 0)>>
<1>1. r.enc \in {"length", "chunked", "unended", "garbled"}
  BY DEF Requests
<1>2. /\ Item("junk", r, 0) \in Items /\ Item("size", r, 0) \in Items
      /\ Item("crlf", r, 0) \in Items
  BY ItemsAre
<1>3. QED
  BY <1>1, <1>2 DEF Ends

\* The first j chunks: three items each.
ChunkList(r, j) == [k \in 1..j |-> Chunk(BodyOf(r)[k])]

ChunksAt(r, j) ==
  LET f == FlattenSeq(ChunkList(r, j)) IN
  /\ f \in Seq(Items) /\ Len(f) = 3 * j
  /\ \A k \in 1..j : f[3 * k - 2] = Item("size", r, 1) /\ f[3 * k - 1] = Item("body", r, k)

\* A chunk is its size, its item and the end of the line.
LEMMA ChunkIs ==
  ASSUME NEW r \in Requests, NEW k \in 1..r.len
  PROVE  /\ Chunk(BodyOf(r)[k]) \in Seq(Items) /\ Len(Chunk(BodyOf(r)[k])) = 3
         /\ Chunk(BodyOf(r)[k])[1] = Item("size", r, 1)
         /\ Chunk(BodyOf(r)[k])[2] = Item("body", r, k)
<1>1. BodyOf(r)[k] = Item("body", r, k) /\ k \in Nat
  BY BodyIs
<1>2. /\ Item("size", r, 1) \in Items /\ Item("body", r, k) \in Items
      /\ Item("crlf", r, 0) \in Items /\ Item("body", r, k).r = r
  BY <1>1, ItemsAre
<1>3. Chunk(BodyOf(r)[k]) = <<Item("size", r, 1), Item("body", r, k), Item("crlf", r, 0)>>
  BY <1>1, <1>2 DEF Chunk
<1> HIDE DEF Items
<1>4. QED
  BY <1>2, <1>3

\* All the chunks, by the number of them.
LEMMA ChunksAre ==
  ASSUME NEW r \in Requests
  PROVE  ChunksAt(r, r.len)
<1> DEFINE Wrong == {j \in 0..r.len : ~ChunksAt(r, j)}
<1>0. r.len \in Nat
  BY BodyIs
<1>1. SUFFICES ASSUME Wrong # {} PROVE FALSE
  BY <1>0
<1>2. Wrong \in SUBSET Nat
  BY <1>0
<1>3. PICK j \in Wrong : \A k \in Wrong : j <= k
  BY <1>1, <1>2, LeastNat
<1>4. j \in Nat /\ j <= r.len /\ ~ChunksAt(r, j)
  BY <1>0
<1>5. \A i \in 0..j : ChunkList(r, i) \in Seq(Seq(Items)) /\ Len(ChunkList(r, i)) = i
  <2> TAKE i \in 0..j
  <2>1. \A k \in 1..i : Chunk(BodyOf(r)[k]) \in Seq(Items)
    <3> TAKE k \in 1..i
    <3>1. k \in 1..r.len
      BY <1>0, <1>4
    <3>2. QED
      BY <3>1, ChunkIs
  <2>2. ChunkList(r, i) \in [1..i -> Seq(Items)] /\ DOMAIN ChunkList(r, i) = 1..i
    BY <2>1 DEF ChunkList
  <2>3. \A T : \A f : i \in Nat /\ f \in [1..i -> T] => f \in Seq(T)
    BY SeqDef
  <2>4. ChunkList(r, i) \in Seq(Seq(Items)) /\ i \in Nat
    BY <1>4, <2>2, <2>3
  <2>5. QED
    BY <2>2, <2>4, LenProperties
<1>6. CASE j = 0
  <2>1. ChunkList(r, 0) \in Seq(Seq(Items)) /\ Len(ChunkList(r, 0)) = 0
    BY <1>4, <1>5
  <2>2. FlattenSeq(ChunkList(r, 0)) = <<>>
    BY <2>1, FlattenNone
  <2>3. ChunksAt(r, 0)
    <3>1. \A T : <<>> \in Seq(T) /\ Len(<<>>) = 0
      OBVIOUS
    <3>2. 3 * 0 = 0 /\ 1..0 = {}
      OBVIOUS
    <3>3. /\ FlattenSeq(ChunkList(r, 0)) \in Seq(Items)
          /\ Len(FlattenSeq(ChunkList(r, 0))) = 3 * 0
      BY <2>2, <3>1, <3>2, Zenon
    <3>4. QED
      BY <3>2, <3>3, Zenon DEF ChunksAt
  <2>4. QED
    BY <1>4, <1>6, <2>3
<1>7. CASE j # 0
  <2> DEFINE i == j - 1
             f == FlattenSeq(ChunkList(r, i))
             e == Chunk(BodyOf(r)[j])
  <2>1. i \in Nat /\ i \in 0..j /\ j \in 1..r.len /\ j \in 0..j /\ j \in 1..j /\ ChunksAt(r, i)
    <3>1. i \in Nat /\ i \in 0..j /\ j \in 1..r.len /\ j \in 0..j /\ j \in 1..j
          /\ i \in 0..r.len /\ ~(j <= i)
      BY <1>0, <1>4, <1>7
    <3>2. QED
      BY <1>3, <3>1
  <2>2. /\ f \in Seq(Items) /\ Len(f) = 3 * i
        /\ \A k \in 1..i : f[3 * k - 2] = Item("size", r, 1) /\ f[3 * k - 1] = Item("body", r, k)
    BY <2>1 DEF ChunksAt
  <2>3. /\ e \in Seq(Items) /\ Len(e) = 3
        /\ e[1] = Item("size", r, 1) /\ e[2] = Item("body", r, j)
    BY <2>1, ChunkIs
  <2>4. FlattenSeq(ChunkList(r, j)) = f \o e
    <3>1. ChunkList(r, j) \in Seq(Seq(Items)) /\ Len(ChunkList(r, j)) = j
      BY <1>5, <2>1
    <3>2. ChunkList(r, j)[j] = e
      BY <2>1 DEF ChunkList
    <3>3. SubSeq(ChunkList(r, j), 1, i) = ChunkList(r, i)
      BY <2>1, <3>1 DEF ChunkList
    <3>4. FlattenSeq(ChunkList(r, j))
          = FlattenSeq(SubSeq(ChunkList(r, j), 1, j - 1)) \o ChunkList(r, j)[j]
      <4>1. Len(ChunkList(r, j)) # 0
        BY <1>7, <3>1
      <4>2. QED
        BY <3>1, <4>1, FlattenStep
    <3>5. QED
      BY <3>2, <3>3, <3>4
  <2> HIDE DEF f, e
  <2>5. /\ f \o e \in Seq(Items) /\ Len(f \o e) = 3 * j
        /\ \A k \in 1..(3 * j) : (f \o e)[k] = IF k <= 3 * i THEN f[k] ELSE e[k - 3 * i]
    <3> HIDE DEF Items
    <3>1. /\ f \o e \in Seq(Items) /\ Len(f \o e) = Len(f) + Len(e)
          /\ \A k \in 1..(Len(f) + Len(e)) : (f \o e)[k] =
                IF k <= Len(f) THEN f[k] ELSE e[k - Len(f)]
      BY <2>2, <2>3, ConcatProperties
    <3>2. 3 * i + 3 = 3 * j
      BY <2>1
    <3>3. QED
      BY <2>2, <2>3, <3>1, <3>2
  <2>6. ASSUME NEW k \in 1..j
        PROVE  (f \o e)[3 * k - 2] = Item("size", r, 1) /\ (f \o e)[3 * k - 1] = Item("body", r, k)
    <3>1. CASE k = j
      <4>1. /\ 3 * k - 2 \in 1..(3 * j) /\ ~(3 * k - 2 <= 3 * i) /\ 3 * k - 2 - 3 * i = 1
            /\ 3 * k - 1 \in 1..(3 * j) /\ ~(3 * k - 1 <= 3 * i) /\ 3 * k - 1 - 3 * i = 2
        BY <2>1, <3>1
      <4>2. QED
        BY <2>3, <2>5, <3>1, <4>1
    <3>2. CASE k # j
      <4>1. /\ 3 * k - 2 \in 1..(3 * j) /\ 3 * k - 2 <= 3 * i
            /\ 3 * k - 1 \in 1..(3 * j) /\ 3 * k - 1 <= 3 * i /\ k \in 1..i
        BY <2>1, <3>2
      <4>2. QED
        BY <2>2, <2>5, <4>1
    <3>3. QED
      BY <3>1, <3>2
  <2>7. ChunksAt(r, j)
    BY <2>4, <2>5, <2>6 DEF ChunksAt
  <2>8. QED
    BY <1>4, <2>7
<1>8. QED
  BY <1>6, <1>7

BodyWire(r) == IF r.enc = "length" THEN BodyOf(r) ELSE Chunks(r) \o Ends(r)
HeadWire(r) == <<Item("line", r, 0), Item("blank", r, 0)>>

\* A request on the wire: two items, and the body as its encoding has it.
LEMMA WireIs ==
  ASSUME NEW r \in Requests
  PROVE  /\ WireOfOne(r) = HeadWire(r) \o BodyWire(r)
         /\ HeadWire(r) \in Seq(Items) /\ Len(HeadWire(r)) = 2
         /\ BodyWire(r) \in Seq(Items) /\ WireOfOne(r) \in Seq(Items)
         /\ Chunks(r) \in Seq(Items) /\ Len(Chunks(r)) = 3 * r.len
         /\ \A k \in 1..r.len : /\ Chunks(r)[3 * k - 2] = Item("size", r, 1)
                                /\ Chunks(r)[3 * k - 1] = Item("body", r, k)
<1>1. Chunks(r) = FlattenSeq(ChunkList(r, r.len))
  BY DEF Chunks, ChunkList
<1>2. /\ Chunks(r) \in Seq(Items) /\ Len(Chunks(r)) = 3 * r.len
      /\ \A k \in 1..r.len : /\ Chunks(r)[3 * k - 2] = Item("size", r, 1)
                             /\ Chunks(r)[3 * k - 1] = Item("body", r, k)
  BY <1>1, ChunksAre DEF ChunksAt
<1>3. Item("line", r, 0) \in Items /\ Item("blank", r, 0) \in Items
  BY ItemsAre
<1> HIDE DEF Items
<1>4. HeadWire(r) \in Seq(Items) /\ Len(HeadWire(r)) = 2
  BY <1>3 DEF HeadWire
<1>5. BodyOf(r) \in Seq(Items) /\ Ends(r) \in Seq(Items)
  BY BodyIs, EndsAre
<1>6. Chunks(r) \o Ends(r) \in Seq(Items)
  BY <1>2, <1>5, ConcatProperties
<1>7. BodyWire(r) \in Seq(Items)
  BY <1>5, <1>6 DEF BodyWire
<1>8. WireOfOne(r) = HeadWire(r) \o BodyWire(r)
  BY DEF WireOfOne, HeadWire, BodyWire
<1>9. WireOfOne(r) \in Seq(Items)
  BY <1>4, <1>7, <1>8, ConcatProperties
<1>10. QED
  BY <1>2, <1>4, <1>7, <1>8, <1>9

\* The wire of a script, of its parts and of its first request.
LEMMA WireParts ==
  ASSUME NEW s \in Seq(Requests), NEW k \in 0..Len(s)
  PROVE  /\ WireOf(s) = WireOf(SubSeq(s, 1, k)) \o WireOf(SubSeq(s, k + 1, Len(s)))
         /\ WireOf(s) \in Seq(Items)
<1> DEFINE List(q) == [i \in DOMAIN q |-> WireOfOne(q[i])]
<1>1. ASSUME NEW q \in Seq(Requests)
      PROVE  List(q) \in Seq(Seq(Items)) /\ Len(List(q)) = Len(q)
             /\ \A i \in 1..Len(q) : List(q)[i] = WireOfOne(q[i])
  <2>1. Len(q) \in Nat /\ DOMAIN q = 1..Len(q)
    BY LenProperties
  <2>2. \A i \in 1..Len(q) : WireOfOne(q[i]) \in Seq(Items)
    <3> TAKE i \in 1..Len(q)
    <3>1. q[i] \in Requests
      BY ElementOfSeq
    <3>2. QED
      BY <3>1, WireIs
  <2>3. List(q) \in [1..Len(q) -> Seq(Items)] /\ DOMAIN List(q) = 1..Len(q)
    BY <2>1, <2>2
  <2> DEFINE n == Len(q)
             L == List(q)
  <2>4. n \in Nat /\ L \in [1..n -> Seq(Items)] /\ DOMAIN L = 1..n
    BY <2>1, <2>3
  <2>5. \A i \in 1..Len(q) : L[i] = WireOfOne(q[i])
    BY <2>1
  <2> HIDE DEF n, L
  <2>6. L \in Seq(Seq(Items))
    <3>1. \A T : \A f : n \in Nat /\ f \in [1..n -> T] => f \in Seq(T)
      BY SeqDef
    <3>2. QED
      BY <2>4, <3>1
  <2>7. Len(L) = n
    BY <2>4, <2>6, LenProperties
  <2>8. QED
    BY <2>5, <2>6, <2>7 DEF n, L
<1>2. Len(s) \in Nat /\ k \in Nat /\ k <= Len(s)
  BY LenProperties
<1> DEFINE a == SubSeq(s, 1, k)
           b == SubSeq(s, k + 1, Len(s))
<1>3. /\ a \in Seq(Requests) /\ Len(a) = k /\ \A i \in 1..k : a[i] = s[i]
      /\ b \in Seq(Requests) /\ Len(b) = Len(s) - k /\ \A i \in 1..(Len(s) - k) : b[i] = s[k + i]
  <2> HIDE DEF Requests
  <2>1. QED
    BY <1>2
<1> HIDE DEF a, b
<1>4. /\ List(s) \in Seq(Seq(Items)) /\ Len(List(s)) = Len(s)
      /\ \A i \in 1..Len(s) : List(s)[i] = WireOfOne(s[i])
  BY <1>1
<1>5. /\ List(a) \in Seq(Seq(Items)) /\ Len(List(a)) = k
      /\ \A i \in 1..k : List(a)[i] = WireOfOne(a[i])
  BY <1>1, <1>3
<1>6. /\ List(b) \in Seq(Seq(Items)) /\ Len(List(b)) = Len(s) - k
      /\ \A i \in 1..(Len(s) - k) : List(b)[i] = WireOfOne(b[i])
  BY <1>1, <1>3
<1>7. WireOf(s) = FlattenSeq(List(s)) /\ WireOf(a) = FlattenSeq(List(a))
      /\ WireOf(b) = FlattenSeq(List(b))
  BY DEF WireOf
<1> HIDE DEF List
<1>8. SubSeq(List(s), 1, k) = List(a) /\ SubSeq(List(s), k + 1, Len(s)) = List(b)
  <2> DEFINE T == Seq(Items)
             L == List(s)
             A == List(a)
             B == List(b)
             n == Len(s)
  <2>1. /\ L \in Seq(T) /\ A \in Seq(T) /\ B \in Seq(T)
        /\ Len(L) = n /\ Len(A) = k /\ Len(B) = n - k /\ n \in Nat
    BY <1>2, <1>4, <1>5, <1>6
  <2>2. /\ \A i \in 1..k : A[i] = L[i]
        /\ \A i \in 1..(n - k) : B[i] = L[k + i]
    <3>1. ASSUME NEW i \in 1..k PROVE A[i] = L[i]
      <4>1. i \in 1..Len(s)
        BY <1>2
      <4>2. QED
        BY <1>3, <1>4, <1>5, <4>1
    <3>2. ASSUME NEW i \in 1..(n - k) PROVE B[i] = L[k + i]
      <4>1. k + i \in 1..Len(s)
        BY <1>2
      <4>2. QED
        BY <1>3, <1>4, <1>6, <4>1
    <3>3. QED
      BY <3>1, <3>2
  <2> HIDE DEF T, L, A, B, n
  <2>3. SubSeq(L, 1, k) = A
    BY <1>2, <2>1, <2>2
  <2>4. SubSeq(L, k + 1, n) = B
    BY <1>2, <2>1, <2>2
  <2>5. QED
    BY <2>3, <2>4 DEF L, A, B, n
<1>9. FlattenSeq(List(s)) = FlattenSeq(SubSeq(List(s), 1, k))
                            \o FlattenSeq(SubSeq(List(s), k + 1, Len(List(s))))
  <2>1. k \in 0..Len(List(s))
    BY <1>2, <1>4
  <2>2. QED
    BY <1>4, <2>1, FlattenParts
<1>10. FlattenSeq(List(s)) \in Seq(Items)
  BY <1>4, FlattenType
<1>11. QED
  BY <1>4, <1>7, <1>8, <1>9, <1>10 DEF a, b

\* What a client sends begins with its first request.
LEMMA WireFirst ==
  ASSUME NEW s \in Seq(Requests)
  PROVE  /\ s = <<>> => WireOf(s) = <<>>
         /\ s # <<>> => /\ s[1] \in Requests
                        /\ WireOf(s) = WireOfOne(s[1]) \o WireOf(SubSeq(s, 2, Len(s)))
                        /\ WireOf(SubSeq(s, 2, Len(s))) \in Seq(Items)
<1>1. CASE s = <<>>
  <2> DEFINE e == [i \in DOMAIN s |-> WireOfOne(s[i])]
  <2>1. e \in Seq(Items) /\ Len(e) = 0
    BY <1>1
  <2>2. FlattenSeq(e) = <<>>
    <3> HIDE DEF e
    <3>1. QED
      BY <2>1, FlattenNone
  <2>3. QED
    BY <1>1, <2>2 DEF WireOf
<1>2. CASE s # <<>>
  <2> HIDE DEF Requests
  <2>1. Len(s) \in Nat /\ Len(s) >= 1 /\ 1 \in 1..Len(s) /\ 1 \in 0..Len(s) /\ s[1] \in Requests
    BY <1>2
  <2> DEFINE a == SubSeq(s, 1, 1)
             b == SubSeq(s, 2, Len(s))
  <2>2. a = <<s[1]>> /\ b \in Seq(Requests)
    <3>1. a \in Seq(Requests) /\ Len(a) = 1 /\ a[1] = s[1] /\ b \in Seq(Requests)
      BY <2>1
    <3> HIDE DEF a, b
    <3>2. QED
      BY <2>1, <3>1
  <2>3. WireOf(s) = WireOf(a) \o WireOf(b)
    BY <2>1, WireParts
  <2>4. WireOf(b) \in Seq(Items)
    <3>1. 0 \in 0..Len(b)
      BY <2>2, LenProperties
    <3> HIDE DEF b
    <3>2. QED
      BY <2>2, <3>1, WireParts
  <2>5. WireOf(a) = WireOfOne(s[1])
    <3> DEFINE e == [i \in DOMAIN a |-> WireOfOne(a[i])]
    <3>1. e = <<WireOfOne(s[1])>>
      BY <2>1, <2>2
    <3>2. WireOfOne(s[1]) \in Seq(Items)
      BY <2>1, WireIs
    <3>3. e \in Seq(Seq(Items)) /\ Len(e) = 1 /\ e[1] = WireOfOne(s[1])
      BY <3>1, <3>2
    <3>4. FlattenSeq(e) = WireOfOne(s[1])
      <4> HIDE DEF e
      <4>1. QED
        BY <3>3, FlattenOne
    <3>5. QED
      BY <3>4 DEF WireOf
  <2>6. QED
    BY <1>2, <2>1, <2>3, <2>4, <2>5
<1>3. QED
  BY <1>1, <1>2

-----------------------------------------------------------------------------
(* read_request: what it makes of a buffer b, when b and what is still to  *)
(* be read, w, are the wire of r and then y.                               *)

Delivers(p, r, w, y) ==
  p.st = "ok" \/ (p.st = "ending" /\ w = <<>>)
    => /\ p.req = [r |-> r, body |-> BodyOf(r)]
       /\ p.rest \in Seq(Items) /\ p.rest \o w = y

\* Neither an error nor a wish for more delivers a request.
LEMMA NothingYet ==
  ASSUME NEW r, NEW w, NEW y
  PROVE  /\ \A n : Delivers(More(n), r, w, y)
         /\ Delivers(Bad, r, w, y)
  BY DEF Delivers, More, Bad

\* A request with its body and what is behind it.
LEMMA GotIt ==
  ASSUME NEW r, NEW w, NEW y, NEW rest \in Seq(Items), rest \o w = y
  PROVE  Delivers(Got(r, BodyOf(r), rest), r, w, y)
  BY DEF Delivers, Got

\* A request that the end of the stream ends.
LEMMA GotTheEnd ==
  ASSUME NEW r, NEW w, NEW y, w = <<>> => y = <<>>
  PROVE  Delivers(Ending(r, BodyOf(r)), r, w, y)
<1> DEFINE p == Ending(r, BodyOf(r))
<1>1. p.st = "ending" /\ p.req = [r |-> r, body |-> BodyOf(r)] /\ p.rest = <<>>
  BY DEF Ending, Got
<1>2. ASSUME w = <<>> PROVE <<>> \in Seq(Items) /\ <<>> \o w = y
  BY <1>2
<1> HIDE DEF p
<1>3. Delivers(p, r, w, y)
  BY <1>1, <1>2 DEF Delivers
<1>4. QED
  BY <1>3 DEF p

\* ReadPast, for items.
LEMMA ReadPastItems ==
  \A b, w, x, y \in Seq(Items) :
    b \o w = x \o y /\ Len(x) <= Len(b)
      => (\A i \in 1..Len(x) : b[i] = x[i]) /\ SubSeq(b, Len(x) + 1, Len(b)) \o w = y
<1> TAKE b, w, x, y \in Seq(Items)
<1> HAVE b \o w = x \o y /\ Len(x) <= Len(b)
<1>1. b \o w = x \o y
  OBVIOUS
<1>2. Len(x) <= Len(b)
  OBVIOUS
<1>3. QED
  BY <1>1, <1>2, ReadPast, Zenon

\* How the end of r's body is told.
ByChunks(r) == r.enc \in {"chunked", "unended", "garbled"}
OpenEnd(r) == r.enc = "unended"

\* What has been read and what has not are together x and then y.
Are(b, w, x, y) == b \o w = x \o y

\* read_chunked stops behind the last chunk, at the end that belongs to r, and
\* takes nothing of what follows.
LEMMA ChunkedReads ==
  ASSUME NEW r \in Requests, ByChunks(r),
         NEW s \in Seq(Items), NEW w \in Seq(Items), NEW y \in Seq(Items),
         Are(s, w, BodyWire(r), y), OpenEnd(r) => y = <<>>
  PROVE  Delivers(Chunked(r, s), r, w, y)
<1> DEFINE m == r.len
           n == Len(s)
           C == Chunks(r)
           E == Ends(r)
<1>1. m \in Nat /\ n \in Nat
  BY BodyIs, LenProperties
<1>2. /\ C \in Seq(Items) /\ Len(C) = 3 * m /\ E \in Seq(Items)
      /\ \A k \in 1..m : C[3 * k - 2] = Item("size", r, 1) /\ C[3 * k - 1] = Item("body", r, k)
  BY WireIs, EndsAre
<1> HIDE DEF C, E
<1>3. s \o w = C \o (E \o y) /\ E \o y \in Seq(Items)
  <2>1. s \o w = (C \o E) \o y
    BY DEF Are, ByChunks, BodyWire, C, E
  <2>2. \A T : \A f, g, h \in Seq(T) : (f \o g) \o h = f \o (g \o h) /\ g \o h \in Seq(T)
    BY ConcatAssociative, ConcatProperties
  <2>3. QED
    BY <1>2, <2>1, <2>2
<1> HIDE DEF m, n
\* What s has of the chunks is the chunks'.
<1>4. ASSUME NEW i \in 1..n, i <= 3 * m PROVE s[i] = C[i]
  <2>1. n \in Nat /\ Len(w) \in Nat /\ Len(E \o y) \in Nat
    BY <1>1, <1>3, LenProperties
  <2>2. i \in 1..(Len(s) + Len(w))
    BY <1>4, <2>1 DEF n
  <2>3. Len(s \o w) = Len(s) + Len(w) /\ Len(C \o (E \o y)) = Len(C) + Len(E \o y)
    BY <1>2, <1>3, ConcatProperties
  <2>4. i \in 1..(Len(C) + Len(E \o y))
    BY <1>3, <2>2, <2>3
  <2>5. (s \o w)[i] = IF i <= Len(s) THEN s[i] ELSE w[i - Len(s)]
    BY <2>2, ConcatProperties
  <2>6. (C \o (E \o y))[i] = IF i <= Len(C) THEN C[i] ELSE (E \o y)[i - Len(C)]
    BY <1>2, <1>3, <2>4, ConcatProperties
  <2>7. i <= Len(s) /\ i <= Len(C)
    BY <1>1, <1>2, <1>4 DEF n
  <2>8. QED
    BY <1>3, <2>5, <2>6, <2>7
<1> DEFINE whole(k) == 3 * k + 3 <= n /\ s[3 * k + 1].t = "size" /\ s[3 * k + 1].n # 0
           T == {k \in 0..n : ~whole(k)}
           q == Min(T)
<1>5. q \in T /\ \A k \in T : q <= k
  <2>1. n \in T
    BY <1>1
  <2>2. T \in SUBSET Nat
    BY <1>1
  <2> HIDE DEF T
  <2>3. \E x \in T : \A k \in T : x <= k
    BY <2>1, <2>2, LeastNat
  <2>4. QED
    BY <2>3 DEF Min
<1>6. q \in Nat /\ q <= n /\ ~whole(q) /\ \A k \in 0..n : k < q => whole(k)
  <2>1. q \in 0..n /\ ~whole(q)
    BY <1>5
  <2>2. \A k \in 0..n : ~whole(k) => q <= k
    BY <1>5
  <2> HIDE DEF q, whole
  <2>3. QED
    BY <1>1, <2>1, <2>2
<1> HIDE DEF q
<1>7. 3 * q <= n
  <2>1. CASE q = 0
    BY <1>1, <2>1
  <2>2. CASE q # 0
    <3>1. q - 1 \in 0..n /\ q - 1 < q
      BY <1>1, <1>6, <2>2
    <3>2. whole(q - 1)
      BY <1>6, <3>1
    <3>3. QED
      BY <1>6, <3>2
  <2>3. QED
    BY <2>1, <2>2
<1> DEFINE body == [k \in 1..q |-> s[3 * k - 1]]
           rest == SubSeq(s, 3 * q + 1, n)
<1>8. Chunked(r, s) = IF rest = <<>> THEN More(Block)
                      ELSE IF Head(rest).t # "size" THEN Bad
                      ELSE IF Head(rest).n # 0 THEN More(Block)
                      ELSE IF Len(rest) = 1 THEN Ending(r, body)
                      ELSE Got(r, body, SubSeq(rest, 3, Len(rest)))
  BY DEF Chunked, q, n
<1>9. /\ rest \in Seq(Items) /\ Len(rest) = n - 3 * q
      /\ rest # <<>> => Head(rest) = s[3 * q + 1] /\ 3 * q + 1 <= n
  <2> HIDE DEF Items
  <2>1. n = Len(s) /\ n \in Nat /\ 3 * q \in Nat
    BY <1>1, <1>6 DEF n
  <2>2. QED
    BY <1>7, <2>1
<1> HIDE DEF rest
<1>10. SUFFICES ASSUME rest # <<>>, Head(rest).t = "size", Head(rest).n = 0
                PROVE  Delivers(Chunked(r, s), r, w, y)
  BY <1>8, NothingYet
\* All the chunks are there, as the next item is no chunk's size.
<1>11. q = m
  <2>1. ASSUME q < m PROVE FALSE
    <3>1. q + 1 \in 1..m /\ 3 * q + 1 \in 1..n /\ 3 * q + 1 <= 3 * m /\ 3 * (q + 1) - 2 = 3 * q + 1
      BY <1>1, <1>6, <1>9, <1>10, <2>1
    <3>2. s[3 * q + 1] = Item("size", r, 1)
      BY <1>2, <1>4, <3>1
    <3>3. QED
      BY <1>9, <1>10, <3>2, ItemsAre DEF Item
  <2>2. ASSUME q > m PROVE FALSE
    <3>1. m \in 0..n /\ m < q
      BY <1>1, <1>6, <2>2
    <3>2. whole(m)
      BY <1>6, <3>1
    <3>3. Len(C) <= Len(s) /\ 3 * m + 1 \in 1..n
      BY <1>1, <1>2, <3>2 DEF n
    <3>4. SubSeq(s, Len(C) + 1, Len(s)) \o w = E \o y
      <4> DEFINE Z == E \o y
      <4>1. /\ Z \in Seq(Items) /\ s \o w = C \o Z /\ C \in Seq(Items)
            /\ s \in Seq(Items) /\ w \in Seq(Items) /\ Len(C) <= Len(s)
        BY <1>2, <1>3, <3>3
      <4> HIDE DEF Z, T, whole, body
      <4>2. SubSeq(s, Len(C) + 1, Len(s)) \o w = Z
        BY <4>1, ReadPastItems
      <4>3. QED
        BY <4>2 DEF Z
    <3> DEFINE z == SubSeq(s, Len(C) + 1, Len(s))
    <3>5. z \in Seq(Items) /\ Len(z) >= 1 /\ z[1] = s[3 * m + 1] /\ Len(z) \in Nat
      <4> HIDE DEF Items
      <4>1. QED
        BY <1>1, <1>2, <3>3 DEF n
    <3> HIDE DEF z
    <3>6. z \o w = E \o y
      BY <3>4 DEF z
    <3>7. (z \o w)[1] = z[1]
      <4>1. 1 \in 1..(Len(z) + Len(w)) /\ 1 <= Len(z)
        BY <3>5, LenProperties
      <4>2. QED
        BY <3>5, <4>1, ConcatProperties
    <3>8. r.enc \in {"chunked", "unended", "garbled"}
      BY DEF ByChunks
    <3>9. (E \o y)[1] \in {Item("size", r, 0), Item("junk", r, 0)}
      <4>1. /\ Len(E) >= 1 /\ Len(E) \in Nat
            /\ E[1] \in {Item("size", r, 0), Item("junk", r, 0)}
        <5>1. \A a, b : Len(<<a>>) = 1 /\ Len(<<a, b>>) = 2 /\ <<a>>[1] = a /\ <<a, b>>[1] = a
          OBVIOUS
        <5>2. \/ E = <<Item("junk", r, 0)>> \/ E = <<Item("size", r, 0)>>
              \/ E = <<Item("size", r, 0), Item("crlf", r, 0)>>
          BY <3>8, EndsAre DEF E
        <5>3. (Len(E) = 1 \/ Len(E) = 2) /\ E[1] \in {Item("size", r, 0), Item("junk", r, 0)}
          BY <5>1, <5>2
        <5>4. QED
          BY <5>3
      <4>2. 1 \in 1..(Len(E) + Len(y)) /\ 1 <= Len(E)
        BY <4>1, LenProperties
      <4>3. (E \o y)[1] = E[1]
        BY <1>2, <4>2, ConcatProperties
      <4>4. QED
        BY <4>1, <4>3
    <3>10. s[3 * m + 1] \in {Item("size", r, 0), Item("junk", r, 0)}
      BY <3>5, <3>6, <3>7, <3>9
    <3>11. s[3 * m + 1].t = "size" /\ s[3 * m + 1].n # 0
      BY <3>2
    <3>12. QED
      BY <3>10, <3>11 DEF Item
  <2>3. QED
    BY <1>1, <1>6, <2>1, <2>2
<1>12. body = BodyOf(r)
  <2>1. \A k \in 1..q : s[3 * k - 1] = Item("body", r, k)
    <3> TAKE k \in 1..q
    <3>1. 3 * k - 1 \in 1..n /\ 3 * k - 1 <= 3 * m /\ k \in 1..m
      BY <1>1, <1>6, <1>7, <1>11
    <3>2. QED
      BY <1>2, <1>4, <3>1
  <2>2. QED
    BY <1>11, <2>1 DEF BodyOf, m
<1> HIDE DEF body, whole, T
<1>13. rest \o w = E \o y
  <2>1. Len(C) <= Len(s) /\ 3 * q = Len(C)
    BY <1>2, <1>7, <1>11 DEF n
  <2>2. SubSeq(s, Len(C) + 1, Len(s)) \o w = E \o y
    <3>1. C \in Seq(Items) /\ E \o y \in Seq(Items) /\ s \o w = C \o (E \o y) /\ Len(C) <= Len(s)
      BY <1>2, <1>3, <2>1
    <3> DEFINE Z == E \o y
    <3>2. Z \in Seq(Items) /\ s \o w = C \o Z
      BY <3>1
    <3> HIDE DEF Z
    <3>3. SubSeq(s, Len(C) + 1, Len(s)) \o w = Z
      BY <3>1, <3>2, ReadPastItems, Zenon
    <3>4. QED
      BY <3>3 DEF Z
  <2>3. QED
    BY <2>1, <2>2 DEF rest, n
<1>14. /\ Len(rest) \in Nat /\ Len(rest) >= 1 /\ Len(w) \in Nat /\ Len(y) \in Nat /\ Len(E) \in Nat
       /\ Len(rest) + Len(w) = Len(E) + Len(y) /\ rest[1] = Head(rest)
  <2>1. Len(rest \o w) = Len(rest) + Len(w) /\ Len(E \o y) = Len(E) + Len(y)
    BY <1>2, <1>9, ConcatProperties
  <2>2. Len(rest) \in Nat /\ Len(rest) >= 1 /\ rest[1] = Head(rest)
    <3> HIDE DEF Items
    <3>1. QED
      BY <1>9, <1>10
  <2>3. QED
    BY <1>2, <1>13, <2>1, <2>2, LenProperties
<1>21. /\ Len(rest) \in Nat /\ Len(rest) >= 1 /\ Len(w) \in Nat /\ Len(y) \in Nat
       /\ Len(E) \in Nat /\ Len(rest) + Len(w) = Len(E) + Len(y)
  BY <1>14
<1>15. r.enc \in {"chunked", "unended", "garbled"}
  BY DEF ByChunks
<1>22. Len(E) <= Len(rest) => \A i \in 1..Len(E) : rest[i] = E[i]
  BY <1>2, <1>9, <1>13, ReadPastItems
<1>16. CASE r.enc = "garbled"
  <2>1. Len(E) = 1 /\ E[1] = Item("junk", r, 0)
    BY <1>16, EndsAre DEF E
  <2>2. Len(E) <= Len(rest) /\ 1 \in 1..Len(E)
    BY <1>21, <2>1
  <2>3. Head(rest) = Item("junk", r, 0)
    BY <1>14, <1>22, <2>1, <2>2, Zenon
  <2>4. QED
    BY <1>10, <2>3 DEF Item
<1>17. CASE r.enc = "unended"
  <2>1. Len(E) = 1 /\ y = <<>>
    BY <1>17, EndsAre DEF E, OpenEnd
  <2>2. Len(rest) = 1
    <3>1. Len(y) = 0
      BY <2>1
    <3>2. Len(E) = 1
      BY <2>1
    <3>3. \A i, j, k, l \in Nat : i >= 1 /\ i + j = k + l /\ k = 1 /\ l = 0 => i = 1
      OBVIOUS
    <3>4. QED
      BY <1>21, <3>1, <3>2, <3>3, Zenon
  <2>3. Chunked(r, s) = Ending(r, BodyOf(r))
    BY <1>8, <1>10, <1>12, <2>2
  <2>4. QED
    BY <2>1, <2>3, GotTheEnd
<1>18. CASE r.enc = "chunked"
  <2>1. Len(E) = 2
    BY <1>18, EndsAre DEF E
  <2>2. CASE Len(rest) = 1
    <3>1. w = <<>> => Len(w) = 0
      OBVIOUS
    <3>2. w # <<>>
      BY <1>14, <2>1, <2>2, <3>1
    <3>3. Chunked(r, s) = Ending(r, BodyOf(r))
      BY <1>8, <1>10, <1>12, <2>2
    <3>4. QED
      BY <3>2, <3>3, GotTheEnd
  <2>3. CASE Len(rest) # 1
    <3>1. Chunked(r, s) = Got(r, BodyOf(r), SubSeq(rest, 3, Len(rest)))
      BY <1>8, <1>10, <1>12, <2>3
    <3>2. Len(E) <= Len(rest) /\ Len(E) + 1 = 3
      <4>2. \A i \in Nat : i >= 1 /\ i # 1 => 2 <= i
        OBVIOUS
      <4>1. 2 <= Len(rest)
        BY <1>21, <2>3, <4>2, Zenon
      <4>3. QED
        BY <2>1, <4>1
    <3>3. SubSeq(rest, Len(E) + 1, Len(rest)) \o w = y
      <4>1. rest \in Seq(Items) /\ E \in Seq(Items) /\ rest \o w = E \o y /\ Len(E) <= Len(rest)
        BY <1>2, <1>9, <1>13, <3>2
      <4>2. QED
        BY <4>1, ReadPastItems
    <3>4. SubSeq(rest, 3, Len(rest)) \in Seq(Items)
      <4> HIDE DEF Items
      <4>1. QED
        BY <1>9, <1>14
    <3>5. QED
      BY <3>1, <3>2, <3>3, <3>4, GotIt
  <2>4. QED
    BY <2>2, <2>3
<1>19. QED
  BY <1>15, <1>16, <1>17, <1>18

\* Joining is associative.
LEMMA ConcatItems ==
  \A x, y, z \in Seq(Items) : (x \o y) \o z = x \o (y \o z) /\ y \o z \in Seq(Items)
<1>1. \A T : \A x, y, z \in Seq(T) : (x \o y) \o z = x \o (y \o z) /\ y \o z \in Seq(T)
  BY ConcatAssociative, ConcatProperties
<1>2. QED
  BY <1>1

\* read_request gives r with its body and leaves what follows.
LEMMA ParseReads ==
  ASSUME NEW r \in Requests, NEW b \in Seq(Items), NEW w \in Seq(Items), NEW y \in Seq(Items),
         Are(b, w, WireOfOne(r), y), OpenEnd(r) => y = <<>>
  PROVE  Delivers(Parse(b), r, w, y)
<1> DEFINE ends == {k \in DOMAIN b : b[k].t = "blank"}
           rest == SubSeq(b, 3, Len(b))
           Z == BodyWire(r) \o y
           G == HeadWire(r)
<1>1. Parse(b) = IF ends = {} THEN More(Block)
                 ELSE IF b[1].t # "line" THEN Bad
                 ELSE IF b[1].r.enc # "length" THEN Chunked(b[1].r, rest)
                 ELSE IF Len(rest) < b[1].r.len THEN More(b[1].r.len - Len(rest))
                 ELSE Got(b[1].r, SubSeq(rest, 1, b[1].r.len),
                          SubSeq(rest, b[1].r.len + 1, Len(rest)))
  BY DEF Parse
<1>2. \A k \in ends : k \in 1..Len(b) /\ b[k].t = "blank"
  BY LenProperties
<1> HIDE DEF ends
<1>3. SUFFICES ASSUME ends # {} PROVE Delivers(Parse(b), r, w, y)
  BY <1>1, NothingYet
<1>4. PICK k \in ends : k \in 1..Len(b) /\ b[k].t = "blank"
  BY <1>2, <1>3
<1>5. /\ G \in Seq(Items) /\ Len(G) = 2 /\ G[1] = Item("line", r, 0)
      /\ Z \in Seq(Items) /\ b \o w = G \o Z
  <2>1. /\ G \in Seq(Items) /\ Len(G) = 2 /\ BodyWire(r) \in Seq(Items)
        /\ WireOfOne(r) = G \o BodyWire(r)
    BY WireIs
  <2>2. G[1] = Item("line", r, 0)
    BY DEF HeadWire
  <2>4. Z \in Seq(Items) /\ (G \o BodyWire(r)) \o y = G \o Z
    BY <2>1, ConcatItems, Zenon
  <2>5. b \o w = G \o Z
    BY <2>1, <2>4 DEF Are
  <2>6. QED
    BY <2>1, <2>2, <2>4, <2>5
<1> HIDE DEF G, Z
<1>6. Len(b) \in Nat /\ Len(w) \in Nat /\ Len(b) >= 1
  BY <1>4, LenProperties
<1>7. b[1] = Item("line", r, 0)
  <2>1. 1 \in 1..(Len(b) + Len(w)) /\ 1 <= Len(b)
    BY <1>6
  <2>2. (b \o w)[1] = b[1]
    BY <2>1, ConcatProperties
  <2>3. Len(Z) \in Nat /\ 1 \in 1..(Len(G) + Len(Z)) /\ 1 <= Len(G)
    BY <1>5, LenProperties
  <2>4. (G \o Z)[1] = G[1]
    BY <1>5, <2>3, ConcatProperties
  <2>5. QED
    BY <1>5, <2>2, <2>4
<1>8. b[1].t = "line" /\ b[1].r = r
  BY <1>7 DEF Item
<1>9. k # 1
  BY <1>4, <1>8
<1>10. Len(G) <= Len(b) /\ Len(G) + 1 = 3
  BY <1>4, <1>5, <1>6, <1>9
<1>11. rest \o w = Z
  <2>1. G \in Seq(Items) /\ Z \in Seq(Items) /\ b \o w = G \o Z
    BY <1>5
  <2>2. SubSeq(b, Len(G) + 1, Len(b)) \o w = Z
    BY <1>10, <2>1, ReadPastItems
  <2>3. QED
    BY <1>10, <2>2
<1>12. rest \in Seq(Items) /\ Len(rest) \in Nat
  <2> HIDE DEF Items
  <2>1. QED
    BY <1>5, <1>6, <1>10
<1> HIDE DEF rest
<1>13. Are(rest, w, BodyWire(r), y)
  BY <1>11 DEF Are, Z
<1>14. CASE r.enc # "length"
  <2>1. ByChunks(r)
    BY <1>14 DEF ByChunks, Requests
  <2>2. Delivers(Chunked(r, rest), r, w, y)
    BY <1>12, <1>13, <2>1, ChunkedReads
  <2>3. QED
    BY <1>1, <1>3, <1>8, <1>14, <2>2
<1>15. Len(rest) >= r.len =>
         /\ r.enc = "length" => SubSeq(rest, 1, r.len) = BodyOf(r)
         /\ r.enc = "length" => SubSeq(rest, r.len + 1, Len(rest)) \o w = y
         /\ SubSeq(rest, r.len + 1, Len(rest)) \in Seq(Items)
  <2>1. /\ r.len \in Nat /\ BodyOf(r) \in Seq(Items) /\ Len(BodyOf(r)) = r.len
    BY BodyIs
  <2> DEFINE B == BodyOf(r)
             l == r.len
  <2>2. ASSUME B = BodyWire(r), l <= Len(rest)
        PROVE  SubSeq(rest, 1, l) = B /\ SubSeq(rest, l + 1, Len(rest)) \o w = y
    <3>1. rest \o w = B \o y
      BY <1>13, <2>2 DEF Are
    <3>2. l \in Nat /\ B \in Seq(Items) /\ Len(B) = l
      BY <2>1
    <3> HIDE DEF B, l, Items
    <3>3. (\A i \in 1..l : rest[i] = B[i]) /\ SubSeq(rest, l + 1, Len(rest)) \o w = y
      <4>1. Len(B) <= Len(rest)
        BY <2>2, <3>2
      <4>2. (\A i \in 1..Len(B) : rest[i] = B[i]) /\ SubSeq(rest, Len(B) + 1, Len(rest)) \o w = y
        BY <1>12, <3>1, <3>2, <4>1, ReadPastItems
      <4>3. QED
        BY <3>2, <4>2
    <3>4. SubSeq(rest, 1, l) = B
      BY <1>12, <2>2, <3>2, <3>3
    <3>5. QED
      BY <3>3, <3>4
  <2>3. r.enc = "length" => B = BodyWire(r)
    BY DEF BodyWire
  <2>4. l <= Len(rest) => SubSeq(rest, l + 1, Len(rest)) \in Seq(Items)
    <3>1. l \in Nat
      BY <2>1
    <3> HIDE DEF l, Items
    <3>2. QED
      BY <1>12, <3>1
  <2>5. Len(rest) >= r.len => l <= Len(rest)
    OBVIOUS
  <2> HIDE DEF B
  <2>6. QED
    BY <2>2, <2>3, <2>4, <2>5 DEF B
<1>16. CASE r.enc = "length"
  <2>1. CASE Len(rest) < r.len
    BY <1>1, <1>3, <1>8, <1>16, <2>1, NothingYet
  <2>2. CASE ~(Len(rest) < r.len)
    <3>1. Parse(b) = Got(r, SubSeq(rest, 1, r.len), SubSeq(rest, r.len + 1, Len(rest)))
      BY <1>1, <1>3, <1>8, <1>16, <2>2
    <3>2. r.len \in Nat
      BY BodyIs
    <3>3. Len(rest) >= r.len
      BY <1>12, <2>2, <3>2
    <3>4. QED
      BY <1>15, <1>16, <3>1, <3>3, GotIt
  <2>3. QED
    BY <2>1, <2>2
<1>17. QED
  BY <1>14, <1>16

\* An empty buffer holds no request.
LEMMA ParseNothing ==
  Parse(<<>>).st = "more"
<1>1. {k \in DOMAIN <<>> : <<>>[k].t = "blank"} = {}
  OBVIOUS
<1>2. Parse(<<>>) = More(Block)
  BY <1>1 DEF Parse
<1>3. QED
  BY <1>2 DEF More

-----------------------------------------------------------------------------
(* The framing.  What is in a connection's buffer and what is still to be  *)
(* read are the wire of the requests not yet handled (Framed), and the     *)
(* place of the connection says which requests were answered (Progress).   *)

Given(r) == [r |-> r, body |-> BodyOf(r)]
Calls == [r : Requests, body : Seq(Items)]
LeftOf(c) == SubSeq(Script[c], Len(handled[c]) + 1, Len(Script[c]))

StreamTyped ==
  /\ buf \in [Conns -> Seq(Items)] /\ wire \in [Conns -> Seq(Items)]
  /\ handled \in [Conns -> Seq(Calls)]
  /\ answered \in [Conns -> Nat] /\ keep \in [Conns -> BOOLEAN]

Framed(c) ==
  /\ Len(handled[c]) <= Len(Script[c])
  /\ buf[c] \o wire[c] = WireOf(LeftOf(c))
  /\ \A k \in 1..Len(handled[c]) : handled[c][k] = Given(Script[c][k])

Progress(c) ==
  /\ answered[c] <= Len(handled[c])
  /\ \A k \in 1..Len(handled[c]) :
       k < Len(handled[c]) => ~Script[c][k].close /\ k <= answered[c]
  /\ conn[c] \in {"backlog", "gate"} => Len(handled[c]) = 0
  /\ conn[c] = "reading" => /\ answered[c] = Len(handled[c])
                            /\ \A k \in 1..Len(handled[c]) : ~Script[c][k].close
  /\ conn[c] = "handling" => /\ answered[c] + 1 = Len(handled[c])
                             /\ keep[c] => ~Script[c][Len(handled[c])].close

StreamInv == StreamTyped /\ \A c \in Conns : Framed(c) /\ Progress(c)

\* A script is a sequence of requests and has a wire.
LEMMA ScriptIs ==
  ASSUME NEW c \in Conns
  PROVE  /\ Script[c] \in Seq(Requests) /\ Len(Script[c]) \in Nat
         /\ SubSeq(Script[c], 1, Len(Script[c])) = Script[c]
         /\ WireOf(Script[c]) \in Seq(Items)
<1>1. Script[c] \in Seq(Requests)
  BY HttpAssumption
<1> HIDE DEF Requests
<1>2. Len(Script[c]) \in Nat /\ 0 \in 0..Len(Script[c])
  BY <1>1, LenProperties
<1>3. SubSeq(Script[c], 1, Len(Script[c])) = Script[c]
  BY <1>1, <1>2
<1>4. QED
  BY <1>1, <1>2, <1>3, WireParts

\* At the start everything is still to be read.
LEMMA InitStream == Init => StreamInv
<1> SUFFICES ASSUME Init PROVE StreamInv
  OBVIOUS
<1>1. \A T : <<>> \in Seq(T) /\ Len(<<>>) = 0
  OBVIOUS
<1>2. \A c \in Conns : wire[c] = WireOf(Script[c]) /\ buf[c] = <<>> /\ handled[c] = <<>>
                      /\ answered[c] = 0 /\ conn[c] = "backlog"
  BY DEF Init
<1>3. \A c \in Conns : Len(handled[c]) = 0
  BY <1>1, <1>2, Zenon
<1>4. StreamTyped
  <2>1. buf \in [Conns -> Seq(Items)] /\ handled \in [Conns -> Seq(Calls)]
    BY <1>1, Zenon DEF Init
  <2>2. wire \in [Conns -> Seq(Items)]
    BY ScriptIs, Zenon DEF Init
  <2>3. answered \in [Conns -> Nat] /\ keep \in [Conns -> BOOLEAN]
    BY DEF Init
  <2>4. QED
    BY <2>1, <2>2, <2>3 DEF StreamTyped
<1>5. ASSUME NEW c \in Conns PROVE Framed(c) /\ Progress(c)
  <2>1. Len(handled[c]) = 0 /\ 1..0 = {} /\ 0 + 1 = 1
    BY <1>3
  <2>2. LeftOf(c) = Script[c]
    BY <2>1, ScriptIs DEF LeftOf
  <2>3. <<>> \o WireOf(Script[c]) = WireOf(Script[c])
    BY ScriptIs, ConcatEmptySeq
  <2>4. Len(handled[c]) <= Len(Script[c])
    BY <2>1, ScriptIs
  <2>5. buf[c] \o wire[c] = WireOf(LeftOf(c))
    BY <1>2, <2>2, <2>3
  <2>6. \A k \in 1..Len(handled[c]) : FALSE
    BY <2>1
  <2>7. Framed(c)
    BY <2>4, <2>5, <2>6 DEF Framed
  <2>8. Progress(c)
    BY <1>2, <2>1, <2>6 DEF Progress
  <2>9. QED
    BY <2>7, <2>8
<1>6. QED
  BY <1>4, <1>5 DEF StreamInv

\* Steps that move connections and touch no stream.
LEMMA StreamRests ==
  ASSUME StreamInv, UNCHANGED <<wire, buf, handled, answered, keep>>,
         \A c \in Conns : \/ conn'[c] = conn[c]
                          \/ conn'[c] \in {"dropped", "leaving", "notify", "gone"}
                          \/ conn[c] = "backlog" /\ conn'[c] = "gate"
                          \/ conn[c] = "gate" /\ conn'[c] = "reading"
  PROVE  StreamInv'
<1>1. StreamTyped'
  BY DEF StreamInv, StreamTyped
<1>2. ASSUME NEW c \in Conns PROVE Framed(c)' /\ Progress(c)'
  <2>1. Framed(c) /\ Progress(c)
    BY DEF StreamInv
  <2>2. /\ wire'[c] = wire[c] /\ buf'[c] = buf[c] /\ handled'[c] = handled[c]
        /\ answered'[c] = answered[c] /\ keep'[c] = keep[c] /\ LeftOf(c)' = LeftOf(c)
    BY DEF LeftOf
  <2>3. Framed(c)'
    BY <2>1, <2>2 DEF Framed
  <2>4. Len(handled[c]) \in Nat /\ answered[c] \in Nat
    BY LenProperties DEF StreamInv, StreamTyped
  <2>5. Progress(c)'
    <3>1. CASE conn[c] = "gate" /\ conn'[c] = "reading"
      <4>1. Len(handled[c]) = 0 /\ answered[c] = 0
        BY <2>1, <2>4, <3>1 DEF Progress
      <4>2. \A k \in 1..Len(handled[c]) : FALSE
        BY <4>1
      <4>3. QED
        BY <2>1, <2>2, <3>1, <4>1, <4>2 DEF Progress
    <3>2. CASE ~(conn[c] = "gate" /\ conn'[c] = "reading")
      BY <2>1, <2>2, <3>2 DEF Progress
    <3>3. QED
      BY <3>1, <3>2
  <2>6. QED
    BY <2>3, <2>5
<1>3. QED
  BY <1>1, <1>2 DEF StreamInv

\* Steps of one connection leave what is known of the others.
LEMMA OthersRest ==
  ASSUME StreamInv, NEW c \in Conns, NEW d \in Conns, d # c,
         wire'[d] = wire[d], buf'[d] = buf[d], handled'[d] = handled[d],
         answered'[d] = answered[d], keep'[d] = keep[d], conn'[d] = conn[d]
  PROVE  Framed(d)' /\ Progress(d)'
<1>1. Framed(d) /\ Progress(d) /\ LeftOf(d)' = LeftOf(d)
  BY DEF StreamInv, LeftOf
<1>2. QED
  BY <1>1 DEF Framed, Progress

\* One read moves items from the wire to the buffer.
LEMMA CutInTwo ==
  ASSUME NEW S, NEW w \in Seq(S), NEW n \in 1..Len(w)
  PROVE  /\ SubSeq(w, 1, n) \in Seq(S) /\ SubSeq(w, n + 1, Len(w)) \in Seq(S)
         /\ SubSeq(w, 1, n) \o SubSeq(w, n + 1, Len(w)) = w
<1> DEFINE l == Len(w)
           x == SubSeq(w, 1, n)
           y == SubSeq(w, n + 1, l)
<1>1. l \in Nat /\ n \in Nat /\ n <= l
  BY LenProperties
<1>2. /\ x \in Seq(S) /\ Len(x) = n /\ \A i \in 1..n : x[i] = w[i]
      /\ y \in Seq(S) /\ Len(y) = l - n /\ \A i \in 1..(l - n) : y[i] = w[n + i]
  BY <1>1
<1> HIDE DEF x, y
<1>3. /\ x \o y \in Seq(S) /\ Len(x \o y) = Len(x) + Len(y)
      /\ \A i \in 1..(Len(x) + Len(y)) : (x \o y)[i] = IF i <= Len(x) THEN x[i] ELSE y[i - Len(x)]
  BY <1>2, ConcatProperties
<1>4. Len(x \o y) = Len(w)
  BY <1>1, <1>2, <1>3
<1>5. ASSUME NEW i \in 1..Len(x \o y) PROVE (x \o y)[i] = w[i]
  <2>1. i \in 1..(Len(x) + Len(y)) /\ i \in Nat
    BY <1>1, <1>3, <1>4
  <2>2. CASE i <= n
    <3>1. i \in 1..n
      BY <2>1, <2>2
    <3>2. QED
      BY <1>2, <1>3, <2>1, <2>2, <3>1
  <2>3. CASE ~(i <= n)
    <3>1. i - n \in 1..(l - n) /\ n + (i - n) = i
      BY <1>1, <1>2, <2>1, <2>3
    <3>2. (x \o y)[i] = y[i - n]
      BY <1>2, <1>3, <2>1, <2>3
    <3>3. QED
      BY <1>2, <3>1, <3>2
  <2>4. QED
    BY <2>2, <2>3
<1>6. x \o y = w
  BY <1>3, <1>4, <1>5, SeqEqual
<1>7. QED
  BY <1>2, <1>6 DEF x, y

\* A read is told how much it may take.
LEMMA MoreIsANumber ==
  ASSUME NEW b \in Seq(Items), Parse(b).st = "more"
  PROVE  Parse(b).n \in Int
<1> DEFINE ends == {k \in DOMAIN b : b[k].t = "blank"}
           rest == SubSeq(b, 3, Len(b))
<1>1. Parse(b) = IF ends = {} THEN More(Block)
                 ELSE IF b[1].t # "line" THEN Bad
                 ELSE IF b[1].r.enc # "length" THEN Chunked(b[1].r, rest)
                 ELSE IF Len(rest) < b[1].r.len THEN More(b[1].r.len - Len(rest))
                 ELSE Got(b[1].r, SubSeq(rest, 1, b[1].r.len),
                          SubSeq(rest, b[1].r.len + 1, Len(rest)))
  BY DEF Parse
<1>2. \A q, z : Got(q, z, rest).st = "ok" /\ Ending(q, z).st = "ending" /\ Bad.st = "bad"
  BY DEF Got, Ending, Bad
<1>3. \A m : More(m).n = m
  BY DEF More
<1>4. \A q, z, x : Got(q, z, x).st = "ok"
  BY DEF Got
<1>5. \A q : Chunked(q, rest) = More(Block) \/ Chunked(q, rest).st # "more"
  BY <1>2, <1>4 DEF Chunked
<1>6. Block \in Int
  BY HttpAssumption
<1>7. CASE ends = {}
  BY <1>1, <1>3, <1>6, <1>7
<1>8. CASE ends # {}
  <2>1. Len(b) \in Nat /\ 1 \in 1..Len(b)
    <3>1. PICK k \in DOMAIN b : TRUE
      BY <1>8
    <3>2. k \in 1..Len(b) /\ Len(b) \in Nat
      BY LenProperties
    <3>3. QED
      BY <3>2
  <2>2. b[1].r \in Requests
    <3>1. b[1] \in Items
      BY <2>1, ElementOfSeq
    <3>2. QED
      BY <3>1 DEF Items
  <2>3. b[1].r.len \in Nat
    BY <2>2, BodyIs
  <2>4. Len(rest) \in Nat
    <3> HIDE DEF Items
    <3>1. QED
      BY <2>1
  <2>5. b[1].r.len - Len(rest) \in Int
    BY <2>3, <2>4
  <2> HIDE DEF ends, rest
  <2>6. QED
    BY <1>1, <1>2, <1>3, <1>4, <1>5, <1>6, <1>8, <2>5
<1>9. QED
  BY <1>7, <1>8

\* A read loses nothing and adds nothing.
LEMMA ReadStep ==
  ASSUME StreamInv, NEW c \in Conns, Read(c)
  PROVE  StreamInv'
<1>1. /\ buf[c] \in Seq(Items) /\ wire[c] \in Seq(Items)
      /\ UNCHANGED <<handled, answered, keep>>
  BY DEF StreamInv, StreamTyped, Read
<1>2. CASE wire[c] = <<>>
  <2>1. UNCHANGED <<wire, buf, handled, answered, keep>> /\ To(c, "leaving")
    BY <1>2 DEF Read
  <2>2. \A d \in Conns : conn'[d] = conn[d] \/ conn'[d] \in {"dropped", "leaving", "notify", "gone"}
    BY <2>1 DEF To
  <2>3. QED
    BY <2>1, <2>2, StreamRests
<1>3. CASE wire[c] # <<>>
  <2>1. PICK n \in Nat : /\ n >= 1 /\ n <= Len(wire[c]) /\ UNCHANGED conn
                        /\ buf' = [buf EXCEPT ![c] = @ \o SubSeq(wire[c], 1, n)]
                        /\ wire' = [wire EXCEPT ![c] = SubSeq(@, n + 1, Len(@))]
    <3> DEFINE q == Parse(buf[c])
               most == IF q.st = "more" THEN q.n ELSE Block
    <3>1. most \in Int
      BY <1>1, MoreIsANumber, HttpAssumption
    <3>2. \E n \in 1..most :
            /\ n <= Len(wire[c]) /\ UNCHANGED conn
            /\ buf' = [buf EXCEPT ![c] = @ \o SubSeq(wire[c], 1, n)]
            /\ wire' = [wire EXCEPT ![c] = SubSeq(@, n + 1, Len(@))]
      BY <1>3 DEF Read
    <3>3. \A n \in 1..most : n \in Nat /\ n >= 1
      BY <3>1
    <3> HIDE DEF most
    <3>4. QED
      BY <3>2, <3>3
  <2> DEFINE x == SubSeq(wire[c], 1, n)
             y == SubSeq(wire[c], n + 1, Len(wire[c]))
  <2>2. x \in Seq(Items) /\ y \in Seq(Items) /\ x \o y = wire[c]
    <3>1. n \in 1..Len(wire[c])
      BY <1>1, <2>1, LenProperties
    <3>2. QED
      BY <1>1, <3>1, CutInTwo
  <2>3. /\ buf' = [buf EXCEPT ![c] = buf[c] \o x] /\ wire' = [wire EXCEPT ![c] = y]
    BY <2>1
  <2> HIDE DEF x, y
  <2>4. buf[c] \o x \in Seq(Items) /\ (buf[c] \o x) \o y = buf[c] \o (x \o y)
    BY <1>1, <2>2, ConcatItems
  <2>5. StreamTyped'
    <3>1. buf' \in [Conns -> Seq(Items)] /\ wire' \in [Conns -> Seq(Items)]
      BY <2>2, <2>3, <2>4, Zenon DEF StreamInv, StreamTyped
    <3>2. QED
      BY <1>1, <3>1 DEF StreamInv, StreamTyped
  <2>6. /\ buf'[c] = buf[c] \o x /\ wire'[c] = y
        /\ \A d \in Conns \ {c} : buf'[d] = buf[d] /\ wire'[d] = wire[d]
    BY <2>3 DEF StreamInv, StreamTyped
  <2>7. buf'[c] \o wire'[c] = buf[c] \o wire[c]
    BY <2>2, <2>4, <2>6
  <2>8. ASSUME NEW d \in Conns PROVE Framed(d)' /\ Progress(d)'
    <3>1. CASE d = c
      <4>1. Framed(c) /\ Progress(c) /\ LeftOf(c)' = LeftOf(c)
        BY <1>1 DEF StreamInv, LeftOf
      <4>2. Framed(c)'
        BY <1>1, <2>7, <4>1 DEF Framed
      <4>3. Progress(c)'
        BY <1>1, <2>1, <4>1 DEF Progress
      <4>4. QED
        BY <3>1, <4>2, <4>3
    <3>2. CASE d # c
      BY <1>1, <2>1, <2>6, <3>2, OthersRest
    <3>3. QED
      BY <3>1, <3>2
  <2>9. QED
    BY <2>5, <2>8 DEF StreamInv
<1>4. QED
  BY <1>2, <1>3

\* What the handler is given is the next request.
LEMMA HandleStep ==
  ASSUME GateInv, StreamInv, NEW c \in Conns, Handle(c)
  PROVE  StreamInv'
<1> DEFINE n == Len(handled[c])
           l == Len(Script[c])
           p == Parse(buf[c])
           r == Script[c][n + 1]
           y == WireOf(SubSeq(Script[c], n + 2, l))
<1>1. /\ buf[c] \in Seq(Items) /\ wire[c] \in Seq(Items) /\ handled[c] \in Seq(Calls)
      /\ n \in Nat /\ l \in Nat /\ n <= l /\ Script[c] \in Seq(Requests)
      /\ Framed(c) /\ Progress(c)
  BY ScriptIs, LenProperties DEF StreamInv, StreamTyped, Framed
<1>2. /\ conn[c] = "reading" /\ conn' = [conn EXCEPT ![c] = "handling"]
      /\ p.st = "ok" \/ (p.st = "ending" /\ wire[c] = <<>>)
      /\ buf' = [buf EXCEPT ![c] = p.rest] /\ handled' = [handled EXCEPT ![c] = Append(@, p.req)]
      /\ keep' = [keep EXCEPT ![c] = ~p.req.r.close] /\ UNCHANGED <<wire, answered>>
  BY DEF Handle, To
<1> HIDE DEF p
<1>3. n < l
  <2>1. ASSUME n = l PROVE FALSE
    <3>1. LeftOf(c) = <<>>
      <4> HIDE DEF Requests
      <4>1. QED
        BY <1>1, <2>1 DEF LeftOf
    <3>2. <<>> \in Seq(Requests)
      OBVIOUS
    <3>3. buf[c] \o wire[c] = <<>>
      BY <1>1, <3>1, <3>2, WireFirst DEF Framed
    <3>4. Len(buf[c]) = 0
      <4>1. Len(buf[c] \o wire[c]) = Len(buf[c]) + Len(wire[c])
        BY <1>1, ConcatProperties
      <4>2. Len(buf[c]) \in Nat /\ Len(wire[c]) \in Nat
        BY <1>1, LenProperties
      <4>3. Len(buf[c] \o wire[c]) = 0
        BY <3>3
      <4>4. \A i, j \in Nat : i + j = 0 => i = 0
        OBVIOUS
      <4>5. QED
        BY <4>1, <4>2, <4>3, <4>4, Zenon
    <3>5. buf[c] = <<>>
      BY <1>1, <3>4, EmptySeq
    <3>6. p.st = "more"
      BY <3>5, ParseNothing DEF p
    <3>7. QED
      BY <1>2, <3>6
  <2>2. QED
    BY <1>1, <2>1
<1>4. /\ r \in Requests /\ y \in Seq(Items)
      /\ buf[c] \o wire[c] = WireOfOne(r) \o y
      /\ OpenEnd(r) => y = <<>>
  <2> DEFINE q == LeftOf(c)
  <2>1. /\ q \in Seq(Requests) /\ q # <<>> /\ q[1] = r
        /\ SubSeq(q, 2, Len(q)) = SubSeq(Script[c], n + 2, l)
    <3> HIDE DEF Requests, n, l
    <3>1. /\ q = SubSeq(Script[c], n + 1, l) /\ l = Len(Script[c])
          /\ n \in Nat /\ l \in Nat /\ n < l /\ Script[c] \in Seq(Requests)
      BY <1>1, <1>3 DEF LeftOf, n, l
    <3>2. q \in Seq(Requests) /\ Len(q) = l - n /\ \A i \in 1..(l - n) : q[i] = Script[c][n + i]
      BY <3>1
    <3> HIDE DEF q
    <3>3. 1 \in 1..(l - n) /\ l - n \in Nat
      BY <3>1
    <3>4. q # <<>> /\ q[1] = r
      BY <3>2, <3>3
    <3> DEFINE f == SubSeq(q, 2, Len(q))
               g == SubSeq(Script[c], n + 2, l)
    <3>5. /\ f \in Seq(Requests) /\ Len(f) = l - n - 1
          /\ \A i \in 1..(l - n - 1) : f[i] = q[i + 1]
      BY <3>2, <3>3
    <3>6. /\ g \in Seq(Requests) /\ Len(g) = l - n - 1
          /\ \A i \in 1..(l - n - 1) : g[i] = Script[c][n + 1 + i]
      BY <3>1
    <3>7. ASSUME NEW i \in 1..(l - n - 1) PROVE f[i] = g[i]
      <4>1. i + 1 \in 1..(l - n) /\ n + (i + 1) = n + 1 + i
        BY <3>1
      <4>2. QED
        BY <3>2, <3>5, <3>6, <4>1
    <3> HIDE DEF f, g
    <3>8. f = g
      BY <3>5, <3>6, <3>7, SeqEqual
    <3>9. QED
      BY <3>2, <3>4, <3>8 DEF f, g
  <2> HIDE DEF q
  <2>2. q[1] \in Requests /\ WireOf(q) = WireOfOne(q[1]) \o WireOf(SubSeq(q, 2, Len(q)))
        /\ WireOf(SubSeq(q, 2, Len(q))) \in Seq(Items)
    BY <2>1, WireFirst
  <2>3. buf[c] \o wire[c] = WireOf(q)
    BY <1>1 DEF Framed, q
  <2>4. ASSUME OpenEnd(r) PROVE y = <<>>
    <3>1. n + 1 \in 1..l
      BY <1>1, <1>3
    <3>2. n + 1 = l
      BY <2>4, <3>1, HttpAssumption DEF OpenEnd
    <3>3. SubSeq(Script[c], n + 2, l) = <<>>
      <4>1. n + 2 \in Int /\ l \in Int /\ l < n + 2
        BY <1>1, <3>2
      <4> HIDE DEF n, l
      <4>2. QED
        BY <4>1, SubSeqEmpty
    <3>4. <<>> \in Seq(Requests)
      OBVIOUS
    <3>5. QED
      BY <3>3, <3>4, WireFirst
  <2>5. QED
    BY <2>1, <2>2, <2>3, <2>4
<1> HIDE DEF r, y
<1>5. p.req = Given(r) /\ p.rest \in Seq(Items) /\ p.rest \o wire[c] = y
  <2>1. Are(buf[c], wire[c], WireOfOne(r), y)
    BY <1>4 DEF Are
  <2>2. Delivers(p, r, wire[c], y)
    BY <1>1, <1>4, <2>1, ParseReads DEF p
  <2>3. QED
    BY <1>2, <2>2 DEF Delivers, Given
<1>6. Given(r) \in Calls /\ Given(r).r = r /\ (~r.close) \in BOOLEAN
  <2>1. BodyOf(r) \in Seq(Items)
    BY <1>4, BodyIs
  <2> HIDE DEF Requests, Items
  <2>2. QED
    BY <1>4, <2>1 DEF Given, Calls
<1> DEFINE h == Append(handled[c], Given(r))
<1>7. /\ h \in Seq(Calls) /\ Len(h) = n + 1 /\ h[n + 1] = Given(r)
      /\ \A k \in 1..n : h[k] = handled[c][k]
  <2> HIDE DEF Calls
  <2>1. QED
    BY <1>1, <1>6, AppendProperties
<1>8. /\ buf' = [buf EXCEPT ![c] = p.rest] /\ handled' = [handled EXCEPT ![c] = h]
      /\ keep' = [keep EXCEPT ![c] = ~r.close]
  BY <1>2, <1>5, <1>6
<1> HIDE DEF h
<1>9. StreamTyped'
  <2>1. buf' \in [Conns -> Seq(Items)] /\ handled' \in [Conns -> Seq(Calls)]
    BY <1>5, <1>7, <1>8, Zenon DEF StreamInv, StreamTyped
  <2>2. keep' \in [Conns -> BOOLEAN]
    BY <1>6, <1>8, Zenon DEF StreamInv, StreamTyped
  <2>3. QED
    BY <1>2, <2>1, <2>2 DEF StreamInv, StreamTyped
<1>10. /\ buf'[c] = p.rest /\ handled'[c] = h /\ keep'[c] = ~r.close
       /\ conn'[c] \in {conn[c], "handling"}
       /\ \A d \in Conns \ {c} : /\ buf'[d] = buf[d] /\ handled'[d] = handled[d]
                                /\ keep'[d] = keep[d] /\ conn'[d] = conn[d]
  <2>1. buf'[c] = p.rest /\ \A d \in Conns \ {c} : buf'[d] = buf[d]
    BY <1>8, Zenon DEF StreamInv, StreamTyped
  <2>2. handled'[c] = h /\ \A d \in Conns \ {c} : handled'[d] = handled[d]
    BY <1>8, Zenon DEF StreamInv, StreamTyped
  <2>3. keep'[c] = ~r.close /\ \A d \in Conns \ {c} : keep'[d] = keep[d]
    BY <1>8, Zenon DEF StreamInv, StreamTyped
  <2>4. conn'[c] \in {conn[c], "handling"} /\ \A d \in Conns \ {c} : conn'[d] = conn[d]
    BY <1>2
  <2>5. QED
    BY <2>1, <2>2, <2>3, <2>4
<1>11. ASSUME NEW d \in Conns PROVE Framed(d)' /\ Progress(d)'
  <2>1. CASE d = c
    <3>1. Len(handled'[c]) = n + 1 /\ Len(handled[c]) = n
      BY <1>7, <1>10
    <3> HIDE DEF n
    <3>2. LeftOf(c)' = SubSeq(Script[c], n + 2, l)
      <4>1. (n + 1) + 1 = n + 2
        BY <1>1
      <4>2. QED
        BY <3>1, <4>1 DEF LeftOf
    <3>3. buf'[c] \o wire'[c] = WireOf(LeftOf(c)')
      BY <1>2, <1>5, <1>10, <3>2 DEF y
    <3>4. \A k \in 1..(n + 1) : handled'[c][k] = Given(Script[c][k])
      <4>1. \A k \in 1..n : handled[c][k] = Given(Script[c][k])
        BY <1>1, <3>1 DEF Framed
      <4>2. \A k \in 1..(n + 1) : k \in 1..n \/ k = n + 1
        BY <1>1
      <4>3. QED
        BY <1>7, <1>10, <4>1, <4>2 DEF r
    <3>5. Framed(c)'
      <4>1. n + 1 <= l
        BY <1>1, <1>3
      <4>2. QED
        BY <3>1, <3>3, <3>4, <4>1 DEF Framed, l
    <3>6. answered[c] = n /\ (\A k \in 1..n : ~Script[c][k].close) /\ answered'[c] = n
      BY <1>1, <1>2, <3>1 DEF Progress
    <3>7. \A k \in 1..(n + 1) : k < n + 1 => k \in 1..n /\ k <= n
      BY <1>1
    <3>8. conn'[c] \in {"reading", "handling"}
      BY <1>2, <1>10
    <3>9. conn'[c] = "handling"
      BY <1>2 DEF GateInv, GateTyped
    <3>10. Progress(c)'
      <4>1. n <= n + 1
        BY <1>1
      <4>2. QED
        BY <1>10, <3>1, <3>6, <3>7, <3>9, <4>1 DEF Progress, r
    <3>11. QED
      BY <2>1, <3>5, <3>10
  <2>2. CASE d # c
    BY <1>2, <1>10, <2>2, OthersRest
  <2>3. QED
    BY <2>1, <2>2
<1>12. QED
  BY <1>9, <1>11 DEF StreamInv

\* The answers: begun as a stream, finished, or cut off by a panic.
LEMMA AnswerStep ==
  ASSUME GateInv, StreamInv, NEW c \in Conns, BeginStream(c) \/ Finish(c) \/ Panic(c)
  PROVE  StreamInv'
<1> DEFINE n == Len(handled[c])
<1>1. /\ Framed(c) /\ Progress(c) /\ n \in Nat /\ answered[c] \in Nat /\ keep[c] \in BOOLEAN
      /\ conn \in [Conns -> Steps]
  BY LenProperties DEF StreamInv, StreamTyped, GateInv, GateTyped
<1>2. conn[c] = "handling" /\ UNCHANGED <<wire, buf, handled>>
  BY DEF BeginStream, Finish, Panic
<1>3. answered[c] + 1 = n /\ n \in 1..n /\ (keep[c] => ~Script[c][n].close)
      /\ \A k \in 1..n : k < n => ~Script[c][k].close
  <2>1. answered[c] + 1 = n /\ (keep[c] => ~Script[c][n].close)
        /\ \A k \in 1..n : k < n => ~Script[c][k].close
    BY <1>1, <1>2 DEF Progress
  <2>2. n \in 1..n
    BY <1>1, <2>1
  <2>3. QED
    BY <2>1, <2>2
<1> DEFINE Kept(d) == answered'[d] = answered[d] /\ keep'[d] = keep[d] /\ conn'[d] = conn[d]
<1>4. /\ \A d \in Conns \ {c} : Kept(d)
      /\ answered' \in [Conns -> Nat] /\ keep' \in [Conns -> BOOLEAN]
      /\ \/ conn'[c] = "handling" /\ answered'[c] = answered[c] /\ keep'[c] = FALSE
         \/ conn'[c] = "reading" /\ answered'[c] = answered[c] + 1 /\ keep[c]
         \/ conn'[c] \in {"leaving", "gone"} /\ answered'[c] \in {answered[c], answered[c] + 1}
  <2>1. answered \in [Conns -> Nat] /\ keep \in [Conns -> BOOLEAN]
    BY DEF StreamInv, StreamTyped
  <2>2. CASE BeginStream(c)
    <3>1. keep' = [keep EXCEPT ![c] = FALSE] /\ UNCHANGED <<conn, answered>>
      BY <2>2 DEF BeginStream
    <3>2. QED
      BY <1>2, <2>1, <3>1
  <2>3. CASE Panic(c)
    <3>1. conn' = [conn EXCEPT ![c] = "gone"] /\ UNCHANGED <<keep, answered>>
      BY <2>3 DEF Panic, To
    <3>2. QED
      BY <1>1, <2>1, <3>1
  <2>4. CASE Finish(c)
    <3>1. /\ UNCHANGED keep
          /\ \/ /\ answered' = [answered EXCEPT ![c] = answered[c] + 1]
                /\ conn' = [conn EXCEPT ![c] = IF keep[c] THEN "reading" ELSE "leaving"]
             \/ conn' = [conn EXCEPT ![c] = "leaving"] /\ UNCHANGED answered
      BY <2>4 DEF Finish, To
    <3>2. CASE answered' = [answered EXCEPT ![c] = answered[c] + 1]
               /\ conn' = [conn EXCEPT ![c] = IF keep[c] THEN "reading" ELSE "leaving"]
      <4>1. /\ answered' \in [Conns -> Nat] /\ answered'[c] = answered[c] + 1
            /\ \A d \in Conns \ {c} : answered'[d] = answered[d]
        BY <1>1, <2>1, <3>2
      <4>2. /\ conn'[c] = IF keep[c] THEN "reading" ELSE "leaving"
            /\ \A d \in Conns \ {c} : conn'[d] = conn[d]
        BY <1>1, <3>2
      <4>3. QED
        BY <2>1, <3>1, <4>1, <4>2
    <3>3. CASE conn' = [conn EXCEPT ![c] = "leaving"] /\ UNCHANGED answered
      BY <1>1, <2>1, <3>1, <3>3
    <3>4. QED
      BY <3>1, <3>2, <3>3
  <2>5. QED
    BY <2>2, <2>3, <2>4
<1>5. StreamTyped'
  BY <1>2, <1>4 DEF StreamInv, StreamTyped
<1>6. ASSUME NEW d \in Conns PROVE Framed(d)' /\ Progress(d)'
  <2>1. CASE d = c
    <3>1. Framed(c)'
      <4>1. LeftOf(c)' = LeftOf(c)
        BY <1>2 DEF LeftOf
      <4>2. QED
        BY <1>1, <1>2, <4>1 DEF Framed
    <3>2. Len(handled'[c]) = n
      BY <1>2
    <3>3. \A k \in 1..n : k < n => k <= answered[c] /\ k <= answered[c] + 1
      BY <1>1, <1>3
    <3>4. answered[c] <= n /\ answered[c] + 1 <= n
      BY <1>1, <1>3
    <3>5. \A k \in 1..n : k < n \/ k = n
      BY <1>1
    <3> HIDE DEF n
    <3>6. answered'[c] <= n /\ \A k \in 1..n : k < n => ~Script[c][k].close /\ k <= answered'[c]
      BY <1>3, <1>4, <3>3, <3>4
    <3>7. conn'[c] = "reading" => answered'[c] = n /\ \A k \in 1..n : ~Script[c][k].close
      BY <1>3, <1>4, <3>5
    <3>8. conn'[c] = "handling" => answered'[c] + 1 = n /\ (keep'[c] => ~Script[c][n].close)
      BY <1>3, <1>4
    <3>9. conn'[c] \notin {"backlog", "gate"}
      BY <1>4
    <3>10. Progress(c)'
      BY <3>2, <3>6, <3>7, <3>8, <3>9 DEF Progress
    <3>11. QED
      BY <2>1, <3>1, <3>10
  <2>2. CASE d # c
    BY <1>2, <1>4, <2>2, OthersRest
  <2>3. QED
    BY <2>1, <2>2
<1>7. QED
  BY <1>5, <1>6 DEF StreamInv

\* Each step keeps the framing.
LEMMA StreamStep ==
  ASSUME GateInv, StreamInv, [Next]_vars
  PROVE  StreamInv'
<1> DEFINE Moves == \A d \in Conns :
               \/ conn'[d] = conn[d]
               \/ conn'[d] \in {"dropped", "leaving", "notify", "gone"}
               \/ conn[d] = "backlog" /\ conn'[d] = "gate"
               \/ conn[d] = "gate" /\ conn'[d] = "reading"
<1>1. UNCHANGED stream /\ Moves => StreamInv'
  BY StreamRests DEF stream
<1>2. conn \in [Conns -> Steps]
  BY DEF GateInv, GateTyped
<1>9. ASSUME UNCHANGED conn PROVE Moves
  BY <1>9
<1>10. ASSUME NEW c \in Conns, NEW p,
              \/ p \in {"dropped", "leaving", "notify", "gone"}
              \/ conn[c] = "backlog" /\ p = "gate"
              \/ conn[c] = "gate" /\ p = "reading",
              To(c, p)
       PROVE  Moves
  <2>1. conn'[c] = p /\ \A d \in Conns : d # c => conn'[d] = conn[d]
    BY <1>2, <1>10 DEF To
  <2> TAKE d \in Conns
  <2>3. CASE d = c
    BY <1>10, <2>1, <2>3
  <2>4. CASE d # c
    BY <2>1, <2>4
  <2>5. QED
    BY <2>3, <2>4
<1> HIDE DEF Moves
<1>3. ASSUME NEW c \in Conns, Accept(c) \/ Leave(c) \/ Notify(c) \/ ReadFails(c) \/ Malformed(c)
      PROVE  StreamInv'
  <2>1. CASE Accept(c)
    BY <1>1, <1>10, <2>1 DEF Accept
  <2>2. CASE Leave(c)
    BY <1>1, <1>10, <2>2 DEF Leave
  <2>3. CASE Notify(c)
    <3>1. UNCHANGED stream /\ To(c, "gone")
      BY <2>3 DEF Notify, stream
    <3>2. QED
      BY <1>1, <1>10, <3>1
  <2>4. CASE ReadFails(c)
    BY <1>1, <1>10, <2>4 DEF ReadFails
  <2>5. CASE Malformed(c)
    BY <1>1, <1>10, <2>5 DEF Malformed
  <2>6. QED
    BY <1>3, <2>1, <2>2, <2>3, <2>4, <2>5
<1>4. CASE Enter \/ Wait
  <2>1. UNCHANGED stream /\ UNCHANGED conn
    BY <1>4 DEF Enter, Wait, stream
  <2>2. QED
    BY <1>1, <1>9, <2>1
<1>5. CASE TimedOut
  <2>1. UNCHANGED stream /\ (UNCHANGED conn \/ To(loop.c, "dropped")) /\ loop.c \in Conns
    BY <1>5 DEF TimedOut, stream, GateInv, LoopHolds
  <2>2. QED
    BY <1>1, <1>9, <1>10, <2>1
<1>6. CASE Spawn
  <2>1. loop.c \in Conns /\ conn[loop.c] = "gate"
    BY <1>6 DEF Spawn, GateInv, LoopHolds
  <2>2. UNCHANGED stream /\ To(loop.c, "reading")
    BY <1>6 DEF Spawn, stream
  <2>3. QED
    BY <1>1, <1>10, <2>1, <2>2
<1>7. CASE UNCHANGED vars
  <2>1. UNCHANGED stream /\ UNCHANGED conn
    BY <1>7 DEF vars, stream
  <2>2. QED
    BY <1>1, <1>9, <2>1
<1>8. QED
  BY <1>3, <1>4, <1>5, <1>6, <1>7, ReadStep, HandleStep, AnswerStep DEF Next, Serving

\* The framing, in every state.
LEMMA StreamInvariance == Spec => []StreamInv
<1>1. StreamInv /\ GateInv /\ [Next]_vars => StreamInv'
  BY StreamStep
<1>2. QED
  BY <1>1, InitStream, GateInvariance, PTL DEF Spec

\* However the stream of a connection is cut into reads, its handler is given
\* the client's requests in their order, each with its own body, whatever their
\* lengths and encodings, and no item is lost between two of them
\* (http.rs:416-557).
THEOREM RequestsAreFramed == Spec => []FramedInOrder
<1>1. StreamInv => FramedInOrder
  <2> SUFFICES ASSUME StreamInv, NEW c \in Conns
               PROVE  /\ WireOf(SubSeq(Script[c], 1, Len(handled[c]))) \o buf[c] \o wire[c]
                            = WireOf(Script[c])
                      /\ answered[c] <= Len(handled[c])
                      /\ \A k \in DOMAIN handled[c] :
                           /\ handled[c][k].r = Script[c][k]
                           /\ handled[c][k].body = BodyOf(Script[c][k])
                           /\ k < Len(handled[c]) => ~Script[c][k].close /\ answered[c] >= k
    BY DEF FramedInOrder
  <2> DEFINE n == Len(handled[c])
  <2>1. /\ Framed(c) /\ Progress(c) /\ buf[c] \in Seq(Items) /\ wire[c] \in Seq(Items)
        /\ handled[c] \in Seq(Calls) /\ answered[c] \in Nat
    BY DEF StreamInv, StreamTyped
  <2>2. n \in Nat /\ DOMAIN handled[c] = 1..n
    BY <2>1, LenProperties
  <2>3. n \in 0..Len(Script[c]) /\ Script[c] \in Seq(Requests)
    BY <2>1, <2>2, ScriptIs DEF Framed
  <2>4. WireOf(Script[c]) = WireOf(SubSeq(Script[c], 1, n)) \o WireOf(LeftOf(c))
    BY <2>3, WireParts DEF LeftOf
  <2>5. WireOf(SubSeq(Script[c], 1, n)) \in Seq(Items)
    <3> DEFINE q == SubSeq(Script[c], 1, n)
    <3>1. q \in Seq(Requests)
      <4> HIDE DEF Requests, n
      <4>1. QED
        BY <2>2, <2>3
    <3> HIDE DEF q
    <3>2. 0 \in 0..Len(q)
      BY <3>1, LenProperties
    <3>3. WireOf(q) \in Seq(Items)
      BY <3>1, <3>2, WireParts
    <3>4. QED
      BY <3>3 DEF q
  <2>6. WireOf(SubSeq(Script[c], 1, n)) \o buf[c] \o wire[c]
          = WireOf(SubSeq(Script[c], 1, n)) \o (buf[c] \o wire[c])
    BY <2>1, <2>5, ConcatItems, Zenon
  <2>7. WireOf(SubSeq(Script[c], 1, n)) \o buf[c] \o wire[c] = WireOf(Script[c])
    BY <2>1, <2>4, <2>6 DEF Framed
  <2>8. ASSUME NEW k \in DOMAIN handled[c]
        PROVE  /\ handled[c][k].r = Script[c][k] /\ handled[c][k].body = BodyOf(Script[c][k])
               /\ k < n => ~Script[c][k].close /\ answered[c] >= k
    <3>1. k \in 1..n
      BY <2>2
    <3>2. handled[c][k] = Given(Script[c][k])
      BY <2>1, <3>1 DEF Framed
    <3>3. k < n => ~Script[c][k].close /\ k <= answered[c]
      BY <2>1, <3>1 DEF Progress
    <3>4. k <= answered[c] => answered[c] >= k
      BY <2>1, <2>2, <3>1
    <3>5. QED
      BY <3>2, <3>3, <3>4 DEF Given
  <2>9. QED
    BY <2>1, <2>7, <2>8 DEF Progress
<1>2. QED
  BY <1>1, StreamInvariance, PTL
=============================================================================
