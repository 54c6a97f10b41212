----------------------------- MODULE ConfProofs -----------------------------
(***************************************************************************)
(* What a running server goes by is what the file said, for every set of   *)
(* names, options, hosts and pages, configurations of any length and       *)
(* copies as often as the library makes them.                              *)
(*                                                                         *)
(* First the lookups, which are recursive functions.  A set of numbers     *)
(* that is closed under "one more" is whole, for the least number outside  *)
(* it contradicts that (UpTo); so a recursive function exists (Recursion)  *)
(* and is what its equation says.  simplify_path is proved to give what a  *)
(* path means by keeping the places of the segments it has left (Places).  *)
(*                                                                         *)
(* Then the invariant.  A copy of a copy is a copy (CopyTwice), so every   *)
(* server that was read has its blocks as told or as one copy has them     *)
(* (AsTold), although nobody knows how many copies were made.              *)
(***************************************************************************)
EXTENDS Conf, TLAPS, SequenceTheorems, FiniteSetTheorems, WellFoundedInduction

-----------------------------------------------------------------------------
(* Recursive functions                                                     *)

(* The order of numbers, as a set of pairs *)
Less == {pair \in Nat \X Nat : pair[1] < pair[2]}

(* What holds of the first number, and of a number when it holds of the    *)
(* one before, holds of all.                                               *)
LEMMA UpTo ==
  ASSUME NEW N \in Nat, NEW S, 0 \in S, \A n \in 1..N : n - 1 \in S => n \in S
  PROVE  0..N \subseteq S
<1> SUFFICES ASSUME (0..N) \ S # {} PROVE FALSE
  OBVIOUS
<1>1. IsWellFoundedOn(Less, Nat)
  BY NatLessThanWellFounded DEF OpToRel, Less
<1> DEFINE T == (0..N) \ S
<1>2. PICK n \in T : \A m \in T : <<m, n>> \notin Less
  <2>1. T \subseteq Nat /\ T # {}
    OBVIOUS
  <2> HIDE DEF T
  <2> QED
    BY <1>1, <2>1, WFMin
<1>3. n \in 1..N
  BY <1>2
<1>4. n - 1 \in 0..N /\ n - 1 \in Nat /\ n \in Nat /\ n - 1 < n
  BY <1>3
<1>5. <<n - 1, n>> \in Nat \X Nat /\ <<n - 1, n>>[1] = n - 1 /\ <<n - 1, n>>[2] = n
  BY <1>4
<1>6. <<n - 1, n>> \in Less
  BY <1>4, <1>5 DEF Less
<1>7. n - 1 \in S
  BY <1>2, <1>4, <1>6
<1> QED
  BY <1>2, <1>3, <1>7

(* One turn of the loop of simplify_path leaves names. *)
LEMMA StepType ==
  ASSUME NEW s \in Seq(Plain), NEW segment \in Segment
  PROVE  Step(s, segment) \in Seq(Plain)
<1>1. CASE segment \in Plain
  <2>1. segment \notin {"", "."} /\ segment # ".."
    BY <1>1, PlainAssumption
  <2>2. Step(s, segment) = Append(s, segment)
    BY <2>1, Zenon DEF Step
  <2> QED
    BY <1>1, <2>2
<1>2. CASE segment \in {"", "."}
  BY <1>2 DEF Step
<1>3. CASE segment = ".." /\ s # <<>>
  <2>1. Front(s) \in Seq(Plain)
    BY <1>3, SubSeqProperties DEF Front
  <2> QED
    BY <1>3, <2>1 DEF Step
<1>4. CASE segment = ".." /\ s = <<>>
  BY <1>4 DEF Step
<1> QED
  BY <1>1, <1>2, <1>3, <1>4 DEF Segment

(* f is computed from base by next, up to m. *)
Computes(f, V, base, next, m) ==
  /\ f \in [0..m -> V] /\ f[0] = base
  /\ \A n \in 1..m : f[n] = next[<<f[n - 1], n>>]

(* Such a function exists for every number of steps. *)
LEMMA Recursion ==
  ASSUME NEW N \in Nat, NEW V, NEW base \in V, NEW next \in [V \X (1..N) -> V]
  PROVE  \E f : Computes(f, V, base, next, N)
<1> DEFINE Done == {m \in 0..N : \E f : Computes(f, V, base, next, m)}
<1>1. 0 \in Done
  <2> DEFINE f == [n \in 0..0 |-> base]
  <2>1. f \in [0..0 -> V] /\ f[0] = base
    OBVIOUS
  <2>2. \A n \in 1..0 : FALSE
    OBVIOUS
  <2> HIDE DEF f
  <2>3. Computes(f, V, base, next, 0)
    BY <2>1, <2>2 DEF Computes
  <2> QED
    BY <2>3
<1>2. ASSUME NEW m \in 1..N, m - 1 \in Done PROVE m \in Done
  <2>1. PICK f : Computes(f, V, base, next, m - 1)
    BY <1>2
  <2>2. /\ f \in [0..m - 1 -> V] /\ f[0] = base
        /\ \A n \in 1..m - 1 : f[n] = next[<<f[n - 1], n>>]
    BY <2>1 DEF Computes
  <2> DEFINE new == next[<<f[m - 1], m>>]
             g == [n \in 0..m |-> IF n = m THEN new ELSE f[n]]
  <2>3. m - 1 \in 0..m - 1 /\ f[m - 1] \in V
    BY <2>2
  <2>4. <<f[m - 1], m>> \in V \X (1..N)
    BY <2>3
  <2>5. new \in V
    BY <2>4
  <2>6. \A n \in 0..m : n # m => n \in 0..m - 1
    BY <1>2
  <2> HIDE DEF new
  <2>7. g \in [0..m -> V] /\ 0 \in 0..m /\ m # 0 /\ g[m] = new
        /\ \A n \in 0..m - 1 : g[n] = f[n]
    BY <2>2, <2>5, <2>6
  <2> HIDE DEF g
  <2>8. g[0] = base
    BY <2>2, <2>3, <2>7
  <2>9. ASSUME NEW n \in 1..m PROVE g[n] = next[<<g[n - 1], n>>]
    <3>1. n - 1 \in 0..m - 1 /\ g[n - 1] = f[n - 1]
      BY <2>7
    <3>2. CASE n = m
      BY <2>7, <3>1, <3>2 DEF new
    <3>3. CASE n # m
      <4>1. n \in 1..m - 1 /\ n \in 0..m - 1
        BY <3>3
      <4>2. g[n] = f[n] /\ f[n] = next[<<f[n - 1], n>>]
        BY <2>2, <2>7, <4>1
      <4> QED
        BY <3>1, <4>2
    <3> QED
      BY <3>2, <3>3
  <2>10. Computes(g, V, base, next, m)
    BY <2>7, <2>8, <2>9 DEF Computes
  <2>11. m \in 0..N
    OBVIOUS
  <2> QED
    BY <2>10, <2>11
<1> HIDE DEF Done
<1>3. 0..N \subseteq Done
  BY <1>1, <1>2, UpTo
<1>4. N \in Done
  BY <1>3
<1> QED
  BY <1>4 DEF Done

(* The loop of simplify_path, turn by turn *)
LEMMA Simplified ==
  ASSUME NEW path \in Seq(Segment)
  PROVE  \E f \in [0..Len(path) -> Seq(Plain)] :
    /\ f[0] = <<>> /\ \A n \in 1..Len(path) : f[n] = Step(f[n - 1], path[n])
    /\ simplify_path(path) = f[Len(path)]
<1> DEFINE N == Len(path)
           V == Seq(Plain)
           next == [pair \in V \X (1..N) |-> Step(pair[1], path[pair[2]])]
           segments == CHOOSE f : f = [n \in 0..N |-> IF n = 0 THEN <<>>
                                                      ELSE Step(f[n - 1], path[n])]
<1>1. N \in Nat /\ \A n \in 1..N : path[n] \in Segment
  OBVIOUS
<1>2. next \in [V \X (1..N) -> V]
  <2>1. ASSUME NEW pair \in V \X (1..N) PROVE Step(pair[1], path[pair[2]]) \in V
    BY <1>1, StepType
  <2> QED
    BY <2>1
<1>3. <<>> \in V
  OBVIOUS
<1>4. PICK f : Computes(f, V, <<>>, next, N)
  <2>1. N \in Nat /\ <<>> \in V /\ next \in [V \X (1..N) -> V]
    BY <1>1, <1>2, <1>3
  <2> HIDE DEF N, V, next
  <2> QED
    BY <2>1, Recursion
<1>5. /\ f \in [0..N -> V] /\ f[0] = <<>>
      /\ \A n \in 1..N : f[n] = next[<<f[n - 1], n>>]
  <2> HIDE DEF N, V, next
  <2> QED
    BY <1>4 DEF Computes
<1>6. ASSUME NEW n \in 0..N, n # 0 PROVE f[n] = Step(f[n - 1], path[n])
  <2>1. n - 1 \in 0..N /\ n \in 1..N
    BY <1>1, <1>6
  <2>2. <<f[n - 1], n>> \in V \X (1..N)
    BY <1>5, <2>1
  <2> QED
    BY <1>5, <2>1, <2>2
<1>7. f = [n \in 0..N |-> IF n = 0 THEN <<>> ELSE Step(f[n - 1], path[n])]
  BY <1>5, <1>6
<1>8. segments = [n \in 0..N |-> IF n = 0 THEN <<>> ELSE Step(segments[n - 1], path[n])]
  BY <1>7
<1>9. simplify_path(path) = segments[N]
  BY DEF simplify_path
<1>10. segments \in [0..N -> V]
  <2> DEFINE Good == {n \in 0..N : segments[n] \in V}
  <2>1. 0 \in Good
    <3>1. 0 \in 0..N
      BY <1>1
    <3> HIDE DEF segments, N, V
    <3>2. segments[0] = <<>>
      BY <1>8, <3>1
    <3> QED
      BY <1>3, <3>1, <3>2
  <2>2. ASSUME NEW n \in 1..N, n - 1 \in Good PROVE n \in Good
    <3>1. n \in 0..N /\ n # 0 /\ path[n] \in Segment
      BY <1>1
    <3>2. segments[n] = Step(segments[n - 1], path[n])
      BY <1>8, <3>1
    <3>3. segments[n - 1] \in Seq(Plain)
      BY <2>2
    <3> HIDE DEF segments, N
    <3>4. segments[n] \in Seq(Plain)
      BY <3>1, <3>2, <3>3, StepType
    <3> QED
      BY <3>1, <3>4
  <2> HIDE DEF Good, segments, V
  <2>3. 0..N \subseteq Good
    BY <1>1, <2>1, <2>2, UpTo
  <2>4. \A n \in 0..N : segments[n] \in V
    BY <2>3 DEF Good
  <2> QED
    BY <1>8, <2>4
<1>11. segments[0] = <<>> /\ \A n \in 1..N : segments[n] = Step(segments[n - 1], path[n])
  <2>1. 0 \in 0..N /\ \A n \in 1..N : n \in 0..N /\ n # 0
    BY <1>1
  <2> HIDE DEF segments, N
  <2> QED
    BY <1>8, <2>1
<1> HIDE DEF segments
<1> QED
  BY <1>9, <1>10, <1>11

LEMMA SimplifyType ==
  ASSUME NEW path \in Seq(Segment)
  PROVE  simplify_path(path) \in Seq(Plain)
<1>1. PICK f \in [0..Len(path) -> Seq(Plain)] : simplify_path(path) = f[Len(path)]
  BY Simplified
<1>2. Len(path) \in 0..Len(path)
  OBVIOUS
<1> QED
  BY <1>1, <1>2

(* A set of numbers has a least one. *)
LEMMA Least ==
  ASSUME NEW S \in SUBSET Nat, S # {}
  PROVE  \E n \in S : \A m \in S : n <= m
<1>1. IsWellFoundedOn(Less, Nat)
  BY NatLessThanWellFounded DEF OpToRel, Less
<1>2. PICK n \in S : \A m \in S : <<m, n>> \notin Less
  BY <1>1, WFMin
<1>3. ASSUME NEW m \in S PROVE n <= m
  <2>1. m \in Nat /\ n \in Nat /\ <<m, n>> \notin Less
    BY <1>2
  <2>2. <<m, n>> \in Nat \X Nat /\ <<m, n>>[1] = m /\ <<m, n>>[2] = n
    BY <2>1
  <2>3. ~(m < n)
    BY <2>1, <2>2 DEF Less
  <2> QED
    BY <2>1, <2>3
<1> QED
  BY <1>3

-----------------------------------------------------------------------------
(* Prefixes, and the order of paths *)

(* IsPrefix, element by element *)
LEMMA PrefixIs ==
  ASSUME NEW S, NEW s \in Seq(S), NEW t \in Seq(S)
  PROVE  IsPrefix(s, t) <=> Len(s) <= Len(t) /\ \A i \in 1..Len(s) : s[i] = t[i]
<1>1. /\ SubSeq(s, 1, Len(s)) = s /\ Len(s) \in Nat /\ Len(t) \in Nat
      /\ DOMAIN s = 1..Len(s)
  BY SubSeqFull, LenProperties
<1>2. ASSUME Len(s) <= Len(t)
      PROVE  /\ SubSeq(t, 1, Len(s)) \in Seq(S) /\ Len(SubSeq(t, 1, Len(s))) = Len(s)
             /\ \A i \in 1..Len(s) : SubSeq(t, 1, Len(s))[i] = t[i]
  BY <1>1, <1>2
<1>3. ASSUME Len(s) <= Len(t), \A i \in 1..Len(s) : s[i] = t[i]
      PROVE  s = SubSeq(t, 1, Len(s))
  BY <1>1, <1>2, <1>3, SeqEqual
<1> QED
  BY <1>1, <1>2, <1>3 DEF IsPrefix

(* Of two paths one sorts before the other. *)
LEMMA BeforeTotal ==
  ASSUME NEW p \in Seq(Plain), NEW q \in Seq(Plain), p # q, ~Before(p, q)
  PROVE  Before(q, p)
<1> DEFINE D == {i \in DOMAIN p \cap DOMAIN q : p[i] # q[i]}
<1>1. /\ Len(p) \in Nat /\ Len(q) \in Nat /\ DOMAIN p = 1..Len(p) /\ DOMAIN q = 1..Len(q)
      /\ \A i \in 1..Len(p) : p[i] \in Plain /\ \A j \in 1..Len(q) : q[j] \in Plain
  BY LenProperties
<1>2. CASE D = {}
  <2>1. \A i \in 1..Len(p) : i \in 1..Len(q) => p[i] = q[i]
    BY <1>1, <1>2
  <2>2. CASE Len(p) <= Len(q)
    <3>1. IsPrefix(p, q)
      BY <1>1, <2>1, <2>2, PrefixIs
    <3> QED
      BY <3>1 DEF Before, IsStrictPrefix
  <2>3. CASE Len(q) <= Len(p)
    <3>1. IsPrefix(q, p)
      BY <1>1, <2>1, <2>3, PrefixIs
    <3> QED
      BY <3>1 DEF Before, IsStrictPrefix
  <2> QED
    BY <1>1, <2>2, <2>3
<1>3. CASE D # {}
  <2>1. PICK i \in D : \A j \in D : i <= j
    <3>1. D \in SUBSET Nat
      BY <1>1
    <3> HIDE DEF D
    <3> QED
      BY <1>3, <3>1, Least
  <2>2. i \in DOMAIN p \cap DOMAIN q /\ p[i] # q[i] /\ i \in Nat
    BY <1>1, <2>1
  <2>3. \A j \in 1..i - 1 : p[j] = q[j]
    <3>1. ASSUME NEW j \in 1..i - 1 PROVE j \in DOMAIN p \cap DOMAIN q /\ ~(i <= j)
      BY <1>1, <2>2
    <3> QED
      BY <2>1, <3>1
  <2> DEFINE m == i < Len(p)
             n == i < Len(q)
             P == Rank[<<p[i], m>>]
             Q == Rank[<<q[i], n>>]
  <2>4. P \in Nat /\ Q \in Nat /\ P # Q
    <3>1. p[i] \in Plain /\ q[i] \in Plain /\ m \in BOOLEAN /\ n \in BOOLEAN
      BY <1>1, <2>2
    <3>2. \A s \in Plain, b \in BOOLEAN : Rank[<<s, b>>] \in Nat
      BY ConfAssumption
    <3>3. \A s, t \in Plain, b, c \in BOOLEAN : Rank[<<s, b>>] = Rank[<<t, c>>] => s = t
      BY ConfAssumption
    <3> HIDE DEF m, n
    <3> QED
      BY <2>2, <3>1, <3>2, <3>3
  <2>5. ~(P < Q)
    BY <2>2, <2>3 DEF Before
  <2>6. Q < P
    <3> HIDE DEF P, Q
    <3> QED
      BY <2>4, <2>5
  <2> QED
    BY <2>2, <2>3, <2>6 DEF Before
<1> QED
  BY <1>2, <1>3

-----------------------------------------------------------------------------
(* What a path means *)

(* How many of the numbers from i to j are in S *)
Count(S, i, j) == Cardinality(S \cap (i..j))

(* Counting up to j adds j, or not. *)
LEMMA CountTo ==
  ASSUME NEW S, NEW i \in Nat, NEW j \in Nat
  PROVE  /\ Count(S, i, j) \in Nat
         /\ j < i => Count(S, i, j) = 0
         /\ i <= j /\ j \in S => Count(S, i, j) = Count(S, i, j - 1) + 1
         /\ i <= j /\ j \notin S => Count(S, i, j) = Count(S, i, j - 1)
<1> DEFINE T(n) == S \cap (i..n)
<1>1. ASSUME NEW n \in Int PROVE IsFiniteSet(T(n))
  <2>1. IsFiniteSet(i..n) /\ T(n) \subseteq i..n
    BY FS_Interval
  <2> QED
    BY <2>1, FS_Subset
<1>2. Cardinality(T(j)) \in Nat
  <2>1. j \in Int
    OBVIOUS
  <2> HIDE DEF T
  <2> QED
    BY <1>1, <2>1, FS_CardinalityType
<1>3. ASSUME j < i PROVE Cardinality(T(j)) = 0
  <2>1. T(j) = {}
    BY <1>3
  <2> QED
    BY <2>1, FS_EmptySet
<1>4. ASSUME i <= j, j \in S PROVE Cardinality(T(j)) = Cardinality(T(j - 1)) + 1
  <2>1. T(j) = T(j - 1) \cup {j} /\ j \notin T(j - 1) /\ j - 1 \in Int
    BY <1>4
  <2> HIDE DEF T
  <2> QED
    BY <1>1, <2>1, FS_AddElement
<1>5. ASSUME i <= j, j \notin S PROVE T(j) = T(j - 1)
  BY <1>5
<1> QED
  BY <1>2, <1>3, <1>4, <1>5 DEF Count

LEMMA CountSegments ==
  ASSUME NEW path, NEW i \in Nat, NEW j \in Nat
  PROVE  /\ Plains(path, i, j) \in Nat /\ Ups(path, i, j) \in Nat
         /\ j < i => Plains(path, i, j) = 0 /\ Ups(path, i, j) = 0
         /\ i <= j =>
              /\ Plains(path, i, j) = Plains(path, i, j - 1) + (IF path[j] \in Plain THEN 1 ELSE 0)
              /\ Ups(path, i, j) = Ups(path, i, j - 1) + (IF path[j] = ".." THEN 1 ELSE 0)
<1> DEFINE P == {k \in Int : path[k] \in Plain}
           U == {k \in Int : path[k] = ".."}
<1>1. \A n \in Int : /\ {k \in i..n : path[k] \in Plain} = P \cap (i..n)
                     /\ {k \in i..n : path[k] = ".."} = U \cap (i..n)
  OBVIOUS
<1>2. \A n \in Int : Plains(path, i, n) = Count(P, i, n) /\ Ups(path, i, n) = Count(U, i, n)
  BY <1>1 DEF Plains, Ups, Count
<1>3. /\ j \in Int /\ j - 1 \in Int
      /\ j \in P <=> path[j] \in Plain
      /\ j \in U <=> path[j] = ".."
  OBVIOUS
<1> HIDE DEF P, U
<1>4. /\ Count(P, i, j) \in Nat
      /\ j < i => Count(P, i, j) = 0
      /\ i <= j /\ j \in P => Count(P, i, j) = Count(P, i, j - 1) + 1
      /\ i <= j /\ j \notin P => Count(P, i, j) = Count(P, i, j - 1)
  BY CountTo
<1>5. /\ Count(U, i, j) \in Nat
      /\ j < i => Count(U, i, j) = 0
      /\ i <= j /\ j \in U => Count(U, i, j) = Count(U, i, j - 1) + 1
      /\ i <= j /\ j \notin U => Count(U, i, j) = Count(U, i, j - 1)
  BY CountTo
<1>6. i <= j => Count(P, i, j - 1) \in Nat /\ Count(U, i, j - 1) \in Nat
  <2>1. CASE i <= j /\ j = 0
    <3>1. j - 1 < i
      BY <2>1
    <3>2. \A S : S \cap (i..j - 1) = {}
      BY <3>1
    <3> QED
      BY <3>2, FS_EmptySet DEF Count
  <2>2. CASE j # 0
    <3>1. j - 1 \in Nat
      BY <2>2
    <3> QED
      BY <3>1, CountTo
  <2> QED
    BY <2>1, <2>2
<1> QED
  BY <1>2, <1>3, <1>4, <1>5, <1>6

(* The name at i is left when the path is read as far as n. *)
LeftAt(path, i, n) ==
  /\ path[i] \in Plain
  /\ \A j \in i..n : Ups(path, i + 1, j) <= Plains(path, i + 1, j)

(* The places in the path of what is left after n of its segments *)
Places(places, path, n, segments) ==
  /\ places \in Seq(1..n)
  /\ Len(segments) = Len(places)
  /\ \A k \in 1..Len(places) : segments[k] = path[places[k]]
  /\ \A k, l \in 1..Len(places) : k < l => places[k] < places[l]
  /\ \A i \in 1..n : LeftAt(path, i, n) <=> \E k \in 1..Len(places) : places[k] = i
  /\ \A k \in 1..Len(places) :
       Plains(path, places[k] + 1, n) = Ups(path, places[k] + 1, n) + (Len(places) - k)

(* A turn of the loop keeps or drops the last place, or adds its own. *)
LEMMA PlacesStep ==
  ASSUME NEW path \in Seq(Segment), NEW n \in 1..Len(path), NEW segments \in Seq(Plain),
         NEW places, Places(places, path, n - 1, segments)
  PROVE  \E new : Places(new, path, n, Step(segments, path[n]))
<1> DEFINE c == path[n]
           L == Len(places)
<1>1. /\ n \in Nat /\ Len(path) \in Nat /\ c \in Segment /\ n - 1 \in Nat
  BY LenProperties
<1>2. /\ places \in Seq(1..n - 1) /\ L \in Nat /\ DOMAIN places = 1..L
      /\ \A k \in 1..L : places[k] \in 1..n - 1
      /\ Len(segments) = L
      /\ \A k \in 1..L : segments[k] = path[places[k]]
      /\ \A k, l \in 1..L : k < l => places[k] < places[l]
      /\ \A i \in 1..n - 1 : LeftAt(path, i, n - 1) <=> \E k \in 1..L : places[k] = i
      /\ \A k \in 1..L : Plains(path, places[k] + 1, n - 1) =
                           Ups(path, places[k] + 1, n - 1) + (L - k)
  BY LenProperties, ElementOfSeq DEF Places
<1>3. ASSUME NEW i \in 1..n - 1
      PROVE  /\ Plains(path, i + 1, n) =
                  Plains(path, i + 1, n - 1) + (IF c \in Plain THEN 1 ELSE 0)
             /\ Ups(path, i + 1, n) = Ups(path, i + 1, n - 1) + (IF c = ".." THEN 1 ELSE 0)
             /\ Plains(path, i + 1, n - 1) \in Nat /\ Ups(path, i + 1, n - 1) \in Nat
  <2>1. i + 1 \in Nat /\ i + 1 <= n
    BY <1>1
  <2> QED
    BY <1>1, <2>1, CountSegments
<1>4. ASSUME NEW i \in 1..n - 1
      PROVE  LeftAt(path, i, n) <=>
               LeftAt(path, i, n - 1) /\ Ups(path, i + 1, n) <= Plains(path, i + 1, n)
  <2>1. i..n = (i..n - 1) \cup {n}
    BY <1>1
  <2> QED
    BY <2>1 DEF LeftAt
<1>5. ASSUME NEW i \in 1..n - 1
      PROVE  LeftAt(path, i, n - 1) => Ups(path, i + 1, n - 1) <= Plains(path, i + 1, n - 1)
  <2>1. n - 1 \in i..n - 1
    BY <1>1
  <2> QED
    BY <2>1 DEF LeftAt
<1>6. LeftAt(path, n, n) <=> c \in Plain
  <2>1. Ups(path, n + 1, n) = 0 /\ Plains(path, n + 1, n) = 0
    <3>1. n + 1 \in Nat /\ n < n + 1
      BY <1>1
    <3> QED
      BY <1>1, <3>1, CountSegments
  <2>2. \A j \in n..n : j = n
    BY <1>1
  <2> QED
    BY <2>1, <2>2 DEF LeftAt
<1>7. 1..n = (1..n - 1) \cup {n} /\ n \notin 1..n - 1
  BY <1>1
<1> HIDE DEF L, c
<1>8. CASE c \in {"", "."}
  <2>1. c \notin Plain /\ c # ".."
    BY <1>8, PlainAssumption
  <2>2. Step(segments, c) = segments
    BY <1>8, <2>1, Zenon DEF Step
  <2>3. places \in Seq(1..n)
    BY <1>2, <1>7, SeqMonotonic
  <2>4. \A i \in 1..n - 1 : LeftAt(path, i, n) <=> LeftAt(path, i, n - 1)
    BY <1>3, <1>4, <1>5, <2>1
  <2>5. \A i \in 1..n : LeftAt(path, i, n) <=> \E k \in 1..L : places[k] = i
    BY <1>2, <1>6, <1>7, <2>1, <2>4
  <2>6. \A k \in 1..L : Plains(path, places[k] + 1, n) = Ups(path, places[k] + 1, n) + (L - k)
    BY <1>2, <1>3, <2>1
  <2>7. Places(places, path, n, segments)
    BY <1>2, <2>3, <2>5, <2>6 DEF Places, L
  <2> QED
    BY <2>2, <2>7 DEF c
<1>9. CASE c \in Plain
  <2>1. c \notin {"", "."} /\ c # ".."
    BY <1>9, PlainAssumption
  <2>2. Step(segments, c) = Append(segments, c)
    BY <2>1, Zenon DEF Step
  <2> DEFINE new == Append(places, n)
             longer == Append(segments, c)
  <2>3. /\ new \in Seq(1..n) /\ Len(new) = L + 1
        /\ (\A k \in 1..L : new[k] = places[k]) /\ new[L + 1] = n
    <3>1. places \in Seq(1..n) /\ n \in 1..n
      BY <1>1, <1>2, <1>7, SeqMonotonic
    <3> QED
      BY <3>1, AppendProperties DEF L
  <2>4. /\ Len(longer) = L + 1
        /\ (\A k \in 1..L : longer[k] = segments[k]) /\ longer[L + 1] = c
    BY <1>2, <1>9, AppendProperties
  <2>5. 1..L + 1 = (1..L) \cup {L + 1}
    BY <1>2
  <2>6. new[L + 1] = n /\ longer[L + 1] = c
    BY <2>3, <2>4
  <2> HIDE DEF new, longer
  <2>7. \A k \in 1..L + 1 : longer[k] = path[new[k]]
    BY <1>2, <2>3, <2>4, <2>5, <2>6 DEF c
  <2>8. ASSUME NEW k \in 1..L + 1, NEW l \in 1..L + 1, k < l PROVE new[k] < new[l]
    <3>1. k \in 1..L /\ new[k] = places[k] /\ places[k] \in 1..n - 1
      <4>1. L \in Nat
        BY <1>2
      <4>2. k \in 1..L
        BY <2>8, <4>1
      <4> QED
        BY <1>2, <2>3, <4>2
    <3>2. CASE l \in 1..L
      BY <1>2, <2>3, <2>8, <3>1, <3>2
    <3>3. CASE l = L + 1
      BY <1>1, <2>6, <3>1, <3>3
    <3> QED
      BY <2>5, <3>2, <3>3
  <2>13. (IF c \in Plain THEN 1 ELSE 0) = 1 /\ (IF c = ".." THEN 1 ELSE 0) = 0
    BY <1>9, <2>1, Zenon
  <2>9. ASSUME NEW i \in 1..n - 1 PROVE LeftAt(path, i, n) <=> LeftAt(path, i, n - 1)
    <3>1. /\ Plains(path, i + 1, n) = Plains(path, i + 1, n - 1) + 1
          /\ Ups(path, i + 1, n) = Ups(path, i + 1, n - 1) + 0
          /\ Plains(path, i + 1, n - 1) \in Nat /\ Ups(path, i + 1, n - 1) \in Nat
      BY <1>3, <2>13
    <3> QED
      BY <1>4, <1>5, <3>1
  <2>10. \A i \in 1..n : LeftAt(path, i, n) <=> \E k \in 1..L + 1 : new[k] = i
    <3>1. ASSUME NEW i \in 1..n - 1
          PROVE  (\E k \in 1..L + 1 : new[k] = i) <=> \E k \in 1..L : places[k] = i
      BY <1>7, <2>3, <2>5, <2>6
    <3>2. \E k \in 1..L + 1 : new[k] = n
      BY <2>5, <2>6
    <3> QED
      BY <1>2, <1>6, <1>7, <1>9, <2>9, <3>1, <3>2
  <2>11. ASSUME NEW k \in 1..L + 1
         PROVE  Plains(path, new[k] + 1, n) = Ups(path, new[k] + 1, n) + ((L + 1) - k)
    <3>1. CASE k \in 1..L
      <4>1. new[k] = places[k] /\ places[k] \in 1..n - 1
        BY <1>2, <2>3, <3>1
      <4>2. /\ Plains(path, places[k] + 1, n) = Plains(path, places[k] + 1, n - 1) + 1
            /\ Ups(path, places[k] + 1, n) = Ups(path, places[k] + 1, n - 1) + 0
            /\ Ups(path, places[k] + 1, n - 1) \in Nat
        BY <1>3, <2>13, <4>1
      <4>3. Plains(path, places[k] + 1, n - 1) = Ups(path, places[k] + 1, n - 1) + (L - k)
        BY <1>2, <3>1
      <4> QED
        BY <1>2, <3>1, <4>1, <4>2, <4>3
    <3>2. CASE k = L + 1
      <4>1. Ups(path, n + 1, n) = 0 /\ Plains(path, n + 1, n) = 0
        <5>1. n + 1 \in Nat /\ n < n + 1
          BY <1>1
        <5> QED
          BY <1>1, <5>1, CountSegments
      <4> QED
        BY <1>2, <2>6, <3>2, <4>1
    <3> QED
      BY <2>5, <3>1, <3>2
  <2>12. Places(new, path, n, longer)
    BY <2>3, <2>4, <2>7, <2>8, <2>10, <2>11 DEF Places
  <2> QED
    BY <2>2, <2>12 DEF c, longer
<1>10. CASE c = ".." /\ L = 0
  <2>1. c \notin {"", "."} /\ c \notin Plain
    BY <1>10, PlainAssumption
  <2>2. segments = <<>>
    BY <1>2, <1>10
  <2>3. Step(segments, c) = <<>>
    BY <1>10, <2>1, <2>2, Zenon DEF Step
  <2>4. \A i \in 1..n : ~LeftAt(path, i, n)
    BY <1>2, <1>4, <1>6, <1>7, <1>10, <2>1
  <2>5. <<>> \in Seq(1..n) /\ Len(<<>>) = 0 /\ \A k \in 1..0 : FALSE
    OBVIOUS
  <2>6. Places(<<>>, path, n, <<>>)
    BY <2>4, <2>5 DEF Places
  <2> QED
    BY <2>3, <2>6 DEF c
<1>11. CASE c = ".." /\ L # 0
  <2>1. c \notin {"", "."} /\ c \notin Plain
    BY <1>11, PlainAssumption
  <2>2. segments # <<>>
    BY <1>2, <1>11
  <2> DEFINE new == Front(places)
             shorter == Front(segments)
  <2>3. Step(segments, c) = shorter
    BY <1>11, <2>1, <2>2, Zenon DEF Step
  <2>4. new \in Seq(1..n) /\ Len(new) = L - 1 /\ \A k \in 1..L - 1 : new[k] = places[k]
    <3>1. \A k \in 1..L - 1 : places[k] \in 1..n
      BY <1>2, <1>7
    <3>2. 1 \in Int /\ L - 1 \in Int /\ new = SubSeq(places, 1, L - 1)
      BY <1>2 DEF Front, L
    <3>3. /\ SubSeq(places, 1, L - 1) \in Seq(1..n)
          /\ Len(SubSeq(places, 1, L - 1)) = IF 1 <= L - 1 THEN L - 1 - 1 + 1 ELSE 0
          /\ \A k \in 1..L - 1 - 1 + 1 : SubSeq(places, 1, L - 1)[k] = places[1 + k - 1]
      BY <3>1, <3>2, SubSeqProperties
    <3>4. \A k \in 1..L - 1 : k \in 1..L - 1 - 1 + 1 /\ 1 + k - 1 = k
      BY <1>2
    <3> HIDE DEF new
    <3> QED
      BY <1>2, <1>11, <3>2, <3>3, <3>4
  <2>5. Len(shorter) = L - 1 /\ \A k \in 1..L - 1 : shorter[k] = segments[k]
    <3>1. \A k \in 1..L - 1 : segments[k] \in Plain
      BY <1>2, ElementOfSeq
    <3>2. 1 \in Int /\ L - 1 \in Int /\ shorter = SubSeq(segments, 1, L - 1)
      BY <1>2 DEF Front
    <3>3. /\ Len(SubSeq(segments, 1, L - 1)) = IF 1 <= L - 1 THEN L - 1 - 1 + 1 ELSE 0
          /\ \A k \in 1..L - 1 - 1 + 1 : SubSeq(segments, 1, L - 1)[k] = segments[1 + k - 1]
      BY <3>1, <3>2, SubSeqProperties
    <3>4. \A k \in 1..L - 1 : k \in 1..L - 1 - 1 + 1 /\ 1 + k - 1 = k
      BY <1>2
    <3> HIDE DEF shorter
    <3> QED
      BY <1>2, <1>11, <3>2, <3>3, <3>4
  <2>6. 1..L = (1..L - 1) \cup {L} /\ L \notin 1..L - 1
    BY <1>2, <1>11
  <2> HIDE DEF new, shorter
  <2>7. \A k \in 1..L - 1 : shorter[k] = path[new[k]]
    BY <1>2, <2>4, <2>5, <2>6
  <2>8. \A k, l \in 1..L - 1 : k < l => new[k] < new[l]
    BY <1>2, <2>4, <2>6
  <2>9. ASSUME NEW k \in 1..L
        PROVE  /\ Plains(path, places[k] + 1, n) = Plains(path, places[k] + 1, n - 1)
               /\ Ups(path, places[k] + 1, n) = Ups(path, places[k] + 1, n - 1) + 1
               /\ Ups(path, places[k] + 1, n - 1) \in Nat
               /\ Plains(path, places[k] + 1, n - 1) = Ups(path, places[k] + 1, n - 1) + (L - k)
    <3>1. places[k] \in 1..n - 1
      BY <1>2
    <3> QED
      BY <1>2, <1>3, <1>11, <2>1, <3>1
  <2>10. ASSUME NEW k \in 1..L
         PROVE  LeftAt(path, places[k], n) <=> k \in 1..L - 1
    <3>1. places[k] \in 1..n - 1 /\ LeftAt(path, places[k], n - 1)
      BY <1>2
    <3>2. Ups(path, places[k] + 1, n) <= Plains(path, places[k] + 1, n) <=> k \in 1..L - 1
      <4> DEFINE plains == Plains(path, places[k] + 1, n)
                 ups    == Ups(path, places[k] + 1, n - 1)
      <4>1. /\ Ups(path, places[k] + 1, n) = ups + 1
            /\ plains = ups + (L - k) /\ ups \in Nat
        BY <2>9
      <4>2. L \in Nat
        BY <1>2
      <4>3. \A u, l \in Nat : \A j \in 1..l : u + 1 <= u + (l - j) <=> j \in 1..l - 1
        OBVIOUS
      <4> HIDE DEF plains, ups, L
      <4>4. ups + 1 <= ups + (L - k) <=> k \in 1..L - 1
        BY <4>1, <4>2, <4>3
      <4> QED
        BY <4>1, <4>4 DEF plains
    <3> QED
      BY <1>4, <3>1, <3>2
  <2>11. ASSUME NEW i \in 1..n
         PROVE  LeftAt(path, i, n) <=> \E k \in 1..L - 1 : new[k] = i
    <3>1. ASSUME LeftAt(path, i, n) PROVE \E k \in 1..L - 1 : new[k] = i
      <4>1. i \in 1..n - 1
        BY <1>6, <1>7, <2>1, <3>1
      <4>2. PICK k \in 1..L : places[k] = i
        BY <1>2, <1>4, <3>1, <4>1
      <4>3. k \in 1..L - 1
        BY <2>10, <3>1, <4>2
      <4> QED
        BY <2>4, <4>2, <4>3
    <3>2. ASSUME NEW k \in 1..L - 1, new[k] = i PROVE LeftAt(path, i, n)
      <4>1. k \in 1..L /\ places[k] = i
        BY <2>4, <2>6, <3>2
      <4> QED
        BY <2>10, <3>2, <4>1
    <3> QED
      BY <3>1, <3>2
  <2>12. ASSUME NEW k \in 1..L - 1
         PROVE  Plains(path, new[k] + 1, n) = Ups(path, new[k] + 1, n) + ((L - 1) - k)
    <3> DEFINE plains == Plains(path, places[k] + 1, n)
               before == Plains(path, places[k] + 1, n - 1)
               ups    == Ups(path, places[k] + 1, n - 1)
    <3>1. k \in 1..L /\ new[k] = places[k]
      BY <2>4, <2>6
    <3>2. /\ plains = before /\ before = ups + (L - k) /\ ups \in Nat
          /\ Ups(path, places[k] + 1, n) = ups + 1
      BY <2>9, <3>1
    <3>3. L \in Nat
      BY <1>2
    <3> HIDE DEF plains, before, ups, L
    <3>4. plains = (ups + 1) + ((L - 1) - k)
      BY <3>2, <3>3
    <3> QED
      BY <3>1, <3>2, <3>4 DEF plains
  <2>13. Places(new, path, n, shorter)
    BY <2>4, <2>5, <2>7, <2>8, <2>11, <2>12 DEF Places
  <2> QED
    BY <2>3, <2>13 DEF c, shorter
<1> QED
  BY <1>1, <1>8, <1>9, <1>10, <1>11 DEF Segment

(* The place of an element of an increasing sequence is the number of      *)
(* those up to it.                                                         *)
LEMMA Enumerated ==
  ASSUME NEW places \in Seq(Nat), NEW n \in 0..Len(places),
         \A k, l \in 1..Len(places) : k < l => places[k] < places[l]
  PROVE  Cardinality({places[k] : k \in 1..n}) = n
<1>1. n \in Nat /\ Len(places) \in Nat /\ \A k \in 1..Len(places) : places[k] \in Nat
  BY LenProperties
<1> DEFINE g == [k \in 1..n |-> places[k]]
           S == {places[k] : k \in 1..n}
<1>2. g \in Bijection(1..n, S)
  <2>1. g \in [1..n -> S] /\ \A x \in S : \E k \in 1..n : g[k] = x
    OBVIOUS
  <2>2. ASSUME NEW k \in 1..n, NEW l \in 1..n, g[k] = g[l] PROVE k = l
    <3>1. k \in 1..Len(places) /\ l \in 1..Len(places) /\ places[k] = places[l]
      BY <1>1, <2>2
    <3>2. ~(k < l) /\ ~(l < k)
      BY <1>1, <3>1
    <3> QED
      BY <1>1, <3>2
  <2> HIDE DEF S, g
  <2> QED
    BY <2>1, <2>2 DEF Bijection, Injection, Surjection, IsInjective
<1>3. IsFiniteSet(1..n) /\ Cardinality(1..n) = n
  BY <1>1, FS_Interval
<1> HIDE DEF S, g
<1>4. Cardinality(S) = n
  BY <1>2, <1>3, FS_Bijection DEF ExistsBijection
<1> QED
  BY <1>4 DEF S

(* simplify_path, which goes through a path with a stack of segments,      *)
(* gives what the path means: the names that no later ".." cancels, in     *)
(* their order (path_utils.cpp).                                           *)
THEOREM SimplifyIsMeaning ==
  ASSUME NEW path \in Seq(Segment)
  PROVE  simplify_path(path) = Meaning(path)
<1> DEFINE N == Len(path)
<1>1. N \in Nat
  BY LenProperties
<1>2. PICK f \in [0..N -> Seq(Plain)] :
        /\ f[0] = <<>> /\ \A n \in 1..N : f[n] = Step(f[n - 1], path[n])
        /\ simplify_path(path) = f[N]
  BY Simplified
<1> DEFINE Good == {n \in 0..N : \E places : Places(places, path, n, f[n])}
<1>3. 0 \in Good
  <2>1. /\ <<>> \in Seq(1..0) /\ Len(<<>>) = 0 /\ \A k \in 1..0 : FALSE
    OBVIOUS
  <2>2. Places(<<>>, path, 0, <<>>)
    BY <2>1 DEF Places
  <2> QED
    BY <1>1, <1>2, <2>2
<1>4. ASSUME NEW n \in 1..N, n - 1 \in Good PROVE n \in Good
  <2>1. PICK places : Places(places, path, n - 1, f[n - 1])
    BY <1>4
  <2>2. f[n - 1] \in Seq(Plain) /\ n \in 0..N
    BY <1>1, <1>2
  <2>3. \E new : Places(new, path, n, Step(f[n - 1], path[n]))
    BY <2>1, <2>2, PlacesStep
  <2> QED
    BY <1>2, <2>2, <2>3
<1>5. PICK places : Places(places, path, N, f[N])
  <2> HIDE DEF Good, N
  <2>1. 0..N \subseteq Good
    BY <1>1, <1>3, <1>4, UpTo
  <2>2. N \in 0..N
    BY <1>1
  <2>3. N \in Good
    BY <2>1, <2>2
  <2> QED
    BY <2>3 DEF Good
<1> DEFINE L == Len(places)
<1>6. /\ places \in Seq(1..N) /\ places \in Seq(Nat) /\ L \in Nat
      /\ \A k \in 1..L : places[k] \in 1..N
      /\ Len(f[N]) = L /\ \A k \in 1..L : f[N][k] = path[places[k]]
      /\ \A k, l \in 1..L : k < l => places[k] < places[l]
      /\ \A i \in 1..N : LeftAt(path, i, N) <=> \E k \in 1..L : places[k] = i
  <2>1. 1..N \subseteq Nat
    BY <1>1
  <2>2. places \in Seq(1..N)
    BY <1>5 DEF Places
  <2> QED
    BY <1>5, <2>1, <2>2, SeqMonotonic, LenProperties, ElementOfSeq DEF Places
<1>7. Kept(path) = {places[k] : k \in 1..L}
  BY <1>6 DEF Kept, LeftAt
<1> HIDE DEF L
<1>8. Cardinality(Kept(path)) = L
  <2>1. L \in 0..Len(places) /\ L = Len(places)
    BY <1>6 DEF L
  <2>2. Cardinality({places[k] : k \in 1..L}) = L
    BY <1>6, <2>1, Enumerated
  <2> QED
    BY <1>7, <2>2
<1> DEFINE Place(i) == Cardinality({j \in Kept(path) : j <= i})
<1>9. ASSUME NEW k \in 1..L PROVE Place(places[k]) = k
  <2>1. {j \in Kept(path) : j <= places[k]} = {places[m] : m \in 1..k}
    <3>1. ASSUME NEW m \in 1..L PROVE places[m] <= places[k] <=> m \in 1..k
      <4>1. places[m] \in Nat /\ places[k] \in Nat /\ m \in Nat /\ k \in Nat
        BY <1>1, <1>6
      <4>2. (m < k => places[m] < places[k]) /\ (k < m => places[k] < places[m])
        BY <1>6
      <4> QED
        BY <4>1, <4>2
    <3>2. \A m \in 1..k : m \in 1..L
      BY <1>6
    <3> QED
      BY <1>7, <3>1, <3>2
  <2>2. k \in 0..L
    BY <1>6
  <2> QED
    BY <1>6, <2>1, <2>2, Enumerated DEF L
<1>10. ASSUME NEW n \in 1..L PROVE (CHOOSE i \in Kept(path) : Place(i) = n) = places[n]
  <2>1. places[n] \in Kept(path) /\ Place(places[n]) = n
    BY <1>7, <1>9
  <2>2. ASSUME NEW i \in Kept(path), Place(i) = n PROVE i = places[n]
    BY <1>7, <1>9, <2>2
  <2> HIDE DEF Place
  <2> QED
    BY <2>1, <2>2
<1>11. Meaning(path) = [n \in 1..L |-> path[places[n]]]
  <2>1. Meaning(path) = [n \in 1..Cardinality(Kept(path)) |->
                          path[CHOOSE i \in Kept(path) : Place(i) = n]]
    BY DEF Meaning
  <2> HIDE DEF Place
  <2> QED
    BY <1>8, <1>10, <2>1
<1>12. f[N] = [n \in 1..L |-> path[places[n]]]
  <2>1. f[N] \in Seq(Plain)
    BY <1>1, <1>2
  <2>2. f[N] \in [1..L -> Plain]
    BY <1>6, <2>1, LenProperties
  <2> HIDE DEF N
  <2> QED
    BY <1>6, <2>2
<1> QED
  BY <1>2, <1>11, <1>12

-----------------------------------------------------------------------------
(* What the blocks of a server are *)

(* A block, and the map of the blocks of a server *)
Block == [set : SUBSET Options, super : Seq(Plain) \cup {NULL}]

Blocks(paths) ==
  /\ DOMAIN paths \subseteq Seq(Plain) /\ IsFiniteSet(DOMAIN paths)
  /\ paths \in [DOMAIN paths -> Block]
  /\ \A p \in DOMAIN paths : paths[p].super \in DOMAIN paths \cup {NULL}

(* A copy has the same blocks. *)
LEMMA CopyIsBlocks ==
  ASSUME NEW paths, Blocks(paths)
  PROVE  Blocks(CopyPaths(paths)) /\ DOMAIN CopyPaths(paths) = DOMAIN paths
<1>1. DOMAIN CopyPaths(paths) = DOMAIN paths
  BY DEF CopyPaths
<1>2. ASSUME NEW p \in DOMAIN paths
      PROVE  /\ CopyPaths(paths)[p] \in Block
             /\ CopyPaths(paths)[p].super \in DOMAIN paths \cup {NULL}
  BY DEF CopyPaths, Blocks, Block
<1> QED
  BY <1>1, <1>2 DEF Blocks, CopyPaths

(* What the copy constructor does to a block *)
LEMMA CopyIs ==
  ASSUME NEW paths, Blocks(paths), NEW p \in DOMAIN paths
  PROVE  /\ CopyPaths(paths)[p].set = paths[p].set
         /\ CopyPaths(paths)[p].super =
              IF paths[p].super # NULL /\ (paths[p].super = p \/ Before(paths[p].super, p))
              THEN paths[p].super ELSE NULL
BY DEF CopyPaths, Blocks, Block

(* A copy of a copy is the copy. *)
LEMMA CopyTwice ==
  ASSUME NEW paths, Blocks(paths)
  PROVE  CopyPaths(CopyPaths(paths)) = CopyPaths(paths)
<1> DEFINE once == CopyPaths(paths)
<1>1. Blocks(once) /\ DOMAIN once = DOMAIN paths
  BY CopyIsBlocks
<1>2. DOMAIN CopyPaths(once) = DOMAIN once
  BY <1>1, CopyIsBlocks
<1>3. ASSUME NEW p \in DOMAIN once PROVE CopyPaths(once)[p] = once[p]
  <2>1. CopyPaths(once)[p].set = once[p].set /\ CopyPaths(once)[p].super = once[p].super
    BY <1>1, CopyIs
  <2>2. CopyPaths(once)[p] \in Block /\ once[p] \in Block
    BY <1>1, <1>2, CopyIsBlocks DEF Blocks
  <2> QED
    BY <2>1, <2>2 DEF Block
<1>4. /\ CopyPaths(once) = [p \in DOMAIN once |-> CopyPaths(once)[p]]
      /\ once = [p \in DOMAIN once |-> once[p]]
  BY DEF CopyPaths
<1> QED
  BY <1>3, <1>4

LEMMA SupersAre ==
  ASSUME NEW paths, Blocks(paths), NEW p \in DOMAIN paths
  PROVE  LET N  == Cardinality(DOMAIN paths)
             at == Supers(paths, p)
         IN  /\ N \in Nat /\ at \in [0..N -> DOMAIN paths \cup {NULL}] /\ at[0] = p
             /\ \A n \in 1..N : at[n] = IF at[n - 1] = NULL THEN NULL
                                        ELSE paths[at[n - 1]].super
<1> DEFINE N == Cardinality(DOMAIN paths)
           V == DOMAIN paths \cup {NULL}
           Out(b) == IF b = NULL THEN NULL ELSE paths[b].super
           next == [pair \in V \X (1..N) |-> Out(pair[1])]
           at == CHOOSE f : f = [n \in 0..N |-> IF n = 0 THEN p ELSE Out(f[n - 1])]
<1>1. N \in Nat
  BY FS_CardinalityType DEF Blocks
<1>2. \A b \in V : Out(b) \in V
  BY DEF Blocks
<1>3. next \in [V \X (1..N) -> V] /\ p \in V
  <2>1. ASSUME NEW pair \in V \X (1..N) PROVE Out(pair[1]) \in V
    <3> HIDE DEF Out, V
    <3> QED
      BY <1>2
  <2> QED
    BY <2>1
<1>4. PICK f : Computes(f, V, p, next, N)
  <2> HIDE DEF N, V, next
  <2> QED
    BY <1>1, <1>3, Recursion
<1>5. /\ f \in [0..N -> V] /\ f[0] = p
      /\ \A n \in 1..N : f[n] = next[<<f[n - 1], n>>]
  <2> HIDE DEF N, V, next
  <2> QED
    BY <1>4 DEF Computes
<1>6. ASSUME NEW n \in 0..N, n # 0 PROVE f[n] = Out(f[n - 1])
  <2>1. n - 1 \in 0..N /\ n \in 1..N
    BY <1>1, <1>6
  <2>2. <<f[n - 1], n>> \in V \X (1..N) /\ <<f[n - 1], n>>[1] = f[n - 1]
    BY <1>5, <2>1
  <2>3. next[<<f[n - 1], n>>] = Out(f[n - 1])
    <3> HIDE DEF Out, V, N
    <3> QED
      BY <2>2
  <2> QED
    BY <1>5, <2>1, <2>3
<1>7. f = [n \in 0..N |-> IF n = 0 THEN p ELSE Out(f[n - 1])]
  <2> HIDE DEF Out, N, V, next
  <2> QED
    BY <1>5, <1>6
<1>8. at = [n \in 0..N |-> IF n = 0 THEN p ELSE Out(at[n - 1])]
  <2> HIDE DEF Out, N
  <2> QED
    BY <1>7
<1>9. Supers(paths, p) = at
  BY DEF Supers
<1> HIDE DEF at, Out, N
<1>10. at[0] = p /\ \A n \in 1..N : at[n] = Out(at[n - 1])
  <2>1. 0 \in 0..N /\ \A n \in 1..N : n \in 0..N /\ n # 0
    BY <1>1
  <2> QED
    BY <1>8, <2>1
<1>11. at \in [0..N -> V]
  <2> DEFINE Good == {n \in 0..N : at[n] \in V}
  <2>1. 0 \in Good
    BY <1>1, <1>10
  <2>2. ASSUME NEW n \in 1..N, n - 1 \in Good PROVE n \in Good
    <3>1. at[n] = Out(at[n - 1]) /\ at[n - 1] \in V
      BY <1>10, <2>2
    <3> HIDE DEF V
    <3> QED
      BY <1>1, <1>2, <3>1
  <2> HIDE DEF Good, V
  <2>3. 0..N \subseteq Good
    BY <1>1, <2>1, <2>2, UpTo
  <2>4. \A n \in 0..N : at[n] \in V
    BY <2>3 DEF Good
  <2> QED
    BY <1>8, <2>4
<1> QED
  BY <1>1, <1>9, <1>10, <1>11 DEF Out, N

-----------------------------------------------------------------------------
(* Lookups *)

(* What the search for a block finds, when "/" has one *)
LEMMA GetConfIs ==
  ASSUME NEW paths, Blocks(paths), <<>> \in DOMAIN paths,
         NEW uri \in Seq(Segment)
  PROVE  LET p == get_conf(paths, uri)
         IN  /\ p \in DOMAIN paths /\ IsPrefix(p, simplify_path(uri))
             /\ \A q \in DOMAIN paths : IsPrefix(q, simplify_path(uri)) => Len(q) <= Len(p)
<1> DEFINE prefix == simplify_path(uri)
           N == Len(prefix)
           V == DOMAIN paths \cup {NULL}
           Cut(n) == SubSeq(prefix, 1, n)
           next == [pair \in V \X (1..N) |-> IF Cut(pair[2]) \in DOMAIN paths THEN Cut(pair[2])
                                              ELSE pair[1]]
           try == CHOOSE f : f = [n \in 0..N |->
                    IF Cut(n) \in DOMAIN paths THEN Cut(n) ELSE IF n = 0 THEN NULL ELSE f[n - 1]]
<1>1. prefix \in Seq(Plain) /\ N \in Nat
  BY SimplifyType
<1>2. Cut(0) = <<>>
  BY <1>1
<1>3. <<>> \in V
  OBVIOUS
<1>4. next \in [V \X (1..N) -> V]
  OBVIOUS
<1>5. PICK f : Computes(f, V, <<>>, next, N)
  <2> HIDE DEF N, V, next
  <2> QED
    BY <1>1, <1>3, <1>4, Recursion
<1>6. /\ f \in [0..N -> V] /\ f[0] = <<>>
      /\ \A n \in 1..N : f[n] = next[<<f[n - 1], n>>]
  <2> HIDE DEF N, V, next
  <2> QED
    BY <1>5 DEF Computes
<1>7. ASSUME NEW n \in 0..N, n # 0
      PROVE  f[n] = IF Cut(n) \in DOMAIN paths THEN Cut(n) ELSE f[n - 1]
  <2>1. n - 1 \in 0..N /\ n \in 1..N
    BY <1>1, <1>7
  <2>2. /\ <<f[n - 1], n>> \in V \X (1..N) /\ <<f[n - 1], n>>[1] = f[n - 1]
        /\ <<f[n - 1], n>>[2] = n
    BY <1>6, <2>1
  <2>3. next[<<f[n - 1], n>>] = IF Cut(n) \in DOMAIN paths THEN Cut(n) ELSE f[n - 1]
    <3> HIDE DEF Cut, V, N
    <3> QED
      BY <2>2
  <2> QED
    BY <1>6, <2>1, <2>3
<1>8. f = [n \in 0..N |->
            IF Cut(n) \in DOMAIN paths THEN Cut(n) ELSE IF n = 0 THEN NULL ELSE f[n - 1]]
  <2>1. Cut(0) = f[0] /\ Cut(0) \in DOMAIN paths
    BY <1>2, <1>6
  <2> HIDE DEF Cut, N, V, next
  <2> QED
    BY <1>6, <1>7, <2>1
<1>9. try = [n \in 0..N |->
              IF Cut(n) \in DOMAIN paths THEN Cut(n) ELSE IF n = 0 THEN NULL ELSE try[n - 1]]
  <2> HIDE DEF Cut, N
  <2> QED
    BY <1>8
<1>10. get_conf(paths, uri) = try[N]
  BY DEF get_conf
<1> HIDE DEF try
<1> DEFINE Found(n) == \E k \in 0..n :
             /\ try[n] = Cut(k) /\ Cut(k) \in DOMAIN paths
             /\ \A j \in k + 1..n : Cut(j) \notin DOMAIN paths
           Good == {n \in 0..N : Found(n)}
<1>11. 0 \in Good
  <2>1. 0 \in 0..N /\ try[0] = Cut(0) /\ Cut(0) \in DOMAIN paths
    <3>1. 0 \in 0..N
      BY <1>1
    <3> HIDE DEF Cut, N
    <3> QED
      BY <1>2, <1>9, <3>1
  <2> HIDE DEF Cut
  <2>2. Found(0)
    BY <2>1
  <2> QED
    BY <2>1, <2>2
<1>12. ASSUME NEW n \in 1..N, n - 1 \in Good PROVE n \in Good
  <2> HIDE DEF Cut, N
  <2>1. n \in 0..N /\ n # 0 /\ n \in Nat
    BY <1>1
  <2>2. try[n] = IF Cut(n) \in DOMAIN paths THEN Cut(n) ELSE try[n - 1]
    BY <1>9, <2>1
  <2>3. CASE Cut(n) \in DOMAIN paths
    <3>1. n \in 0..n /\ \A j \in n + 1..n : FALSE
      BY <2>1
    <3>2. Found(n)
      BY <2>2, <2>3, <3>1
    <3> QED
      BY <2>1, <3>2
  <2>4. CASE Cut(n) \notin DOMAIN paths
    <3>1. PICK k \in 0..n - 1 : /\ try[n - 1] = Cut(k) /\ Cut(k) \in DOMAIN paths
                                /\ \A j \in k + 1..n - 1 : Cut(j) \notin DOMAIN paths
      BY <1>12
    <3>2. k \in 0..n /\ \A j \in k + 1..n : j \in k + 1..n - 1 \/ j = n
      BY <2>1
    <3>3. Found(n)
      BY <2>2, <2>4, <3>1, <3>2
    <3> QED
      BY <2>1, <3>3
  <2> QED
    BY <2>3, <2>4
<1>13. Found(N)
  <2>1. N \in 0..N
    BY <1>1
  <2> HIDE DEF Good, N
  <2>2. 0..N \subseteq Good
    BY <1>1, <1>11, <1>12, UpTo
  <2>3. N \in Good
    BY <2>1, <2>2
  <2> QED
    BY <2>3 DEF Good
<1>14. PICK k \in 0..N : /\ try[N] = Cut(k) /\ Cut(k) \in DOMAIN paths
                         /\ \A j \in k + 1..N : Cut(j) \notin DOMAIN paths
  BY <1>13
<1>15. ASSUME NEW j \in 0..N
       PROVE  Cut(j) \in Seq(Plain) /\ Len(Cut(j)) = j /\ IsPrefix(Cut(j), prefix)
  <2> HIDE DEF prefix
  <2>1. Cut(j) \in Seq(Plain) /\ Len(Cut(j)) = j /\ \A i \in 1..j : Cut(j)[i] = prefix[i]
    BY <1>1
  <2> HIDE DEF Cut
  <2> QED
    BY <1>1, <2>1, PrefixIs
<1>16. ASSUME NEW q \in DOMAIN paths, IsPrefix(q, prefix) PROVE Len(q) <= k
  <2>1. q \in Seq(Plain) /\ Len(q) \in Nat
    BY LenProperties DEF Blocks
  <2>2. q = Cut(Len(q)) /\ Len(q) <= N
    <3>1. SubSeq(q, 1, Len(q)) = q
      BY <2>1, SubSeqFull
    <3> HIDE DEF prefix
    <3> QED
      BY <1>16, <3>1 DEF IsPrefix
  <2>3. Len(q) \notin k + 1..N
    <3> HIDE DEF Cut, N
    <3> QED
      BY <1>14, <2>2
  <2> QED
    BY <1>1, <2>1, <2>2, <2>3
<1> HIDE DEF Cut, N, prefix
<1>17. Len(Cut(k)) = k /\ IsPrefix(Cut(k), prefix)
  BY <1>15
<1> QED
  BY <1>10, <1>14, <1>16, <1>17 DEF prefix

(* An option a copy finds is the one that was to be found before. *)
LEMMA CopyKeepsOptions ==
  ASSUME NEW paths, Blocks(paths), NEW p \in DOMAIN paths, ~Climbs(paths, p), NEW o
  PROVE  _get(CopyPaths(paths), p, o) = _get(paths, p, o)
<1> DEFINE copy == CopyPaths(paths)
           N == Cardinality(DOMAIN paths)
           old == Supers(paths, p)
           new == Supers(copy, p)
<1>1. Blocks(copy) /\ DOMAIN copy = DOMAIN paths
  BY CopyIsBlocks
<1>2. /\ N \in Nat /\ old \in [0..N -> DOMAIN paths \cup {NULL}] /\ old[0] = p
      /\ \A n \in 1..N : old[n] = IF old[n - 1] = NULL THEN NULL ELSE paths[old[n - 1]].super
  BY SupersAre
<1>3. /\ new \in [0..N -> DOMAIN paths \cup {NULL}] /\ new[0] = p
      /\ \A n \in 1..N : new[n] = IF new[n - 1] = NULL THEN NULL ELSE copy[new[n - 1]].super
  BY <1>1, SupersAre
<1>4. NULL \notin DOMAIN paths /\ DOMAIN paths \subseteq Seq(Plain)
  <2>1. Seq(Plain) \subseteq Seq(Segment)
    BY SeqMonotonic DEF Segment
  <2> QED
    BY <2>1, ConfAssumption DEF Blocks
<1>5. \A n \in 1..N : old[n - 1] # NULL /\ old[n] # NULL => ~Before(old[n - 1], old[n])
  <2>1. DOMAIN old = 0..N /\ \A n \in 1..N : n \in (0..N) \ {0}
    BY <1>2
  <2> QED
    BY <2>1 DEF Climbs
<1> DEFINE Same == {n \in 0..N : new[n] = old[n]}
<1>6. 0 \in Same
  BY <1>2, <1>3
<1>7. ASSUME NEW n \in 1..N, n - 1 \in Same PROVE n \in Same
  <2> HIDE DEF copy, old, new, N
  <2>1. /\ n \in 0..N /\ n - 1 \in 0..N /\ new[n - 1] = old[n - 1]
        /\ old[n - 1] \in DOMAIN paths \cup {NULL} /\ old[n] \in DOMAIN paths \cup {NULL}
    BY <1>2, <1>7
  <2>2. CASE old[n - 1] = NULL
    BY <1>2, <1>3, <2>1, <2>2
  <2>3. CASE old[n - 1] # NULL
    <3> DEFINE b == old[n - 1]
    <3>1. b \in DOMAIN paths /\ old[n] = paths[b].super /\ new[n] = copy[b].super
      BY <1>2, <1>3, <2>1, <2>3
    <3>2. CASE paths[b].super = NULL
      BY <2>1, <3>1, <3>2, CopyIs DEF copy
    <3>3. CASE paths[b].super # NULL
      <4>1. paths[b].super \in DOMAIN paths /\ ~Before(b, paths[b].super)
        BY <1>5, <2>1, <2>3, <3>1, <3>3
      <4>2. paths[b].super = b \/ Before(paths[b].super, b)
        BY <1>4, <3>1, <4>1, BeforeTotal
      <4>3. copy[b].super = paths[b].super
        BY <3>1, <3>3, <4>2, CopyIs DEF copy
      <4> QED
        BY <2>1, <3>1, <4>3
    <3> QED
      BY <3>2, <3>3
  <2> QED
    BY <2>2, <2>3
<1>8. new = old
  <2> HIDE DEF Same, old, new, N, copy
  <2>1. 0..N \subseteq Same
    BY <1>2, <1>6, <1>7, UpTo
  <2>2. \A n \in 0..N : new[n] = old[n]
    BY <2>1 DEF Same
  <2> QED
    BY <1>2, <1>3, <2>2
<1> DEFINE oldset == {n \in DOMAIN old : old[n] # NULL /\ o \in paths[old[n]].set}
           newset == {n \in DOMAIN new : new[n] # NULL /\ o \in copy[new[n]].set}
<1>9. newset = oldset
  <2>1. ASSUME NEW n \in DOMAIN old, old[n] # NULL PROVE copy[old[n]].set = paths[old[n]].set
    <3>1. old[n] \in DOMAIN paths
      BY <1>2, <2>1
    <3> QED
      BY <3>1, CopyIs
  <2> HIDE DEF old, new, copy
  <2> QED
    BY <1>8, <2>1
<1>10. _get(paths, p, o) =
         IF oldset # {} THEN old[CHOOSE n \in oldset : \A m \in oldset : n <= m]
         ELSE IF \E n \in DOMAIN old : old[n] = NULL THEN Default ELSE Endless
  BY DEF _get
<1>11. _get(copy, p, o) =
         IF newset # {} THEN new[CHOOSE n \in newset : \A m \in newset : n <= m]
         ELSE IF \E n \in DOMAIN new : new[n] = NULL THEN Default ELSE Endless
  BY DEF _get
<1> HIDE DEF old, new, oldset, newset, copy
<1>12. _get(copy, p, o) = _get(paths, p, o)
  BY <1>8, <1>9, <1>10, <1>11
<1> QED
  BY <1>12 DEF copy

(* What an option is looked up in is a block around the path, unless one   *)
(* of the blocks strays.                                                   *)
LEMMA GetIsAround ==
  ASSUME NEW paths, Blocks(paths), NEW p \in DOMAIN paths, ~Strays(paths, p), NEW o,
         _get(paths, p, o) \notin {Default, Endless}
  PROVE  _get(paths, p, o) \in DOMAIN paths /\ IsPrefix(_get(paths, p, o), p)
<1> DEFINE N == Cardinality(DOMAIN paths)
           at == Supers(paths, p)
           set == {n \in DOMAIN at : at[n] # NULL /\ o \in paths[at[n]].set}
<1>1. /\ N \in Nat /\ at \in [0..N -> DOMAIN paths \cup {NULL}] /\ at[0] = p
      /\ \A n \in 1..N : at[n] = IF at[n - 1] = NULL THEN NULL ELSE paths[at[n - 1]].super
  BY SupersAre
<1>2. \A n \in 1..N : at[n - 1] # NULL /\ at[n] # NULL => IsPrefix(at[n], at[n - 1])
  <2>1. DOMAIN at = 0..N /\ \A n \in 1..N : n \in (0..N) \ {0}
    BY <1>1
  <2> QED
    BY <2>1 DEF Strays
<1>3. _get(paths, p, o) =
        IF set # {} THEN at[CHOOSE n \in set : \A m \in set : n <= m]
        ELSE IF \E n \in DOMAIN at : at[n] = NULL THEN Default ELSE Endless
  BY DEF _get
<1> HIDE DEF at, N
<1> DEFINE Around == {n \in 0..N : at[n] = NULL \/ IsPrefix(at[n], p)}
<1>4. \A q \in DOMAIN paths : q \in Seq(Plain)
  BY DEF Blocks
<1>5. 0 \in Around
  <2>1. IsPrefix(p, p)
    BY <1>4, PrefixIs, LenProperties
  <2> QED
    BY <1>1, <2>1
<1>6. ASSUME NEW n \in 1..N, n - 1 \in Around PROVE n \in Around
  <2>1. /\ n \in 0..N /\ n - 1 \in 0..N
        /\ at[n - 1] \in DOMAIN paths \cup {NULL} /\ at[n] \in DOMAIN paths \cup {NULL}
    BY <1>1
  <2>2. CASE at[n] = NULL
    BY <2>1, <2>2
  <2>3. CASE at[n] # NULL
    <3>1. at[n - 1] # NULL /\ IsPrefix(at[n], at[n - 1]) /\ IsPrefix(at[n - 1], p)
      BY <1>1, <1>2, <1>6, <2>3
    <3> DEFINE a == at[n]
               b == at[n - 1]
    <3>2. /\ a \in Seq(Plain) /\ b \in Seq(Plain) /\ p \in Seq(Plain)
          /\ Len(a) \in Nat /\ Len(b) \in Nat /\ Len(p) \in Nat
      BY <1>4, <2>1, <2>3, <3>1, LenProperties
    <3> HIDE DEF a, b
    <3>3. /\ Len(a) <= Len(b) /\ \A i \in 1..Len(a) : a[i] = b[i]
          /\ Len(b) <= Len(p) /\ \A i \in 1..Len(b) : b[i] = p[i]
      BY <3>1, <3>2, PrefixIs DEF a, b
    <3>4. Len(a) <= Len(p) /\ \A i \in 1..Len(a) : a[i] = p[i]
      <4>1. \A i \in 1..Len(a) : i \in 1..Len(b)
        BY <3>2, <3>3
      <4> QED
        BY <3>2, <3>3, <4>1
    <3>5. IsPrefix(a, p)
      BY <3>2, <3>4, PrefixIs
    <3> QED
      BY <2>1, <3>5 DEF a
  <2> QED
    BY <2>2, <2>3
<1>7. 0..N \subseteq Around
  <2> HIDE DEF Around
  <2> QED
    BY <1>1, <1>5, <1>6, UpTo
<1>8. set # {}
  <2> HIDE DEF set
  <2> QED
    BY <1>3
<1>9. DOMAIN at = 0..N /\ set \in SUBSET Nat
  BY <1>1
<1>10. (CHOOSE n \in set : \A m \in set : n <= m) \in set
  <2> HIDE DEF set
  <2>1. \E n \in set : \A m \in set : n <= m
    BY <1>8, <1>9, Least
  <2> QED
    BY <2>1
<1>11. PICK n \in set : _get(paths, p, o) = at[n]
  <2> HIDE DEF set
  <2> QED
    BY <1>3, <1>8, <1>10
<1>12. n \in 0..N /\ at[n] # NULL
  BY <1>9, <1>11
<1>13. at[n] \in DOMAIN paths
  BY <1>1, <1>12
<1> QED
  BY <1>7, <1>11, <1>12, <1>13

-----------------------------------------------------------------------------
(* The invariant *)

PathMaps  == UNION {[D -> Block] : D \in SUBSET Seq(Plain)}
IndexMaps == UNION {[D -> Nat] : D \in SUBSET ErrCodes}

ServerConf == [ports : SUBSET (0..PortValues - 1), names : SUBSET Hosts, pages : Seq(Pages),
               index : IndexMaps, paths : PathMaps]

Note == [page : Pages, codes : SUBSET ErrCodes]

(* The pages of a server are those of the directives, in their order, and  *)
(* the last directive with a code has its index.                           *)
Numbered(s, notes) ==
  (\A n, m \in DOMAIN notes : notes[n].page = notes[m].page => n = m) =>
    /\ Len(s.pages) = Len(notes)
    /\ \A n \in 1..Len(notes) :
         /\ s.pages[n] = notes[n].page
         /\ \A c \in notes[n].codes :
              /\ c \in DOMAIN s.index
              /\ s.index[c] = n \/ \E m \in n + 1..Len(notes) : c \in notes[m].codes

(* The types of what is read, and of what has been *)
Typed ==
  /\ phase \in {"top", "server", "failed", "crashed", "running"}
  /\ read \in 0..MaxDirectives
  /\ port_set \subseteq 0..PortValues - 1
  /\ servers \in Seq(ServerConf)
  /\ noted \in Seq(Note) /\ told \in Seq([paths : PathMaps, pages : Seq(Note)])
  /\ blocks \in Seq(Seq(Plain))

(* What a server refers to is there, and its ports are among these. *)
Linked(s, ports) ==
  /\ s.ports \subseteq ports
  /\ \A c \in DOMAIN s.index : s.index[c] \in DOMAIN s.pages
  /\ Blocks(s.paths)

(* The ports listened on are those of the servers. *)
Ports ==
  /\ \A i \in 1..Len(servers) : Linked(servers[i], port_set)
  /\ \A port \in port_set : \E i \in 1..Len(servers) : port \in servers[i].ports

(* The blocks that are being read are those of the last server. *)
Inside ==
  /\ \A n \in 1..Len(blocks) : servers # <<>> /\ blocks[n] \in DOMAIN Current.paths
  /\ blocks # <<>> => phase \in {"server", "failed"}
  /\ phase = "server" => Len(servers) = Len(told) + 1 /\ Numbered(Current, noted)
  /\ phase \in {"top", "running"} => Len(servers) = Len(told)

(* A server that has been read is what the file said, or a copy of it. *)
AsTold ==
  phase \in {"top", "server", "running"} => \A i \in 1..Len(told) :
    /\ Blocks(told[i].paths) /\ <<>> \in DOMAIN told[i].paths
    /\ servers[i].paths \in {told[i].paths, CopyPaths(told[i].paths)}
    /\ Numbered(servers[i], told[i].pages)

(* A server runs with a copy of all that was read. *)
CopyRuns == conf = IF Running THEN Copy(servers) ELSE <<>>

IInv == Typed /\ Ports /\ Inside /\ AsTold /\ CopyRuns

-----------------------------------------------------------------------------
(* The actions *)

LEMMA ServerIs ==
  ASSUME Typed, NEW i \in 1..Len(servers)
  PROVE  /\ servers[i] \in ServerConf
         /\ servers[i] = [ports |-> servers[i].ports, names |-> servers[i].names,
                          pages |-> servers[i].pages, index |-> servers[i].index,
                          paths |-> servers[i].paths]
<1>1. servers[i] \in ServerConf
  BY ElementOfSeq DEF Typed
<1> QED
  BY <1>1 DEF ServerConf

LEMMA PathMapType ==
  ASSUME NEW paths, Blocks(paths)
  PROVE  paths \in PathMaps
BY DEF Blocks, PathMaps

(* What each copy of the servers is *)
LEMMA CopyServers ==
  ASSUME Typed, Ports
  PROVE  /\ Copy(servers) \in Seq(ServerConf) /\ Len(Copy(servers)) = Len(servers)
         /\ \A i \in 1..Len(servers) :
              /\ Copy(servers)[i].ports = servers[i].ports
              /\ Copy(servers)[i].names = servers[i].names
              /\ Copy(servers)[i].pages = servers[i].pages
              /\ Copy(servers)[i].index = servers[i].index
              /\ Copy(servers)[i].paths = CopyPaths(servers[i].paths)
<1> DEFINE N == Len(servers)
<1>1. DOMAIN servers = 1..N /\ N \in Nat
  BY LenProperties DEF Typed
<1>2. ASSUME NEW i \in 1..N
      PROVE  Copy(servers)[i] = [servers[i] EXCEPT !.paths = CopyPaths(servers[i].paths)]
  BY <1>1 DEF Copy
<1>3. ASSUME NEW i \in 1..N
      PROVE  /\ Copy(servers)[i] \in ServerConf
             /\ Copy(servers)[i].ports = servers[i].ports
             /\ Copy(servers)[i].names = servers[i].names
             /\ Copy(servers)[i].pages = servers[i].pages
             /\ Copy(servers)[i].index = servers[i].index
             /\ Copy(servers)[i].paths = CopyPaths(servers[i].paths)
  <2>1. servers[i] \in ServerConf
    BY ServerIs
  <2>2. CopyPaths(servers[i].paths) \in PathMaps
    <3>1. Blocks(servers[i].paths)
      BY DEF Ports, Linked
    <3> QED
      BY <3>1, CopyIsBlocks, PathMapType
  <2> QED
    BY <1>2, <2>1, <2>2 DEF ServerConf
<1>4. DOMAIN Copy(servers) = 1..N
  BY <1>1 DEF Copy
<1>5. Copy(servers) = [i \in 1..N |-> Copy(servers)[i]]
  BY <1>1 DEF Copy
<1>6. Copy(servers) \in Seq(ServerConf) /\ Len(Copy(servers)) = N
  <2> HIDE DEF N
  <2>1. Copy(servers) \in [1..N -> ServerConf]
    BY <1>3, <1>5
  <2>2. Copy(servers) \in Seq(ServerConf)
    BY <1>1, <2>1, SeqDef
  <2> QED
    BY <1>1, <1>4, <2>2, LenProperties
<1> QED
  BY <1>3, <1>6

LEMMA NumberedSame ==
  ASSUME NEW s, NEW t, t.pages = s.pages, t.index = s.index, NEW notes, Numbered(s, notes)
  PROVE  Numbered(t, notes)
BY DEF Numbered

LEMMA InitIInv ==
  ASSUME Init
  PROVE  IInv
<1>1. /\ phase = "top" /\ read = 0 /\ port_set = {} /\ servers = <<>> /\ noted = <<>>
      /\ told = <<>> /\ blocks = <<>> /\ conf = <<>>
      /\ Len(<<>>) = 0 /\ \A i \in 1..0 : FALSE
  BY DEF Init
<1>2. 0 \in 0..MaxDirectives
  BY ConfAssumption
<1>3. Typed
  BY <1>1, <1>2 DEF Typed
<1>4. Ports /\ AsTold /\ CopyRuns
  BY <1>1 DEF Ports, AsTold, CopyRuns, Running
<1>5. Inside
  BY <1>1 DEF Inside
<1> QED
  BY <1>3, <1>4, <1>5 DEF IInv

LEMMA DirectiveRead ==
  ASSUME Typed, Directive
  PROVE  read' \in 0..MaxDirectives
BY ConfAssumption DEF Typed, Directive

(* A directive that changes the server that is being read *)
LEMMA CurrentStep ==
  ASSUME IInv, phase = "server", phase' = "server", NEW server, SetCurrent(server),
         server \in ServerConf,
         port_set \subseteq port_set', port_set' \subseteq 0..PortValues - 1,
         Linked(server, port_set'), Current.ports \subseteq server.ports,
         port_set' \subseteq port_set \cup server.ports,
         noted' \in Seq(Note), Numbered(server, noted'),
         blocks' \in Seq(Seq(Plain)),
         \A n \in 1..Len(blocks') : blocks'[n] \in DOMAIN server.paths,
         read' \in 0..MaxDirectives,
         UNCHANGED <<conf, told>>
  PROVE  IInv'
<1> DEFINE N == Len(servers)
<1>1. /\ servers \in Seq(ServerConf) /\ N \in Nat /\ N = Len(told) + 1 /\ Len(told) \in Nat
      /\ DOMAIN servers = 1..N /\ N \in 1..N
  <2>1. servers \in Seq(ServerConf) /\ told \in Seq([paths : PathMaps, pages : Seq(Note)])
    BY DEF IInv, Typed
  <2>2. N = Len(told) + 1
    BY DEF IInv, Inside
  <2>3. N \in Nat /\ DOMAIN servers = 1..N /\ Len(told) \in Nat
    BY <2>1, LenProperties
  <2> QED
    BY <2>1, <2>2, <2>3
<1>2. servers' = [servers EXCEPT ![N] = server]
  BY DEF SetCurrent
<1>3. /\ servers' \in Seq(ServerConf) /\ Len(servers') = N /\ servers'[N] = server
      /\ \A i \in 1..N : i # N => servers'[i] = servers[i]
  <2> HIDE DEF N
  <2>1. servers' \in Seq(ServerConf) /\ Len(servers') = Len(servers)
    BY <1>1, <1>2, ExceptSeq
  <2> QED
    BY <1>1, <1>2, <2>1 DEF N
<1> HIDE DEF N
<1>4. Current' = server /\ servers' # <<>>
  <2>1. Current' = servers'[Len(servers')]
    BY DEF Current
  <2> QED
    BY <1>1, <1>3, <2>1
<1>5. Typed'
  BY <1>3 DEF IInv, Typed
<1>6. Ports'
  <2>1. ASSUME NEW i \in 1..N PROVE Linked(servers'[i], port_set')
    <3>1. CASE i = N
      BY <1>3, <3>1
    <3>2. CASE i # N
      <4>1. Linked(servers[i], port_set) /\ servers'[i] = servers[i]
        BY <1>3, <3>2 DEF IInv, Ports, N
      <4> QED
        BY <4>1 DEF Linked
    <3> QED
      BY <3>1, <3>2
  <2>2. ASSUME NEW port \in port_set' PROVE \E i \in 1..N : port \in servers'[i].ports
    <3>1. CASE port \in server.ports
      BY <1>1, <1>3, <3>1
    <3>2. CASE port \notin server.ports
      <4>1. PICK i \in 1..N : port \in servers[i].ports
        BY <3>2 DEF IInv, Ports, N
      <4>2. i # N
        BY <3>2, <4>1 DEF Current, N
      <4> QED
        BY <1>3, <4>1, <4>2
    <3> QED
      BY <3>1, <3>2
  <2> QED
    BY <1>3, <2>1, <2>2 DEF Ports
<1>7. Inside'
  BY <1>1, <1>3, <1>4 DEF Inside, IInv
<1>8. AsTold'
  <2>1. ASSUME NEW i \in 1..Len(told)
        PROVE  /\ Blocks(told[i].paths) /\ <<>> \in DOMAIN told[i].paths
               /\ servers'[i].paths \in {told[i].paths, CopyPaths(told[i].paths)}
               /\ Numbered(servers'[i], told[i].pages)
    <3>1. i \in 1..N /\ i # N
      BY <1>1
    <3>2. servers'[i] = servers[i]
      BY <1>3, <3>1
    <3> QED
      BY <3>2 DEF IInv, AsTold
  <2> QED
    BY <2>1 DEF AsTold
<1>9. CopyRuns'
  BY DEF CopyRuns, Running, IInv
<1> QED
  BY <1>5, <1>6, <1>7, <1>8, <1>9 DEF IInv

(* What there is to say of the server that is being read *)
LEMMA CurrentIs ==
  ASSUME IInv, phase = "server"
  PROVE  /\ Current \in ServerConf /\ Linked(Current, port_set) /\ Numbered(Current, noted)
         /\ Current.ports \subseteq port_set /\ port_set \subseteq 0..PortValues - 1
         /\ blocks \in Seq(Seq(Plain)) /\ noted \in Seq(Note)
         /\ Len(blocks) \in Nat
         /\ \A n \in 1..Len(blocks) : blocks[n] \in Seq(Plain) /\ blocks[n] \in DOMAIN Current.paths
<1>1. Len(servers) \in 1..Len(servers)
  <2>1. /\ servers \in Seq(ServerConf) /\ told \in Seq([paths : PathMaps, pages : Seq(Note)])
        /\ Len(servers) = Len(told) + 1
    BY DEF IInv, Typed, Inside
  <2>2. Len(servers) \in Nat /\ Len(told) \in Nat
    BY <2>1, LenProperties
  <2> QED
    BY <2>1, <2>2
<1>2. Current \in ServerConf /\ Linked(Current, port_set)
  BY <1>1, ServerIs DEF IInv, Ports, Current
<1>3. /\ blocks \in Seq(Seq(Plain)) /\ Len(blocks) \in Nat
      /\ \A n \in 1..Len(blocks) : blocks[n] \in Seq(Plain)
  BY LenProperties, ElementOfSeq DEF IInv, Typed
<1> QED
  BY <1>2, <1>3 DEF IInv, Typed, Inside, Linked

LEMMA ReadPortsStep ==
  ASSUME IInv, ReadPorts
  PROVE  IInv'
<1>1. /\ phase = "server" /\ phase' = phase /\ blocks = <<>>
      /\ UNCHANGED <<blocks, conf, noted, told>> /\ Directive
  BY DEF ReadPorts, InServer
<1>2. PICK n \in PortNumbers :
        /\ SetCurrent([Current EXCEPT !.ports = @ \cup {n % PortValues}])
        /\ port_set' = port_set \cup {n % PortValues}
  BY DEF ReadPorts, _read_ports
<1> DEFINE server == [Current EXCEPT !.ports = Current.ports \cup {n % PortValues}]
<1>3. n % PortValues \in 0..PortValues - 1
  BY ConfAssumption
<1>4. /\ Current \in ServerConf /\ Linked(Current, port_set) /\ Numbered(Current, noted)
      /\ Current.ports \subseteq port_set /\ port_set \subseteq 0..PortValues - 1
      /\ noted \in Seq(Note) /\ blocks \in Seq(Seq(Plain))
  BY <1>1, CurrentIs
<1>5. /\ server \in ServerConf /\ server.ports = Current.ports \cup {n % PortValues}
      /\ server.pages = Current.pages /\ server.index = Current.index
      /\ server.paths = Current.paths
  BY <1>3, <1>4 DEF ServerConf
<1>6. SetCurrent(server)
  BY <1>2
<1> HIDE DEF server
<1>7. Linked(server, port_set')
  BY <1>2, <1>4, <1>5 DEF Linked
<1>8. Numbered(server, noted')
  BY <1>1, <1>4, <1>5, NumberedSame
<1>9. read' \in 0..MaxDirectives
  BY <1>1, DirectiveRead DEF IInv
<1>10. \A k \in 1..Len(blocks') : blocks'[k] \in DOMAIN server.paths
  BY <1>1
<1> QED
  BY <1>1, <1>2, <1>3, <1>4, <1>5, <1>6, <1>7, <1>8, <1>9, <1>10, CurrentStep

LEMMA ReadNamesStep ==
  ASSUME IInv, ReadNames
  PROVE  IInv'
<1>1. /\ phase = "server" /\ phase' = phase /\ blocks = <<>>
      /\ UNCHANGED <<blocks, port_set, conf, noted, told>> /\ Directive
  BY DEF ReadNames, InServer
<1>2. PICK h \in Hosts : SetCurrent([Current EXCEPT !.names = @ \cup {h}])
  BY DEF ReadNames
<1> DEFINE server == [Current EXCEPT !.names = Current.names \cup {h}]
<1>3. /\ Current \in ServerConf /\ Linked(Current, port_set) /\ Numbered(Current, noted)
      /\ Current.ports \subseteq port_set /\ port_set \subseteq 0..PortValues - 1
      /\ noted \in Seq(Note) /\ blocks \in Seq(Seq(Plain))
  BY <1>1, CurrentIs
<1>4. /\ server \in ServerConf /\ server.ports = Current.ports
      /\ server.pages = Current.pages /\ server.index = Current.index
      /\ server.paths = Current.paths
  BY <1>3 DEF ServerConf
<1>5. SetCurrent(server)
  BY <1>2
<1> HIDE DEF server
<1>6. Linked(server, port_set')
  BY <1>1, <1>3, <1>4 DEF Linked
<1>7. Numbered(server, noted')
  BY <1>1, <1>3, <1>4, NumberedSame
<1>8. read' \in 0..MaxDirectives
  BY <1>1, DirectiveRead DEF IInv
<1>9. \A k \in 1..Len(blocks') : blocks'[k] \in DOMAIN server.paths
  BY <1>1
<1> QED
  BY <1>1, <1>3, <1>4, <1>5, <1>6, <1>7, <1>8, <1>9, CurrentStep

(* A page is added at the end, with the codes of its directive. *)
LEMMA NumberedStep ==
  ASSUME NEW s \in ServerConf, NEW notes \in Seq(Note), Numbered(s, notes),
         NEW page \in Pages, NEW codes \in SUBSET ErrCodes, NEW t,
         t.pages = AddPage(s.pages, page),
         t.index = [c \in DOMAIN s.index \cup codes |->
                     IF c \in codes THEN IndexOf(s.pages, page) ELSE s.index[c]]
  PROVE  Numbered(t, Append(notes, [page |-> page, codes |-> codes]))
<1> DEFINE L == Len(notes)
           note == [page |-> page, codes |-> codes]
           more == Append(notes, note)
<1>1. /\ L \in Nat /\ DOMAIN notes = 1..L /\ note \in Note
      /\ s.pages \in Seq(Pages) /\ Len(s.pages) \in Nat
  BY LenProperties DEF Note, ServerConf
<1>2. /\ more \in Seq(Note) /\ Len(more) = L + 1 /\ DOMAIN more = 1..L + 1
      /\ (\A n \in 1..L : more[n] = notes[n]) /\ more[L + 1] = note
  BY <1>1, AppendProperties, LenProperties
<1>3. note.page = page /\ note.codes = codes
  OBVIOUS
<1> HIDE DEF L, note, more
<1>4. 1..L + 1 = (1..L) \cup {L + 1} /\ L + 1 \notin 1..L
  BY <1>1
<1> SUFFICES ASSUME \A n, m \in DOMAIN more : more[n].page = more[m].page => n = m
             PROVE  /\ Len(t.pages) = Len(more)
                    /\ \A n \in 1..Len(more) :
                         /\ t.pages[n] = more[n].page
                         /\ \A c \in more[n].codes :
                              /\ c \in DOMAIN t.index
                              /\ \/ t.index[c] = n
                                 \/ \E m \in n + 1..Len(more) : c \in more[m].codes
  BY DEF Numbered, more, note
<1>5. \A n, m \in DOMAIN notes : notes[n].page = notes[m].page => n = m
  BY <1>1, <1>2, <1>4
<1>6. /\ Len(s.pages) = L
      /\ \A n \in 1..L :
           /\ s.pages[n] = notes[n].page
           /\ \A c \in notes[n].codes :
                /\ c \in DOMAIN s.index
                /\ s.index[c] = n \/ \E m \in n + 1..L : c \in notes[m].codes
  BY <1>5 DEF Numbered, L
<1>7. ~Contains(s.pages, page)
  <2>1. ASSUME NEW i \in 1..Len(s.pages), s.pages[i] = page PROVE FALSE
    <3>1. i \in 1..L /\ more[i].page = page /\ more[L + 1].page = page
      BY <1>2, <1>3, <1>6, <2>1
    <3>2. i = L + 1
      BY <1>2, <1>4, <3>1
    <3> QED
      BY <1>4, <3>1, <3>2
  <2> QED
    BY <2>1 DEF Contains
<1>8. /\ Len(t.pages) = L + 1 /\ t.pages[L + 1] = page
      /\ \A n \in 1..L : t.pages[n] = s.pages[n]
  <2>1. t.pages = Append(s.pages, page)
    BY <1>7 DEF AddPage
  <2> QED
    BY <1>1, <1>6, <2>1, AppendProperties
<1>9. IndexOf(s.pages, page) = L + 1
  BY <1>8 DEF IndexOf
<1>10. ASSUME NEW n \in 1..L, NEW c \in notes[n].codes
       PROVE  /\ c \in DOMAIN t.index
              /\ t.index[c] = n \/ \E m \in n + 1..L + 1 : c \in more[m].codes
  <2>1. /\ c \in DOMAIN s.index
        /\ s.index[c] = n \/ \E m \in n + 1..L : c \in notes[m].codes
    BY <1>6
  <2>2. CASE c \in codes
    <3>1. L + 1 \in n + 1..L + 1
      BY <1>1
    <3> QED
      BY <1>2, <1>3, <2>1, <2>2, <3>1
  <2>3. CASE c \notin codes
    <3>1. t.index[c] = s.index[c] /\ c \in DOMAIN t.index
      BY <2>1, <2>3
    <3>2. ASSUME NEW m \in n + 1..L, c \in notes[m].codes
          PROVE  m \in n + 1..L + 1 /\ c \in more[m].codes
      <4>1. m \in 1..L /\ m \in n + 1..L + 1
        BY <1>1
      <4> QED
        BY <1>2, <3>2, <4>1
    <3> QED
      BY <2>1, <3>1, <3>2
  <2> QED
    BY <2>2, <2>3
<1>11. ASSUME NEW c \in codes PROVE c \in DOMAIN t.index /\ t.index[c] = L + 1
  BY <1>9
<1>12. ASSUME NEW n \in 1..L + 1
       PROVE  /\ t.pages[n] = more[n].page
              /\ \A c \in more[n].codes :
                   /\ c \in DOMAIN t.index
                   /\ t.index[c] = n \/ \E m \in n + 1..L + 1 : c \in more[m].codes
  <2>1. CASE n \in 1..L
    <3>1. more[n] = notes[n] /\ t.pages[n] = notes[n].page
      BY <1>2, <1>6, <1>8, <2>1
    <3> QED
      BY <1>10, <2>1, <3>1
  <2>2. CASE n = L + 1
    BY <1>2, <1>3, <1>8, <1>11, <2>2
  <2> QED
    BY <1>4, <2>1, <2>2
<1> QED
  BY <1>2, <1>8, <1>12

LEMMA ReadErrpageStep ==
  ASSUME IInv, _read_errpage
  PROVE  IInv'
<1>1. /\ phase = "server" /\ phase' = phase /\ blocks = <<>>
      /\ UNCHANGED <<blocks, port_set, conf, told>> /\ Directive
  BY DEF _read_errpage, InServer
<1>2. PICK page \in Pages, codes \in SUBSET ErrCodes :
        /\ SetCurrent([Current EXCEPT
             !.pages = AddPage(@, page),
             !.index = [c \in DOMAIN @ \cup codes |->
                         IF c \in codes THEN IndexOf(Current.pages, page) ELSE @[c]]])
        /\ noted' = Append(noted, [page |-> page, codes |-> codes])
  BY DEF _read_errpage
<1> DEFINE pages == AddPage(Current.pages, page)
           index == [c \in DOMAIN Current.index \cup codes |->
                      IF c \in codes THEN IndexOf(Current.pages, page) ELSE Current.index[c]]
           server == [Current EXCEPT !.pages = pages, !.index = index]
<1>3. /\ Current \in ServerConf /\ Linked(Current, port_set) /\ Numbered(Current, noted)
      /\ Current.ports \subseteq port_set /\ port_set \subseteq 0..PortValues - 1
      /\ noted \in Seq(Note) /\ blocks \in Seq(Seq(Plain))
  BY <1>1, CurrentIs
<1>4. /\ Current.pages \in Seq(Pages) /\ DOMAIN Current.index \subseteq ErrCodes
      /\ Current.index \in [DOMAIN Current.index -> Nat]
      /\ \A c \in DOMAIN Current.index : Current.index[c] \in DOMAIN Current.pages
  BY <1>3 DEF ServerConf, IndexMaps, Linked
<1>5. /\ pages \in Seq(Pages) /\ Len(pages) \in DOMAIN pages /\ Len(pages) \in Nat
      /\ DOMAIN Current.pages \subseteq DOMAIN pages
  <2>1. CASE Contains(Current.pages, page)
    <3>1. pages = Current.pages
      BY <2>1 DEF AddPage
    <3>2. /\ Len(Current.pages) \in 1..Len(Current.pages)
          /\ DOMAIN Current.pages = 1..Len(Current.pages)
      <4>1. Len(Current.pages) \in Nat /\ DOMAIN Current.pages = 1..Len(Current.pages)
        BY <1>4, LenProperties
      <4> QED
        BY <2>1, <4>1 DEF Contains
    <3> HIDE DEF pages
    <3> QED
      BY <1>4, <3>1, <3>2
  <2>2. CASE ~Contains(Current.pages, page)
    <3>1. pages = Append(Current.pages, page)
      BY <2>2 DEF AddPage
    <3> HIDE DEF pages
    <3>2. /\ pages \in Seq(Pages) /\ Len(pages) = Len(Current.pages) + 1
          /\ Len(Current.pages) \in Nat /\ DOMAIN Current.pages = 1..Len(Current.pages)
          /\ DOMAIN pages = 1..Len(pages)
      BY <1>4, <3>1, AppendProperties, LenProperties
    <3> QED
      BY <3>2
  <2> QED
    BY <2>1, <2>2
<1>6. IndexOf(Current.pages, page) = Len(pages)
  BY DEF IndexOf
<1> HIDE DEF pages
<1>7. /\ index \in IndexMaps /\ DOMAIN index = DOMAIN Current.index \cup codes
      /\ \A c \in DOMAIN index : index[c] \in DOMAIN pages
  <2>1. \A c \in DOMAIN index : index[c] \in Nat /\ index[c] \in DOMAIN pages
    BY <1>4, <1>5, <1>6
  <2>2. DOMAIN index \subseteq ErrCodes /\ index \in [DOMAIN index -> Nat]
    BY <1>4, <2>1
  <2> QED
    BY <2>1, <2>2 DEF IndexMaps
<1> HIDE DEF index
<1>8. /\ server \in ServerConf /\ server.ports = Current.ports
      /\ server.pages = pages /\ server.index = index /\ server.paths = Current.paths
  BY <1>3, <1>5, <1>7 DEF ServerConf
<1>9. SetCurrent(server)
  BY <1>2 DEF pages, index
<1> HIDE DEF server
<1>10. Linked(server, port_set')
  BY <1>1, <1>3, <1>7, <1>8 DEF Linked
<1>11. Numbered(server, noted')
  BY <1>2, <1>3, <1>8, NumberedStep DEF pages, index
<1>12. noted' \in Seq(Note)
  <2>1. [page |-> page, codes |-> codes] \in Note
    BY DEF Note
  <2> QED
    BY <1>2, <1>3, <2>1, AppendProperties
<1>13. read' \in 0..MaxDirectives
  BY <1>1, DirectiveRead DEF IInv
<1>14. \A k \in 1..Len(blocks') : blocks'[k] \in DOMAIN server.paths
  BY <1>1
<1> QED
  BY <1>1, <1>3, <1>8, <1>9, <1>10, <1>11, <1>12, <1>13, <1>14, CurrentStep

(* The steps that change nothing but the blocks of the server that is      *)
(* being read                                                              *)
LEMMA PathsStep ==
  ASSUME IInv, phase = "server", phase' = "server",
         NEW paths, Blocks(paths), SetCurrent([Current EXCEPT !.paths = paths]),
         blocks' \in Seq(Seq(Plain)),
         \A n \in 1..Len(blocks') : blocks'[n] \in DOMAIN paths,
         read' \in 0..MaxDirectives, UNCHANGED <<port_set, conf, noted, told>>
  PROVE  IInv'
<1> DEFINE server == [Current EXCEPT !.paths = paths]
<1>1. /\ Current \in ServerConf /\ Linked(Current, port_set) /\ Numbered(Current, noted)
      /\ Current.ports \subseteq port_set /\ port_set \subseteq 0..PortValues - 1
      /\ noted \in Seq(Note)
  BY CurrentIs
<1>2. /\ server \in ServerConf /\ server.ports = Current.ports
      /\ server.pages = Current.pages /\ server.index = Current.index
      /\ server.paths = paths
  BY <1>1, PathMapType DEF ServerConf
<1>3. SetCurrent(server)
  OBVIOUS
<1> HIDE DEF server
<1>4. Linked(server, port_set')
  BY <1>1, <1>2 DEF Linked
<1>5. Numbered(server, noted')
  BY <1>1, <1>2, NumberedSame
<1>6. \A n \in 1..Len(blocks') : blocks'[n] \in DOMAIN server.paths
  BY <1>2
<1> QED
  BY <1>1, <1>2, <1>3, <1>4, <1>5, <1>6, CurrentStep

LEMMA OpenPathStep ==
  ASSUME IInv, OpenPath
  PROVE  IInv'
<1>1. /\ phase = "server" /\ phase' = phase /\ Directive
      /\ UNCHANGED <<port_set, conf, noted, told>>
  BY DEF OpenPath
<1> DEFINE base == IF blocks = <<>> THEN <<>> ELSE Inner
           paths == Current.paths
           Path(name) == simplify_path(base \o name)
           Entry(name) == IF Path(name) \in DOMAIN paths THEN paths[Path(name)] ELSE NewPath
<1>2. PICK name \in IF blocks = <<>> THEN Names ELSE SubNames :
        /\ SetCurrent([Current EXCEPT !.paths = Set(@, Path(name), Entry(name))])
        /\ blocks' = Append(blocks, Path(name))
  BY DEF OpenPath
<1>3. /\ Blocks(paths) /\ blocks \in Seq(Seq(Plain)) /\ Len(blocks) \in Nat
      /\ \A n \in 1..Len(blocks) : blocks[n] \in Seq(Plain) /\ blocks[n] \in DOMAIN paths
  BY <1>1, CurrentIs DEF Linked
<1>4. base \in Seq(Segment) /\ name \in Seq(Segment)
  <2>1. Seq(Plain) \subseteq Seq(Segment)
    BY SeqMonotonic DEF Segment
  <2>2. name \in Seq(Segment)
    BY ConfAssumption
  <2>3. blocks # <<>> => Inner \in Seq(Plain)
    BY <1>3 DEF Inner
  <2> QED
    BY <2>1, <2>2, <2>3
<1> DEFINE path == Path(name)
           entry == Entry(name)
           more == Set(paths, path, entry)
<1>5. path \in Seq(Plain)
  <2>1. base \o name \in Seq(Segment)
    <3> HIDE DEF base
    <3> QED
      BY <1>4, ConcatProperties
  <2> HIDE DEF base
  <2> QED
    BY <2>1, SimplifyType
<1> HIDE DEF path, paths
<1>6. entry \in Block /\ entry.super \in DOMAIN paths \cup {NULL}
  <2>1. entry = IF path \in DOMAIN paths THEN paths[path] ELSE NewPath
    BY DEF path
  <2>2. NewPath \in Block /\ NewPath.super = NULL
    BY DEF NewPath, Block
  <2> HIDE DEF entry
  <2> QED
    BY <1>3, <2>1, <2>2 DEF Blocks
<1> HIDE DEF entry
<1>7. /\ DOMAIN more = DOMAIN paths \cup {path} /\ more[path] = entry
      /\ \A p \in DOMAIN paths : p # path => more[p] = paths[p]
      /\ more \in [DOMAIN more -> Block]
  <2>1. more = [x \in DOMAIN paths \cup {path} |-> IF x = path THEN entry ELSE paths[x]]
    BY DEF Set
  <2>2. \A x \in DOMAIN paths : paths[x] \in Block
    BY <1>3 DEF Blocks
  <2> HIDE DEF more
  <2> QED
    BY <1>6, <2>1, <2>2
<1> HIDE DEF more
<1>8. Blocks(more)
  <2>1. DOMAIN more \subseteq Seq(Plain)
    BY <1>3, <1>5, <1>7 DEF Blocks
  <2>2. IsFiniteSet(DOMAIN more)
    <3>1. IsFiniteSet(DOMAIN paths)
      BY <1>3 DEF Blocks
    <3>2. IsFiniteSet(DOMAIN paths \cup {path})
      BY <3>1, FS_AddElement
    <3> QED
      BY <1>7, <3>2
  <2>3. \A p \in DOMAIN more : more[p].super \in DOMAIN more \cup {NULL}
    BY <1>3, <1>6, <1>7 DEF Blocks
  <2> QED
    BY <1>7, <2>1, <2>2, <2>3 DEF Blocks
<1>9. SetCurrent([Current EXCEPT !.paths = more]) /\ blocks' = Append(blocks, path)
  BY <1>2 DEF more, path, entry, paths
<1>10. /\ blocks' \in Seq(Seq(Plain))
       /\ \A n \in 1..Len(blocks') : blocks'[n] \in DOMAIN more
  <2>1. /\ blocks' \in Seq(Seq(Plain)) /\ Len(blocks') = Len(blocks) + 1
        /\ \A n \in 1..Len(blocks) : blocks'[n] = blocks[n]
        /\ blocks'[Len(blocks) + 1] = path
    BY <1>3, <1>5, <1>9, AppendProperties
  <2>2. \A n \in 1..Len(blocks) + 1 : n \in 1..Len(blocks) \/ n = Len(blocks) + 1
    BY <1>3
  <2> QED
    BY <1>3, <1>7, <2>1, <2>2
<1>11. read' \in 0..MaxDirectives
  BY <1>1, DirectiveRead DEF IInv
<1> QED
  BY <1>1, <1>8, <1>9, <1>10, <1>11, PathsStep

(* A block of the server that is being read is changed. *)
LEMMA BlockSet ==
  ASSUME NEW paths, Blocks(paths), NEW p \in DOMAIN paths, NEW block \in Block,
         block.super \in DOMAIN paths \cup {NULL}
  PROVE  /\ Blocks([paths EXCEPT ![p] = block])
         /\ DOMAIN [paths EXCEPT ![p] = block] = DOMAIN paths
<1> DEFINE new == [paths EXCEPT ![p] = block]
<1>1. /\ DOMAIN new = DOMAIN paths
      /\ \A q \in DOMAIN paths : new[q] = IF q = p THEN block ELSE paths[q]
  OBVIOUS
<1>2. new = [q \in DOMAIN paths |-> new[q]]
  BY DEF Blocks
<1> HIDE DEF new
<1>3. new \in [DOMAIN new -> Block]
  BY <1>1, <1>2 DEF Blocks
<1>4. Blocks(new)
  BY <1>1, <1>3 DEF Blocks
<1> QED
  BY <1>1, <1>4 DEF new

LEMMA ReadOptionStep ==
  ASSUME IInv, ReadOption
  PROVE  IInv'
<1>1. /\ phase = "server" /\ phase' = phase /\ Directive /\ blocks # <<>>
      /\ UNCHANGED <<blocks, port_set, conf, noted, told>>
  BY DEF ReadOption
<1>2. PICK o \in Options : SetCurrent([Current EXCEPT !.paths[Inner].set = @ \cup {o}])
  BY DEF ReadOption
<1> DEFINE paths == Current.paths
           block == [paths[Inner] EXCEPT !.set = paths[Inner].set \cup {o}]
           more == [paths EXCEPT ![Inner] = block]
<1>3. /\ Blocks(paths) /\ blocks \in Seq(Seq(Plain)) /\ Len(blocks) \in Nat
      /\ \A n \in 1..Len(blocks) : blocks[n] \in Seq(Plain) /\ blocks[n] \in DOMAIN paths
      /\ Current \in ServerConf
  BY <1>1, CurrentIs DEF Linked
<1>4. Inner \in DOMAIN paths
  BY <1>1, <1>3 DEF Inner
<1>5. SetCurrent([Current EXCEPT !.paths = more])
  BY <1>2
<1>6. block \in Block /\ block.super = paths[Inner].super
  <2>1. paths[Inner] \in Block
    BY <1>3, <1>4 DEF Blocks
  <2> QED
    BY <2>1 DEF Block
<1> HIDE DEF paths, block
<1>7. Blocks(more) /\ DOMAIN more = DOMAIN paths
  BY <1>3, <1>4, <1>6, BlockSet DEF Blocks
<1> HIDE DEF more
<1>8. \A n \in 1..Len(blocks') : blocks'[n] \in DOMAIN more
  BY <1>1, <1>3, <1>7
<1>9. read' \in 0..MaxDirectives
  BY <1>1, DirectiveRead DEF IInv
<1> QED
  BY <1>1, <1>3, <1>5, <1>7, <1>8, <1>9, PathsStep

LEMMA ClosePathStep ==
  ASSUME IInv, ClosePath
  PROVE  IInv'
<1>1. /\ phase = "server" /\ phase' = phase /\ blocks # <<>> /\ blocks' = Front(blocks)
      /\ UNCHANGED <<port_set, conf, noted, told, read>>
  BY DEF ClosePath
<1> DEFINE paths == Current.paths
           L == Len(blocks)
<1>2. /\ Blocks(paths) /\ blocks \in Seq(Seq(Plain)) /\ L \in Nat /\ L # 0
      /\ \A n \in 1..L : blocks[n] \in Seq(Plain) /\ blocks[n] \in DOMAIN paths
      /\ Current \in ServerConf
  BY <1>1, CurrentIs DEF Linked
<1>3. /\ blocks' \in Seq(Seq(Plain)) /\ Len(blocks') = L - 1
      /\ \A n \in 1..L - 1 : blocks'[n] = blocks[n]
  <2>1. \A n \in 1..L - 1 : blocks[n] \in Seq(Plain)
    BY <1>2
  <2>2. 1 \in Int /\ L - 1 \in Int /\ blocks' = SubSeq(blocks, 1, L - 1)
    BY <1>1, <1>2 DEF Front
  <2>3. /\ SubSeq(blocks, 1, L - 1) \in Seq(Seq(Plain))
        /\ Len(SubSeq(blocks, 1, L - 1)) = IF 1 <= L - 1 THEN L - 1 - 1 + 1 ELSE 0
        /\ \A n \in 1..L - 1 - 1 + 1 : SubSeq(blocks, 1, L - 1)[n] = blocks[1 + n - 1]
    BY <2>1, <2>2, SubSeqProperties
  <2>4. \A n \in 1..L - 1 : n \in 1..L - 1 - 1 + 1 /\ 1 + n - 1 = n
    BY <1>2
  <2> HIDE DEF L
  <2> QED
    BY <1>2, <2>2, <2>3, <2>4
<1>4. \A n \in 1..Len(blocks') : blocks'[n] \in DOMAIN paths
  BY <1>2, <1>3
<1>5. read' \in 0..MaxDirectives
  BY <1>1 DEF IInv, Typed
<1>6. CASE L = 1
  <2>1. UNCHANGED servers
    BY <1>6 DEF ClosePath
  <2>2. /\ servers \in Seq(ServerConf) /\ Len(servers) \in Nat /\ Len(told) \in Nat
        /\ Len(servers) = Len(told) + 1
    BY <1>1, LenProperties DEF IInv, Typed, Inside
  <2>3. SetCurrent([Current EXCEPT !.paths = paths])
    <3>1. [Current EXCEPT !.paths = paths] = Current
      BY <1>2 DEF ServerConf
    <3>2. [servers EXCEPT ![Len(servers)] = Current] = servers
      BY <2>2 DEF Current
    <3> QED
      BY <2>1, <3>1, <3>2 DEF SetCurrent
  <2> HIDE DEF paths
  <2> QED
    BY <1>1, <1>2, <1>3, <1>4, <1>5, <2>3, PathsStep
<1>7. CASE L # 1
  <2> DEFINE outer == Last(Front(blocks))
             block == [paths[Inner] EXCEPT !.super = outer]
             more == [paths EXCEPT ![Inner] = block]
  <2>1. SetCurrent([Current EXCEPT !.paths[Inner].super = Last(Front(blocks))])
    BY <1>7 DEF ClosePath
  <2>2. Inner \in DOMAIN paths
    BY <1>1, <1>2 DEF Inner
  <2>3. outer \in DOMAIN paths
    <3>1. outer = blocks'[L - 1]
      BY <1>1, <1>3 DEF Last
    <3>2. L - 1 \in 1..Len(blocks')
      BY <1>2, <1>3, <1>7
    <3> QED
      BY <1>4, <3>1, <3>2
  <2>4. SetCurrent([Current EXCEPT !.paths = more])
    BY <2>1
  <2>5. block \in Block /\ block.super \in DOMAIN paths \cup {NULL}
    <3>1. paths[Inner] \in Block /\ DOMAIN paths \subseteq Seq(Plain)
      BY <1>2, <2>2 DEF Blocks
    <3> HIDE DEF outer, paths
    <3> QED
      BY <2>3, <3>1 DEF Block
  <2> HIDE DEF paths, block
  <2>6. Blocks(more) /\ DOMAIN more = DOMAIN paths
    BY <1>2, <2>2, <2>5, BlockSet
  <2> HIDE DEF more
  <2> QED
    BY <1>1, <1>2, <1>3, <1>4, <1>5, <2>4, <2>6, PathsStep
<1> QED
  BY <1>6, <1>7

(* Copies are still what the file said. *)
LEMMA CopyAsTold ==
  ASSUME IInv, phase \in {"top", "running"}, NEW kept \in {servers, Copy(servers)}
  PROVE  /\ kept \in Seq(ServerConf) /\ Len(kept) = Len(servers)
         /\ \A i \in 1..Len(servers) :
              Linked(kept[i], port_set) /\ kept[i].ports = servers[i].ports
         /\ \A i \in 1..Len(told) :
              /\ kept[i].paths \in {told[i].paths, CopyPaths(told[i].paths)}
              /\ Numbered(kept[i], told[i].pages)
<1>1. CASE kept = servers
  BY <1>1 DEF IInv, Typed, Ports, AsTold
<1>2. CASE kept = Copy(servers)
  <2>1. /\ kept \in Seq(ServerConf) /\ Len(kept) = Len(servers) /\ Len(servers) = Len(told)
        /\ \A i \in 1..Len(servers) :
             /\ kept[i].ports = servers[i].ports
             /\ kept[i].pages = servers[i].pages
             /\ kept[i].index = servers[i].index
             /\ kept[i].paths = CopyPaths(servers[i].paths)
    BY <1>2, CopyServers DEF IInv, Inside
  <2>2. ASSUME NEW i \in 1..Len(servers) PROVE Linked(kept[i], port_set)
    <3>1. Linked(servers[i], port_set)
      BY DEF IInv, Ports
    <3>2. Blocks(CopyPaths(servers[i].paths))
      BY <3>1, CopyIsBlocks DEF Linked
    <3> QED
      BY <2>1, <3>1, <3>2 DEF Linked
  <2>3. ASSUME NEW i \in 1..Len(told)
        PROVE  /\ kept[i].paths \in {told[i].paths, CopyPaths(told[i].paths)}
               /\ Numbered(kept[i], told[i].pages)
    <3>1. /\ Blocks(told[i].paths)
          /\ servers[i].paths \in {told[i].paths, CopyPaths(told[i].paths)}
          /\ Numbered(servers[i], told[i].pages)
      BY DEF IInv, AsTold
    <3>2. CopyPaths(servers[i].paths) = CopyPaths(told[i].paths)
      BY <3>1, CopyTwice
    <3> QED
      BY <2>1, <3>1, <3>2, NumberedSame
  <2> QED
    BY <2>1, <2>2, <2>3
<1> QED
  BY <1>1, <1>2

LEMMA NewServerIs ==
  /\ NewServer \in ServerConf /\ \A ports : Linked(NewServer, ports)
  /\ Numbered(NewServer, <<>>) /\ NewServer.ports = {}
<1>1. /\ NewServer.ports = {} /\ NewServer.pages = <<>> /\ NewServer.index = <<>>
      /\ NewServer.paths = <<>> /\ NewServer.names = {}
      /\ DOMAIN <<>> = {} /\ Len(<<>>) = 0 /\ \A i \in 1..0 : FALSE
  BY DEF NewServer
<1>2. Blocks(<<>>)
  BY <1>1, FS_EmptySet DEF Blocks
<1>3. <<>> \in PathMaps
  BY <1>2, PathMapType
<1>4. <<>> \in IndexMaps
  <2>1. <<>> \in [{} -> Nat] /\ {} \in SUBSET ErrCodes
    OBVIOUS
  <2> QED
    BY <2>1 DEF IndexMaps
<1>5. NewServer \in ServerConf
  BY <1>3, <1>4 DEF NewServer, ServerConf
<1>6. \A ports : Linked(NewServer, ports)
  BY <1>1, <1>2 DEF Linked
<1>7. Numbered(NewServer, <<>>)
  BY <1>1 DEF Numbered
<1> QED
  BY <1>1, <1>5, <1>6, <1>7

LEMMA ReadServerStep ==
  ASSUME IInv, ReadServer
  PROVE  IInv'
<1>1. /\ phase = "top" /\ phase' = "server" /\ noted' = <<>> /\ Directive
      /\ UNCHANGED <<port_set, blocks, conf, told>>
  BY DEF ReadServer
<1>2. PICK kept \in {servers, Copy(servers)} : servers' = Append(kept, NewServer)
  BY DEF ReadServer
<1> DEFINE N == Len(servers)
<1>3. /\ kept \in Seq(ServerConf) /\ Len(kept) = N
      /\ \A i \in 1..N : Linked(kept[i], port_set) /\ kept[i].ports = servers[i].ports
      /\ \A i \in 1..Len(told) :
           /\ kept[i].paths \in {told[i].paths, CopyPaths(told[i].paths)}
           /\ Numbered(kept[i], told[i].pages)
  BY <1>1, CopyAsTold
<1>4. N \in Nat /\ N = Len(told) /\ blocks = <<>>
  BY <1>1, LenProperties DEF IInv, Typed, Inside
<1> HIDE DEF N
<1>5. /\ servers' \in Seq(ServerConf) /\ Len(servers') = N + 1 /\ servers'[N + 1] = NewServer
      /\ \A i \in 1..N : servers'[i] = kept[i]
  BY <1>2, <1>3, <1>4, NewServerIs, AppendProperties
<1>6. \A i \in 1..N + 1 : i \in 1..N \/ i = N + 1
  BY <1>4
<1>7. Typed'
  <2>1. <<>> \in Seq(Note) /\ read' \in 0..MaxDirectives
    BY <1>1, DirectiveRead DEF IInv
  <2> QED
    BY <1>1, <1>5, <2>1 DEF IInv, Typed
<1>8. Ports'
  <2>1. \A i \in 1..N + 1 : Linked(servers'[i], port_set')
    BY <1>1, <1>3, <1>5, <1>6, NewServerIs
  <2>2. ASSUME NEW port \in port_set' PROVE \E i \in 1..N + 1 : port \in servers'[i].ports
    <3>1. PICK i \in 1..N : port \in servers[i].ports
      BY <1>1 DEF IInv, Ports, N
    <3>2. i \in 1..N + 1
      BY <1>4
    <3> QED
      BY <1>3, <1>5, <3>1, <3>2
  <2> QED
    BY <1>5, <2>1, <2>2 DEF Ports
<1>9. Inside'
  <2>1. Current' = NewServer
    <3>1. Current' = servers'[Len(servers')]
      BY DEF Current
    <3> QED
      BY <1>5, <3>1
  <2>2. blocks' = <<>> /\ Len(<<>>) = 0 /\ \A n \in 1..0 : FALSE
    BY <1>1, <1>4
  <2> QED
    BY <1>1, <1>4, <1>5, <2>1, <2>2, NewServerIs DEF Inside
<1>10. AsTold'
  <2>1. ASSUME NEW i \in 1..Len(told)
        PROVE  /\ Blocks(told[i].paths) /\ <<>> \in DOMAIN told[i].paths
               /\ servers'[i].paths \in {told[i].paths, CopyPaths(told[i].paths)}
               /\ Numbered(servers'[i], told[i].pages)
    <3>1. servers'[i] = kept[i]
      BY <1>4, <1>5
    <3> QED
      BY <1>1, <1>3, <3>1 DEF IInv, AsTold
  <2> QED
    BY <1>1, <2>1 DEF AsTold
<1>11. CopyRuns'
  BY <1>1 DEF CopyRuns, Running, IInv
<1> QED
  BY <1>7, <1>8, <1>9, <1>10, <1>11 DEF IInv

LEMMA CloseServerStep ==
  ASSUME IInv, CloseServer
  PROVE  IInv'
<1>1. /\ phase = "server" /\ blocks = <<>> /\ phase' = AfterServer(Current.paths)
      /\ told' = Append(told, [paths |-> Current.paths, pages |-> noted])
      /\ UNCHANGED <<port_set, servers, blocks, conf, noted, read>>
  BY DEF CloseServer
<1> DEFINE N == Len(servers)
           last == [paths |-> Current.paths, pages |-> noted]
<1>2. /\ Current \in ServerConf /\ Linked(Current, port_set) /\ Numbered(Current, noted)
      /\ noted \in Seq(Note)
  BY <1>1, CurrentIs
<1>3. /\ phase' \in {"failed", "crashed", "top"}
      /\ phase' = "top" => <<>> \in DOMAIN Current.paths
  BY <1>1 DEF AfterServer
<1>4. /\ told \in Seq([paths : PathMaps, pages : Seq(Note)]) /\ Len(told) \in Nat
      /\ N \in Nat /\ N = Len(told) + 1
  BY <1>1, LenProperties DEF IInv, Typed, Inside
<1>5. /\ told' \in Seq([paths : PathMaps, pages : Seq(Note)]) /\ Len(told') = N /\ told'[N] = last
      /\ \A i \in 1..Len(told) : told'[i] = told[i]
  <2>1. last \in [paths : PathMaps, pages : Seq(Note)]
    BY <1>2, PathMapType DEF Linked
  <2> HIDE DEF last, N
  <2> QED
    BY <1>1, <1>4, <2>1, AppendProperties DEF last
<1>6. last.paths = Current.paths /\ last.pages = noted /\ Current = servers[N]
  BY DEF Current
<1> HIDE DEF N, last
<1>7. Typed'
  BY <1>1, <1>3, <1>5 DEF IInv, Typed
<1>8. Ports'
  BY <1>1 DEF IInv, Ports
<1>9. Inside'
  <2>1. blocks' = <<>> /\ Len(<<>>) = 0 /\ \A n \in 1..0 : FALSE
    BY <1>1
  <2> QED
    BY <1>1, <1>3, <1>5, <2>1 DEF Inside, N
<1>10. AsTold'
  <2> SUFFICES ASSUME phase' = "top", NEW i \in 1..N
               PROVE  /\ Blocks(told'[i].paths) /\ <<>> \in DOMAIN told'[i].paths
                      /\ servers[i].paths \in {told'[i].paths, CopyPaths(told'[i].paths)}
                      /\ Numbered(servers[i], told'[i].pages)
    BY <1>1, <1>3, <1>5 DEF AsTold
  <2>1. CASE i \in 1..Len(told)
    BY <1>1, <1>5, <2>1 DEF IInv, AsTold
  <2>2. CASE i = N
    BY <1>2, <1>3, <1>5, <1>6, <2>2 DEF Linked
  <2> QED
    BY <1>4, <2>1, <2>2
<1>11. CopyRuns'
  BY <1>1, <1>3 DEF CopyRuns, Running, IInv
<1> QED
  BY <1>7, <1>8, <1>9, <1>10, <1>11 DEF IInv

LEMMA ParseErrorStep ==
  ASSUME IInv, ParseError
  PROVE  IInv'
<1>1. /\ phase \in {"top", "server"} /\ phase' = "failed"
      /\ UNCHANGED <<port_set, servers, blocks, conf, noted, told, read>>
  BY DEF ParseError, Reading
<1>2. Current' = Current
  BY <1>1 DEF Current
<1>3. Typed' /\ Ports' /\ AsTold' /\ CopyRuns'
  BY <1>1 DEF IInv, Typed, Ports, AsTold, CopyRuns, Running
<1>4. Inside'
  BY <1>1, <1>2 DEF IInv, Inside
<1> QED
  BY <1>3, <1>4 DEF IInv

LEMMA LaunchStep ==
  ASSUME IInv, Launch
  PROVE  IInv'
<1>1. /\ phase = "top" /\ phase' = "running" /\ conf' = Copy(servers)
      /\ UNCHANGED <<port_set, servers, blocks, noted, told, read>>
  BY DEF Launch
<1>2. Current' = Current /\ Copy(servers)' = Copy(servers)
  BY <1>1 DEF Current, Copy
<1>3. Typed' /\ Ports' /\ AsTold'
  BY <1>1 DEF IInv, Typed, Ports, AsTold
<1>4. Inside' /\ CopyRuns'
  BY <1>1, <1>2 DEF IInv, Inside, CopyRuns, Running
<1> QED
  BY <1>3, <1>4 DEF IInv

LEMMA NextIInv ==
  ASSUME IInv, [Next]_vars
  PROVE  IInv'
<1>1. CASE UNCHANGED vars
  <2>1. UNCHANGED <<phase, servers, port_set, blocks, conf, noted, told, read>>
    BY <1>1 DEF vars
  <2>2. Current' = Current /\ Copy(servers)' = Copy(servers)
    BY <2>1 DEF Current, Copy
  <2> QED
    BY <2>1, <2>2 DEF IInv, Typed, Ports, Inside, AsTold, CopyRuns, Running
<1> QED
  BY <1>1, ReadServerStep, ReadPortsStep, ReadNamesStep, ReadErrpageStep, OpenPathStep,
     ReadOptionStep, ClosePathStep, CloseServerStep, ParseErrorStep, LaunchStep DEF Next

(* What is read, what was told of it and what runs agree in every state:   *)
(* the inductive invariant, for files of any length.                       *)
THEOREM Invariant == Spec => []IInv
<1> QED
  BY InitIInv, NextIInv, PTL DEF Spec

-----------------------------------------------------------------------------
(* The theorems *)

(* What a running server goes by is a copy of what the file said. *)
LEMMA ConfIs ==
  ASSUME IInv, Running
  PROVE  /\ conf \in Seq(ServerConf) /\ DOMAIN conf = 1..Len(conf)
         /\ Len(conf) \in Nat /\ Len(conf) = Len(servers)
         /\ \A i \in DOMAIN conf :
              /\ Linked(conf[i], port_set) /\ conf[i].ports = servers[i].ports
              /\ Numbered(conf[i], told[i].pages)
              /\ Blocks(told[i].paths) /\ conf[i].paths = CopyPaths(told[i].paths)
              /\ Blocks(conf[i].paths) /\ DOMAIN conf[i].paths = DOMAIN told[i].paths
              /\ <<>> \in DOMAIN conf[i].paths
<1>1. conf = Copy(servers) /\ phase = "running"
  BY DEF IInv, CopyRuns, Running
<1>2. /\ conf \in Seq(ServerConf) /\ Len(conf) = Len(servers)
      /\ \A i \in 1..Len(servers) :
           /\ Linked(conf[i], port_set) /\ conf[i].ports = servers[i].ports
      /\ \A i \in 1..Len(told) : Numbered(conf[i], told[i].pages)
  BY <1>1, CopyAsTold
<1>3. \A i \in 1..Len(servers) : conf[i].paths = CopyPaths(servers[i].paths)
  BY <1>1, CopyServers DEF IInv
<1>4. Len(servers) = Len(told)
  BY <1>1 DEF IInv, Inside
<1>5. DOMAIN conf = 1..Len(conf) /\ Len(conf) \in Nat
  BY <1>2, LenProperties
<1>6. ASSUME NEW i \in DOMAIN conf
      PROVE  /\ Blocks(told[i].paths) /\ conf[i].paths = CopyPaths(told[i].paths)
             /\ Blocks(conf[i].paths) /\ DOMAIN conf[i].paths = DOMAIN told[i].paths
             /\ <<>> \in DOMAIN conf[i].paths
  <2>1. i \in 1..Len(servers) /\ i \in 1..Len(told)
    BY <1>2, <1>4, <1>5
  <2>2. /\ Blocks(told[i].paths) /\ <<>> \in DOMAIN told[i].paths
        /\ servers[i].paths \in {told[i].paths, CopyPaths(told[i].paths)}
    BY <1>1, <2>1 DEF IInv, AsTold
  <2>3. conf[i].paths = CopyPaths(told[i].paths)
    BY <1>3, <2>1, <2>2, CopyTwice
  <2> QED
    BY <2>2, <2>3, CopyIsBlocks
<1> QED
  BY <1>2, <1>4, <1>5, <1>6

LEMMA ServerType ==
  ASSUME NEW s \in ServerConf, Linked(s, port_set)
  PROVE  /\ s.ports \subseteq port_set /\ s.names \subseteq Hosts
         /\ s.pages \in Seq(Pages) /\ DOMAIN s.index \subseteq ErrCodes
         /\ \A c \in DOMAIN s.index : s.index[c] \in DOMAIN s.pages
         /\ DOMAIN s.paths \subseteq Seq(Plain)
         /\ \A p \in DOMAIN s.paths : /\ s.paths[p].set \subseteq Options
                                      /\ s.paths[p].super \in DOMAIN s.paths \cup {NULL}
<1>1. /\ s.names \subseteq Hosts /\ s.pages \in Seq(Pages)
      /\ s.index \in IndexMaps
  BY DEF ServerConf
<1>2. DOMAIN s.index \subseteq ErrCodes
  BY <1>1 DEF IndexMaps
<1>3. \A p \in DOMAIN s.paths : s.paths[p] \in Block
  BY DEF Linked, Blocks
<1>4. \A p \in DOMAIN s.paths : s.paths[p].set \subseteq Options
  BY <1>3 DEF Block
<1> QED
  BY <1>1, <1>2, <1>4 DEF Linked, Blocks

LEMMA IInvTypeOK ==
  ASSUME IInv
  PROVE  TypeOK
<1>1. ASSUME NEW s \in ToSet(servers)
      PROVE  s \in ServerConf /\ Linked(s, port_set)
  <2>1. PICK i \in DOMAIN servers : s = servers[i]
    BY DEF ToSet
  <2>2. i \in 1..Len(servers)
    BY <2>1, LenProperties DEF IInv, Typed
  <2> QED
    BY <2>1, <2>2, ServerIs DEF IInv, Ports
<1>2. ASSUME NEW s \in ToSet(conf)
      PROVE  s \in ServerConf /\ Linked(s, port_set)
  <2>1. PICK i \in DOMAIN conf : s = conf[i]
    BY DEF ToSet
  <2>2. Running
    <3>1. DOMAIN <<>> = {}
      OBVIOUS
    <3> QED
      BY <2>1, <3>1 DEF IInv, CopyRuns
  <2>3. conf \in Seq(ServerConf) /\ i \in 1..Len(conf) /\ Linked(conf[i], port_set)
    BY <2>1, <2>2, ConfIs
  <2> QED
    BY <2>1, <2>3, ElementOfSeq
<1>3. ToSet(blocks) \subseteq IF servers = <<>> THEN {} ELSE DOMAIN Current.paths
  <2>1. ASSUME NEW b \in ToSet(blocks) PROVE servers # <<>> /\ b \in DOMAIN Current.paths
    <3>1. PICK n \in DOMAIN blocks : b = blocks[n]
      BY DEF ToSet
    <3>2. n \in 1..Len(blocks)
      BY <3>1, LenProperties DEF IInv, Typed
    <3> QED
      BY <3>1, <3>2 DEF IInv, Inside
  <2> QED
    BY <2>1
<1>4. \A s \in ToSet(servers) \cup ToSet(conf) :
        /\ s.ports \subseteq port_set /\ s.names \subseteq Hosts
        /\ s.pages \in Seq(Pages) /\ DOMAIN s.index \subseteq ErrCodes
        /\ \A c \in DOMAIN s.index : s.index[c] \in DOMAIN s.pages
        /\ DOMAIN s.paths \subseteq Seq(Plain)
        /\ \A p \in DOMAIN s.paths : /\ s.paths[p].set \subseteq Options
                                     /\ s.paths[p].super \in DOMAIN s.paths \cup {NULL}
  BY <1>1, <1>2, ServerType
<1> QED
  BY <1>3, <1>4 DEF IInv, Typed, TypeOK

LEMMA IInvOptions ==
  ASSUME IInv
  PROVE  OptionsKept
<1> SUFFICES ASSUME Running, NEW i \in DOMAIN conf
             PROVE  /\ DOMAIN conf[i].paths = DOMAIN told[i].paths
                    /\ \A p \in DOMAIN conf[i].paths, o \in Options :
                         \/ _get(conf[i].paths, p, o) = _get(told[i].paths, p, o)
                         \/ Climbs(told[i].paths, p)
  BY DEF OptionsKept
<1>1. /\ Blocks(told[i].paths) /\ conf[i].paths = CopyPaths(told[i].paths)
      /\ DOMAIN conf[i].paths = DOMAIN told[i].paths
  BY ConfIs
<1>2. ASSUME NEW p \in DOMAIN told[i].paths, NEW o \in Options, ~Climbs(told[i].paths, p)
      PROVE  _get(conf[i].paths, p, o) = _get(told[i].paths, p, o)
  BY <1>1, <1>2, CopyKeepsOptions
<1> QED
  BY <1>1, <1>2

LEMMA IInvLongest ==
  ASSUME IInv
  PROVE  LongestPrefix
<1> SUFFICES ASSUME Running, NEW i \in DOMAIN conf, NEW uri \in Uris
             PROVE  LET p == get_conf(conf[i].paths, uri)
                    IN  /\ p # NULL /\ IsPrefix(p, Meaning(uri))
                        /\ \A q \in DOMAIN conf[i].paths :
                             IsPrefix(q, Meaning(uri)) => Len(q) <= Len(p)
  BY DEF LongestPrefix
<1> DEFINE paths == conf[i].paths
<1>1. Blocks(paths) /\ <<>> \in DOMAIN paths
  BY ConfIs
<1>2. uri \in Seq(Segment)
  BY ConfAssumption
<1> HIDE DEF paths
<1>3. /\ get_conf(paths, uri) \in DOMAIN paths
      /\ IsPrefix(get_conf(paths, uri), simplify_path(uri))
      /\ \A q \in DOMAIN paths :
           IsPrefix(q, simplify_path(uri)) => Len(q) <= Len(get_conf(paths, uri))
  BY <1>1, <1>2, GetConfIs
<1>4. get_conf(paths, uri) # NULL
  <2>1. get_conf(paths, uri) \in Seq(Plain)
    BY <1>1, <1>3 DEF Blocks
  <2>2. Seq(Plain) \subseteq Seq(Segment)
    BY SeqMonotonic DEF Segment
  <2> QED
    BY <2>1, <2>2, ConfAssumption
<1> QED
  BY <1>2, <1>3, <1>4, SimplifyIsMeaning DEF paths

LEMMA IInvRedirect ==
  ASSUME IInv
  PROVE  RedirectKeepsRest
<1> SUFFICES ASSUME Running, NEW i \in DOMAIN conf, NEW uri \in Uris,
                    simplify_path(uri) = uri,
                    is_redirected(conf[i].paths, get_conf(conf[i].paths, uri)),
                    ~Strays(conf[i].paths, get_conf(conf[i].paths, uri))
             PROVE  LET l == redirect_location(conf[i].paths, uri)
                    IN  l.to \o l.rest = uri
  BY DEF RedirectKeepsRest
<1> DEFINE paths == conf[i].paths
           p     == get_conf(paths, uri)
           to    == _get(paths, p, "redirect")
           rest  == SubSeq(uri, Len(to) + 1, Len(uri))
<1>1. Blocks(paths) /\ <<>> \in DOMAIN paths
  BY ConfIs
<1>2. /\ to \notin {Default, Endless} /\ ~Strays(paths, p)
      /\ redirect_location(paths, uri) = [to |-> to, rest |-> rest]
  BY DEF is_redirected, redirect_location
<1>3. uri \in Seq(Plain)
  <2>1. uri \in Seq(Segment)
    BY ConfAssumption
  <2> QED
    BY <2>1, SimplifyType
<1>4. p \in DOMAIN paths /\ IsPrefix(p, uri)
  <2> HIDE DEF paths
  <2>1. uri \in Seq(Segment)
    BY ConfAssumption
  <2> QED
    BY <1>1, <2>1, GetConfIs
<1>5. to \in DOMAIN paths /\ IsPrefix(to, p)
  <2> HIDE DEF paths, p
  <2> QED
    BY <1>1, <1>2, <1>4, GetIsAround DEF to
<1> HIDE DEF to, p, paths
<1>6. /\ to \in Seq(Plain) /\ p \in Seq(Plain)
      /\ Len(to) \in Nat /\ Len(p) \in Nat /\ Len(uri) \in Nat
  BY <1>1, <1>3, <1>4, <1>5, LenProperties DEF Blocks
<1>7. Len(to) <= Len(uri) /\ \A n \in 1..Len(to) : to[n] = uri[n]
  <2>1. /\ Len(to) <= Len(p) /\ \A n \in 1..Len(to) : to[n] = p[n]
        /\ Len(p) <= Len(uri) /\ \A n \in 1..Len(p) : p[n] = uri[n]
    BY <1>3, <1>4, <1>5, <1>6, PrefixIs
  <2>2. \A n \in 1..Len(to) : n \in 1..Len(p)
    BY <1>6, <2>1
  <2> QED
    BY <1>6, <2>1, <2>2
<1> DEFINE T == Len(to)
           U == Len(uri)
<1>8. /\ rest \in Seq(Plain) /\ Len(rest) = U - T
      /\ \A n \in 1..U - T : rest[n] = uri[T + n]
  <2>1. \A n \in T + 1..U : n \in 1..U
    BY <1>6
  <2>2. \A n \in T + 1..U : uri[n] \in Plain
    BY <1>3, <2>1, ElementOfSeq
  <2>3. /\ T + 1 \in Int /\ U \in Int
        /\ (T + 1 > U => U - T = 0) /\ (T + 1 <= U => U - (T + 1) + 1 = U - T)
        /\ \A n \in Nat : T + 1 + n - 1 = T + n
    BY <1>6, <1>7
  <2>4. rest \in Seq(Plain)
    BY <1>6, <2>2, <2>3, SubSeqProperties
  <2>5. Len(rest) = U - T
    BY <1>6, <1>7, <2>2, <2>3, SubSeqProperties
  <2> QED
    BY <1>3, <1>6, <1>7, <2>4, <2>5
<1>9. /\ to \o rest \in Seq(Plain) /\ Len(to \o rest) = U
      /\ \A n \in 1..U : (to \o rest)[n] = IF n <= T THEN to[n] ELSE rest[n - T]
  <2> HIDE DEF rest
  <2> QED
    BY <1>6, <1>7, <1>8, ConcatProperties
<1>10. ASSUME NEW n \in 1..U PROVE (to \o rest)[n] = uri[n]
  <2> HIDE DEF rest
  <2>1. CASE n <= T
    BY <1>6, <1>7, <1>9, <2>1
  <2>2. CASE n > T
    <3>1. n - T \in 1..U - T /\ T + (n - T) = n
      BY <1>6, <2>2
    <3> QED
      BY <1>6, <1>8, <1>9, <2>2, <3>1
  <2>3. n \in Nat /\ T \in Nat
    BY <1>6
  <2> HIDE DEF T
  <2>4. n <= T \/ n > T
    BY <2>3
  <2> QED
    BY <2>1, <2>2, <2>4
<1>11. to \o rest = uri
  <2> HIDE DEF rest
  <2> QED
    BY <1>3, <1>9, <1>10, SeqEqual
<1>12. redirect_location(paths, uri).to \o redirect_location(paths, uri).rest = uri
  <2> HIDE DEF rest
  <2> QED
    BY <1>2, <1>11
<1> QED
  BY <1>12 DEF paths

LEMMA IInvPorts ==
  ASSUME IInv
  PROVE  PortServed
<1> SUFFICES ASSUME Running, NEW port \in port_set, NEW host \in Hosts
             PROVE  LET n == get_server_conf(port, host)
                        listening == {i \in DOMAIN conf : port \in conf[i].ports}
                        named_so  == {i \in listening : host \in conf[i].names}
                    IN  /\ n \in listening
                        /\ n \in named_so \/ named_so = {}
                        /\ \A i \in (IF named_so = {} THEN listening ELSE named_so) : n <= i
  BY DEF PortServed
<1> DEFINE listening == {i \in DOMAIN conf : port \in conf[i].ports}
           named_so  == {i \in listening : host \in conf[i].names}
<1>1. /\ DOMAIN conf = 1..Len(conf) /\ Len(conf) \in Nat /\ Len(conf) = Len(servers)
      /\ \A i \in DOMAIN conf : conf[i].ports = servers[i].ports
  BY ConfIs
<1>2. listening # {}
  <2>1. PICK i \in 1..Len(servers) : port \in servers[i].ports
    BY DEF IInv, Ports
  <2> QED
    BY <1>1, <2>1
<1>3. /\ named_so = {i \in 1..Len(conf) : port \in conf[i].ports /\ host \in conf[i].names}
      /\ listening = {i \in 1..Len(conf) : port \in conf[i].ports}
  BY <1>1
<1>4. get_server_conf(port, host) =
        IF (IF named_so # {} THEN Min(named_so) ELSE 0) # 0
        THEN (IF named_so # {} THEN Min(named_so) ELSE 0)
        ELSE (IF listening # {} THEN Min(listening) ELSE 0)
  <2>1. SelectInSeq(conf, LAMBDA s : port \in s.ports /\ host \in s.names) =
          IF named_so # {} THEN Min(named_so) ELSE 0
    BY <1>3 DEF SelectInSeq
  <2>2. SelectInSeq(conf, LAMBDA s : port \in s.ports) =
          IF listening # {} THEN Min(listening) ELSE 0
    BY <1>3 DEF SelectInSeq
  <2> QED
    BY <2>1, <2>2 DEF get_server_conf
<1>5. ASSUME NEW S, S # {}, S \subseteq 1..Len(conf)
      PROVE  Min(S) \in S /\ \A i \in S : Min(S) <= i
  <2>1. S \in SUBSET Nat
    BY <1>1, <1>5
  <2>2. \E i \in S : \A j \in S : i <= j
    BY <1>5, <2>1, Least
  <2> QED
    BY <2>2 DEF Min
<1>6. listening \subseteq 1..Len(conf) /\ named_so \subseteq listening
  BY <1>1
<1>7. \A i \in listening : i # 0
  BY <1>1
<1> HIDE DEF listening, named_so
<1>8. CASE named_so = {}
  <2>1. get_server_conf(port, host) = Min(listening)
    BY <1>2, <1>4, <1>8
  <2> QED
    BY <1>2, <1>5, <1>6, <1>8, <2>1 DEF listening, named_so
<1>9. CASE named_so # {}
  <2>1. Min(named_so) \in named_so /\ \A i \in named_so : Min(named_so) <= i
    BY <1>5, <1>6, <1>9
  <2>2. get_server_conf(port, host) = Min(named_so)
    BY <1>4, <1>6, <1>7, <1>9, <2>1
  <2> QED
    BY <1>6, <1>9, <2>1, <2>2 DEF listening, named_so
<1> QED
  BY <1>8, <1>9

LEMMA IInvPages ==
  ASSUME IInv
  PROVE  ErrorPagesDistinct
<1> SUFFICES ASSUME Running, NEW i \in DOMAIN conf,
                    \A n, m \in DOMAIN told[i].pages :
                      told[i].pages[n].page = told[i].pages[m].page => n = m,
                    NEW n \in DOMAIN told[i].pages, NEW c \in told[i].pages[n].codes
             PROVE  \/ error_page(conf[i], c) = told[i].pages[n].page
                    \/ \E m \in n + 1..Len(told[i].pages) : c \in told[i].pages[m].codes
  BY DEF ErrorPagesDistinct, PageIsNamed
<1> DEFINE notes == told[i].pages
<1>1. /\ conf[i] \in ServerConf /\ Linked(conf[i], port_set) /\ Numbered(conf[i], notes)
      /\ i \in 1..Len(told)
  <2>1. conf \in Seq(ServerConf) /\ DOMAIN conf = 1..Len(conf) /\ Len(conf) = Len(servers)
        /\ Linked(conf[i], port_set) /\ Numbered(conf[i], notes)
    BY ConfIs
  <2>2. Len(servers) = Len(told)
    BY DEF IInv, Inside, Running
  <2> QED
    BY <2>1, <2>2, ElementOfSeq
<1>2. DOMAIN notes = 1..Len(notes)
  <2>1. told[i] \in [paths : PathMaps, pages : Seq(Note)]
    BY <1>1, ElementOfSeq DEF IInv, Typed
  <2>2. notes \in Seq(Note)
    BY <2>1
  <2> QED
    BY <2>2, LenProperties
<1>3. /\ conf[i].pages[n] = notes[n].page
      /\ c \in DOMAIN conf[i].index
      /\ conf[i].index[c] = n \/ \E m \in n + 1..Len(notes) : c \in notes[m].codes
  BY <1>1, <1>2 DEF Numbered
<1>4. conf[i].index[c] \in DOMAIN conf[i].pages
  BY <1>1, <1>3 DEF Linked
<1> QED
  BY <1>3, <1>4 DEF error_page

(* The configuration is well formed while it is read, in every copy of it  *)
(* and in the server that runs with it: ports and hosts are those that     *)
(* were read, and the page of an error and the block around a block are    *)
(* there (parse_conf and the copy constructors).                           *)
THEOREM TypeCorrect == Spec => []TypeOK
<1> QED
  BY Invariant, IInvTypeOK, PTL

(* Every block of a running server has the options it had when it was      *)
(* read, own and inherited, however often the maps were copied, unless one *)
(* around it climbs (Paths::Paths).                                        *)
THEOREM OptionsAreKept == Spec => []OptionsKept
<1> QED
  BY Invariant, IInvOptions, PTL

(* The block of a request is there, and is that of the longest prefix of   *)
(* what its path means that has one (Paths::get_conf, simplify_path).      *)
THEOREM LongestPrefixServes == Spec => []LongestPrefix
<1> QED
  BY Invariant, IInvLongest, PTL

(* A redirection replaces what its block covers of the path and keeps the  *)
(* rest, unless a block on the way to it strays (redirect_location).       *)
THEOREM RedirectsKeepRest == Spec => []RedirectKeepsRest
<1> QED
  BY Invariant, IInvRedirect, PTL

(* A request on any port the program listens on finds a server there: the  *)
(* first that has the host's name, or else the first (get_server_conf).    *)
THEOREM EveryPortServed == Spec => []PortServed
<1> QED
  BY Invariant, IInvPorts, PTL

(* When no two error_page directives of a server name the same page, the   *)
(* page for an error is the one the last directive with its code names     *)
(* (_read_errpage).                                                        *)
THEOREM PagesAreNamed == Spec => []ErrorPagesDistinct
<1> QED
  BY Invariant, IInvPages, PTL
=============================================================================
