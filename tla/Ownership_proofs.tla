---------------------------- MODULE Ownership_proofs ----------------------------
(***************************************************************************)
(* What may be done with nodes so that each of them keeps one owner, for   *)
(* any set H of holders and any set N of nodes; and what such owners make  *)
(* of the nodes: trees.                                                    *)
(***************************************************************************)
EXTENDS Ownership, SequenceTheorems, WellFoundedInduction, TLAPS

---------------------------------------------------------------------------
(* What sequences of nodes hold.                                           *)

\* Pushing a node on a stack.
LEMMA RangeAppend ==
  ASSUME NEW S, NEW s \in Seq(S), NEW x
  PROVE  /\ Range(Append(s, x)) = Range(s) \cup {x}
         /\ IsInjective(s) /\ x \notin Range(s) => IsInjective(Append(s, x))
<1>1. /\ Len(s) \in Nat /\ DOMAIN s = 1..Len(s) /\ DOMAIN Append(s, x) = 1..(Len(s) + 1)
      /\ \A i \in 1..Len(s) : Append(s, x)[i] = s[i]
      /\ Append(s, x)[Len(s) + 1] = x
  BY LenProperties
<1>2. Range(Append(s, x)) = Range(s) \cup {x}
  BY <1>1 DEF Range
<1> QED
  BY <1>1, <1>2 DEF Range, IsInjective

\* Two sequences behind each other.
LEMMA RangeConcat ==
  ASSUME NEW S, NEW s \in Seq(S), NEW t \in Seq(S)
  PROVE  /\ Range(s \o t) = Range(s) \cup Range(t)
         /\ IsInjective(s \o t) <=> /\ IsInjective(s) /\ IsInjective(t)
                                    /\ Range(s) \cap Range(t) = {}
<1> DEFINE a == Len(s)
           b == Len(t)
           u == s \o t
<1>1. /\ a \in Nat /\ DOMAIN s = 1..a /\ b \in Nat /\ DOMAIN t = 1..b
      /\ DOMAIN u = 1..(a + b)
      /\ \A i \in 1..a : u[i] = s[i]
      /\ \A i \in 1..b : a + i \in 1..(a + b) /\ u[a + i] = t[i]
      /\ \A i \in 1..(a + b) : i \notin 1..a => i - a \in 1..b /\ u[i] = t[i - a]
  BY LenProperties, ConcatProperties
<1> HIDE DEF a, b, u
<1>2. Range(u) = Range(s) \cup Range(t)
  <2>1. ASSUME NEW x \in Range(u) PROVE x \in Range(s) \cup Range(t)
    BY <1>1 DEF Range
  <2>2. ASSUME NEW x \in Range(s) PROVE x \in Range(u)
    BY <1>1 DEF Range
  <2>3. ASSUME NEW x \in Range(t) PROVE x \in Range(u)
    <3>1. PICK i \in 1..b : x = t[i]
      BY <1>1 DEF Range
    <3>2. a + i \in DOMAIN u /\ u[a + i] = x
      BY <1>1, <3>1
    <3> QED
      BY <3>2 DEF Range
  <2> QED
    BY <2>1, <2>2, <2>3
<1>3. ASSUME IsInjective(u) PROVE IsInjective(s) /\ IsInjective(t) /\ Range(s) \cap Range(t) = {}
  <2>1. ASSUME NEW i \in 1..a, NEW j \in 1..a, s[i] = s[j] PROVE i = j
    <3>1. i \in DOMAIN u /\ j \in DOMAIN u /\ u[i] = u[j]
      BY <1>1, <2>1
    <3> QED
      BY <1>3, <3>1 DEF IsInjective
  <2>2. ASSUME NEW i \in 1..b, NEW j \in 1..b, t[i] = t[j] PROVE i = j
    <3>1. a + i \in DOMAIN u /\ a + j \in DOMAIN u /\ u[a + i] = u[a + j]
      BY <1>1, <2>2
    <3>2. a + i = a + j
      BY <1>3, <3>1 DEF IsInjective
    <3> QED
      BY <1>1, <3>2
  <2>3. ASSUME NEW i \in 1..a, NEW j \in 1..b, s[i] = t[j] PROVE FALSE
    <3>1. i \in DOMAIN u /\ a + j \in DOMAIN u /\ u[i] = u[a + j]
      BY <1>1, <2>3
    <3>2. i = a + j
      BY <1>3, <3>1 DEF IsInjective
    <3> QED
      BY <1>1, <3>2
  <2> QED
    BY <1>1, <2>1, <2>2, <2>3 DEF IsInjective, Range
<1>4. ASSUME IsInjective(s), IsInjective(t), Range(s) \cap Range(t) = {} PROVE IsInjective(u)
  <2> SUFFICES ASSUME NEW i \in 1..(a + b), NEW j \in 1..(a + b), u[i] = u[j] PROVE i = j
    BY <1>1 DEF IsInjective
  <2>0. \A k \in 1..a, l \in 1..b : s[k] # t[l]
    BY <1>1, <1>4 DEF Range
  <2>1. CASE i \in 1..a /\ j \in 1..a
    BY <1>1, <1>4, <2>1 DEF IsInjective
  <2>2. CASE i \in 1..a /\ j \notin 1..a
    BY <1>1, <2>0, <2>2
  <2>3. CASE i \notin 1..a /\ j \in 1..a
    BY <1>1, <2>0, <2>3
  <2>4. CASE i \notin 1..a /\ j \notin 1..a
    <3>1. i - a \in 1..b /\ j - a \in 1..b /\ t[i - a] = t[j - a]
      BY <1>1, <2>4
    <3>2. i - a = j - a
      BY <1>1, <1>4, <3>1 DEF IsInjective
    <3> QED
      BY <1>1, <3>2
  <2> QED
    BY <2>1, <2>2, <2>3, <2>4
<1> QED
  BY <1>2, <1>3, <1>4 DEF u

LEMMA RangeEmpty == Range(<<>>) = {} /\ IsInjective(<<>>)
BY DEF Range, IsInjective

LEMMA RangeOf == ASSUME NEW S, NEW s \in Seq(S) PROVE Range(s) \subseteq S
BY ElementOfSeq, LenProperties DEF Range

---------------------------------------------------------------------------
(* Holders.                                                                *)

\* K maps every holder to the nodes it holds, and each of the nodes N is held
\* once: OwnedOnce, with all that is held by one owner taken together.
Owned(H, K, N) ==
  /\ K \in [H -> Seq(N)]
  /\ UNION {Range(K[h]) : h \in H} = N
  /\ \A g, h \in H : g # h => Range(K[g]) \cap Range(K[h]) = {}
  /\ \A h \in H : IsInjective(K[h])

\* The holders C pass their nodes around among themselves and take the new
\* nodes E.
LEMMA Rearrange ==
  ASSUME NEW H, NEW N, NEW K, Owned(H, K, N), NEW E, E \cap N = {},
         NEW L \in [H -> Seq(N \cup E)], NEW C \in SUBSET H,
         \A h \in H \ C : L[h] = K[h],
         UNION {Range(L[h]) : h \in C} = (UNION {Range(K[h]) : h \in C}) \cup E,
         \A g, h \in C : g # h => Range(L[g]) \cap Range(L[h]) = {},
         \A h \in C : IsInjective(L[h])
  PROVE  Owned(H, L, N \cup E)
<1>1. /\ DOMAIN K = H /\ DOMAIN L = H
      /\ UNION {Range(K[h]) : h \in H} = N
      /\ \A g, h \in H : g # h => Range(K[g]) \cap Range(K[h]) = {}
      /\ \A h \in H : IsInjective(K[h])
  BY DEF Owned
<1>2. UNION {Range(L[h]) : h \in H} = N \cup E
  <2>1. UNION {Range(L[h]) : h \in H}
          = (UNION {Range(L[h]) : h \in C}) \cup (UNION {Range(K[h]) : h \in H \ C})
    OBVIOUS
  <2>2. UNION {Range(K[h]) : h \in H}
          = (UNION {Range(K[h]) : h \in C}) \cup (UNION {Range(K[h]) : h \in H \ C})
    OBVIOUS
  <2> QED
    BY <1>1, <2>1, <2>2
<1>3. ASSUME NEW g \in C, NEW h \in H \ C
      PROVE  Range(L[g]) \cap Range(L[h]) = {}
  <2>1. Range(L[h]) = Range(K[h]) /\ Range(K[h]) \subseteq N
    BY <1>1
  <2>2. Range(L[g]) \subseteq (UNION {Range(K[f]) : f \in C}) \cup E
    OBVIOUS
  <2>3. \A f \in C : Range(K[f]) \cap Range(K[h]) = {}
    BY <1>1
  <2> QED
    BY <2>1, <2>2, <2>3
<1>4. \A g, h \in H : g # h => Range(L[g]) \cap Range(L[h]) = {}
  <2> SUFFICES ASSUME NEW g \in H, NEW h \in H, g # h
               PROVE  Range(L[g]) \cap Range(L[h]) = {}
    OBVIOUS
  <2>1. CASE g \in C /\ h \in C
    BY <2>1
  <2>2. CASE g \in C /\ h \notin C
    BY <1>3, <2>2
  <2>3. CASE g \notin C /\ h \in C
    BY <1>3, <2>3
  <2>4. CASE g \notin C /\ h \notin C
    BY <1>1, <2>4
  <2> QED
    BY <2>1, <2>2, <2>3, <2>4
<1>5. \A h \in H : IsInjective(L[h])
  BY <1>1
<1> QED
  BY <1>1, <1>2, <1>4, <1>5 DEF Owned

\* A new node is pushed.
LEMMA Give ==
  ASSUME NEW H, NEW N, NEW K, Owned(H, K, N), NEW h \in H, NEW x, x \notin N
  PROVE  Owned(H, [K EXCEPT ![h] = Append(@, x)], N \cup {x})
<1> DEFINE M == N \cup {x}
           L == [K EXCEPT ![h] = Append(@, x)]
<1>1. K \in [H -> Seq(N)] /\ K[h] \in Seq(N) /\ Seq(N) \subseteq Seq(M)
      /\ Range(K[h]) \subseteq N /\ IsInjective(K[h])
  BY SeqMonotonic, RangeOf DEF Owned
<1>2. /\ L[h] = Append(K[h], x) /\ L[h] \in Seq(M)
      /\ L \in [H -> Seq(M)]
      /\ \A g \in H \ {h} : L[g] = K[g]
  BY <1>1
<1>3. Range(L[h]) = Range(K[h]) \cup {x} /\ IsInjective(L[h])
  BY <1>1, <1>2, RangeAppend
<1> HIDE DEF L
<1>4. Owned(H, L, N \cup {x})
  <2> DEFINE C == {h}
  <2>1. /\ C \in SUBSET H /\ {x} \cap N = {}
        /\ \A g \in H \ C : L[g] = K[g]
        /\ (UNION {Range(L[g]) : g \in C}) = (UNION {Range(K[g]) : g \in C}) \cup {x}
        /\ \A f, g \in C : f # g => Range(L[f]) \cap Range(L[g]) = {}
        /\ \A g \in C : IsInjective(L[g])
    BY <1>2, <1>3
  <2> HIDE DEF C
  <2> QED
    BY <1>2, <2>1, Rearrange
<1> QED
  BY <1>4 DEF L

\* What g holds is put behind what h holds.
LEMMA Pour ==
  ASSUME NEW H, NEW N, NEW K, Owned(H, K, N), NEW g \in H, NEW h \in H, g # h
  PROVE  Owned(H, [K EXCEPT ![h] = @ \o K[g], ![g] = <<>>], N)
<1> DEFINE L == [K EXCEPT ![h] = @ \o K[g], ![g] = <<>>]
<1>1. /\ K \in [H -> Seq(N)] /\ K[h] \in Seq(N) /\ K[g] \in Seq(N)
      /\ <<>> \in Seq(N) /\ K[h] \o K[g] \in Seq(N)
      /\ IsInjective(K[g]) /\ IsInjective(K[h]) /\ Range(K[h]) \cap Range(K[g]) = {}
  BY ConcatProperties DEF Owned
<1>2. /\ L[h] = K[h] \o K[g] /\ L[g] = <<>> /\ L \in [H -> Seq(N)]
      /\ \A f \in H \ {g, h} : L[f] = K[f]
  BY <1>1
<1> HIDE DEF L
<1>3. Range(L[h]) = Range(K[h]) \cup Range(K[g]) /\ IsInjective(L[h])
      /\ Range(L[g]) = {} /\ IsInjective(L[g])
  BY <1>1, <1>2, RangeConcat, RangeEmpty
<1>4. Owned(H, L, N \cup {})
  <2> DEFINE C == {g, h}
  <2>1. /\ C \in SUBSET H /\ {} \cap N = {}
        /\ \A f \in H \ C : L[f] = K[f]
        /\ (UNION {Range(L[f]) : f \in C}) = (UNION {Range(K[f]) : f \in C}) \cup {}
        /\ \A e, f \in C : e # f => Range(L[e]) \cap Range(L[f]) = {}
        /\ \A f \in C : IsInjective(L[f])
    BY <1>2, <1>3
  <2>2. N \cup {} = N
    OBVIOUS
  <2> HIDE DEF C
  <2> QED
    BY <1>2, <2>1, <2>2, Rearrange
<1> QED
  BY <1>4 DEF L

\* The first nodes of g go to h, which was empty; a new node stands for them.
LEMMA Nest ==
  ASSUME NEW H, NEW N, NEW K, Owned(H, K, N), NEW g \in H, NEW h \in H, g # h,
         K[h] = <<>>, NEW s \in Seq(N), NEW t \in Seq(N), K[g] = s \o t,
         NEW x, x \notin N
  PROVE  Owned(H, [K EXCEPT ![g] = <<x>> \o t, ![h] = s], N \cup {x})
<1> DEFINE M == N \cup {x}
           L == [K EXCEPT ![g] = <<x>> \o t, ![h] = s]
<1>1. /\ K \in [H -> Seq(N)] /\ IsInjective(K[g]) /\ Seq(N) \subseteq Seq(M)
      /\ <<x>> \in Seq(M) /\ <<x>> \o t \in Seq(M)
  <2>1. K \in [H -> Seq(N)] /\ IsInjective(K[g])
    BY DEF Owned
  <2>2. Seq(N) \subseteq Seq(M) /\ <<x>> \in Seq(M)
    BY SeqMonotonic
  <2>3. t \in Seq(M)
    BY <2>2
  <2> HIDE DEF M
  <2> QED
    BY <2>1, <2>2, <2>3, ConcatProperties
<1>2. /\ L[g] = <<x>> \o t /\ L[h] = s /\ L \in [H -> Seq(M)]
      /\ \A f \in H \ {g, h} : L[f] = K[f]
  BY <1>1
<1>3. /\ Range(K[g]) = Range(s) \cup Range(t) /\ Range(K[h]) = {}
      /\ IsInjective(s) /\ IsInjective(t) /\ Range(s) \cap Range(t) = {}
      /\ Range(s) \subseteq N /\ Range(t) \subseteq N
  BY <1>1, RangeConcat, RangeEmpty, RangeOf
<1>4. Range(<<x>>) = {x} /\ IsInjective(<<x>>)
  BY DEF Range, IsInjective
<1>5. Range(<<x>> \o t) = {x} \cup Range(t) /\ IsInjective(<<x>> \o t)
  <2>1. t \in Seq(M) /\ {x} \cap Range(t) = {}
    BY <1>1, <1>3
  <2> QED
    BY <1>1, <1>3, <1>4, <2>1, RangeConcat
<1> HIDE DEF L
<1>6. Owned(H, L, N \cup {x})
  <2> DEFINE C == {g, h}
  <2>1. /\ Range(L[g]) = {x} \cup Range(t) /\ Range(L[h]) = Range(s)
        /\ IsInjective(L[g]) /\ IsInjective(L[h]) /\ Range(L[g]) \cap Range(L[h]) = {}
        /\ Range(L[g]) \cup Range(L[h]) = Range(K[g]) \cup Range(K[h]) \cup {x}
    BY <1>2, <1>3, <1>5
  <2>2. /\ C \in SUBSET H /\ {x} \cap N = {}
        /\ \A f \in H \ C : L[f] = K[f]
        /\ \A e, f \in C : e # f => Range(L[e]) \cap Range(L[f]) = {}
        /\ \A f \in C : IsInjective(L[f])
    BY <1>2, <2>1
  <2>3. (UNION {Range(L[f]) : f \in C}) = (UNION {Range(K[f]) : f \in C}) \cup {x}
    <3>1. /\ UNION {Range(L[f]) : f \in C} = Range(L[g]) \cup Range(L[h])
          /\ UNION {Range(K[f]) : f \in C} = Range(K[g]) \cup Range(K[h])
      OBVIOUS
    <3> QED
      BY <2>1, <3>1
  <2> HIDE DEF C
  <2> QED
    BY <1>2, <2>2, <2>3, Rearrange
<1> QED
  BY <1>6 DEF L

\* The last nodes of g go to h, which was empty; a new node stands for them.
LEMMA Fold ==
  ASSUME NEW H, NEW N, NEW K, Owned(H, K, N), NEW g \in H, NEW h \in H, g # h,
         K[h] = <<>>, NEW s \in Seq(N), NEW t \in Seq(N), K[g] = s \o t,
         NEW x, x \notin N
  PROVE  Owned(H, [K EXCEPT ![h] = t, ![g] = Append(s, x)], N \cup {x})
<1> DEFINE M == N \cup {x}
           L == [K EXCEPT ![h] = t, ![g] = Append(s, x)]
<1>1. /\ K \in [H -> Seq(N)] /\ IsInjective(K[g]) /\ Seq(N) \subseteq Seq(M)
      /\ Append(s, x) \in Seq(M)
  <2>1. K \in [H -> Seq(N)] /\ IsInjective(K[g])
    BY DEF Owned
  <2>2. Seq(N) \subseteq Seq(M)
    BY SeqMonotonic
  <2>3. s \in Seq(M) /\ x \in M
    BY <2>2
  <2> HIDE DEF M
  <2> QED
    BY <2>1, <2>2, <2>3
<1>2. /\ L[g] = Append(s, x) /\ L[h] = t /\ L \in [H -> Seq(M)]
      /\ \A f \in H \ {g, h} : L[f] = K[f]
  BY <1>1
<1>3. /\ Range(K[g]) = Range(s) \cup Range(t) /\ Range(K[h]) = {}
      /\ IsInjective(s) /\ IsInjective(t) /\ Range(s) \cap Range(t) = {}
      /\ Range(s) \subseteq N /\ Range(t) \subseteq N
  BY <1>1, RangeConcat, RangeEmpty, RangeOf
<1>4. Range(Append(s, x)) = {x} \cup Range(s) /\ IsInjective(Append(s, x))
  BY <1>3, RangeAppend
<1> HIDE DEF L
<1>5. Owned(H, L, N \cup {x})
  <2> DEFINE C == {g, h}
  <2>1. /\ Range(L[g]) = {x} \cup Range(s) /\ Range(L[h]) = Range(t)
        /\ IsInjective(L[g]) /\ IsInjective(L[h]) /\ Range(L[g]) \cap Range(L[h]) = {}
        /\ Range(L[g]) \cup Range(L[h]) = Range(K[g]) \cup Range(K[h]) \cup {x}
    BY <1>2, <1>3, <1>4
  <2>2. /\ C \in SUBSET H /\ {x} \cap N = {}
        /\ \A f \in H \ C : L[f] = K[f]
        /\ \A e, f \in C : e # f => Range(L[e]) \cap Range(L[f]) = {}
        /\ \A f \in C : IsInjective(L[f])
    BY <1>2, <2>1
  <2>3. (UNION {Range(L[f]) : f \in C}) = (UNION {Range(K[f]) : f \in C}) \cup {x}
    <3>1. /\ UNION {Range(L[f]) : f \in C} = Range(L[g]) \cup Range(L[h])
          /\ UNION {Range(K[f]) : f \in C} = Range(K[g]) \cup Range(K[h])
      OBVIOUS
    <3> QED
      BY <2>1, <3>1
  <2> HIDE DEF C
  <2> QED
    BY <1>2, <2>2, <2>3, Rearrange
<1> QED
  BY <1>5 DEF L

\* Nothing is held where nothing is.
LEMMA NothingOwned ==
  ASSUME NEW H, NEW K, K \in [H -> {<<>>}]
  PROVE  Owned(H, K, {})
<1>1. <<>> \in Seq({}) /\ \A h \in H : K[h] = <<>>
  OBVIOUS
<1>2. \A h \in H : Range(K[h]) = {} /\ IsInjective(K[h])
  BY <1>1, RangeEmpty
<1>3. K \in [H -> Seq({})]
  BY <1>1
<1> QED
  BY <1>2, <1>3 DEF Owned

\* Of the holders H only the owners of F are there, and F is what they hold.
LEMMA OwnedByOwners ==
  ASSUME NEW H, NEW N, NEW K, Owned(H, K, N), NEW F, DOMAIN F \subseteq H,
         \A h \in DOMAIN F : F[h] = K[h],
         \A h \in H \ DOMAIN F : K[h] = <<>>
  PROVE  OwnedOnce(F, N)
<1> DEFINE places == UNION {{h} \X DOMAIN F[h] : h \in DOMAIN F}
           node == [p \in places |-> F[p[1]][p[2]]]
<1>1. /\ UNION {Range(K[h]) : h \in H} = N
      /\ \A g, h \in H : g # h => Range(K[g]) \cap Range(K[h]) = {}
      /\ \A h \in H : IsInjective(K[h])
  BY DEF Owned
<1>2. \A p : p \in places <=> /\ p = <<p[1], p[2]>> /\ p[1] \in DOMAIN F /\ p[2] \in DOMAIN F[p[1]]
  OBVIOUS
<1>3. DOMAIN node = places /\ \A p \in places : node[p] = F[p[1]][p[2]]
  OBVIOUS
<1> HIDE DEF node, places
<1>4. ASSUME NEW p \in places PROVE node[p] \in Range(K[p[1]]) /\ p[1] \in H
  BY <1>2, <1>3 DEF Range
<1>5. Range(node) \subseteq N
  <2>1. ASSUME NEW p \in places PROVE node[p] \in N
    BY <1>1, <1>4
  <2> QED
    BY <1>3, <2>1 DEF Range
<1>6. N \subseteq Range(node)
  <2> SUFFICES ASSUME NEW n \in N PROVE n \in Range(node)
    OBVIOUS
  <2>1. PICK h \in H : n \in Range(K[h])
    BY <1>1
  <2>2. h \in DOMAIN F
    BY <2>1, RangeEmpty
  <2>3. PICK i \in DOMAIN F[h] : F[h][i] = n
    BY <2>1, <2>2 DEF Range
  <2>4. <<h, i>> \in places /\ node[<<h, i>>] = n
    BY <1>2, <1>3, <2>2, <2>3
  <2> QED
    BY <1>3, <2>4 DEF Range
<1>7. ASSUME NEW p \in places, NEW q \in places, node[p] = node[q] PROVE p = q
  <2>1. p[1] = q[1]
    BY <1>1, <1>4, <1>7
  <2>2. IsInjective(F[p[1]]) /\ F[p[1]][p[2]] = F[p[1]][q[2]]
    BY <1>1, <1>2, <1>3, <1>4, <1>7, <2>1
  <2>3. p[2] = q[2]
    BY <1>2, <2>1, <2>2 DEF IsInjective
  <2> QED
    BY <1>2, <2>1, <2>3
<1>8. Range(node) = N /\ IsInjective(node)
  BY <1>3, <1>5, <1>6, <1>7 DEF IsInjective
<1> QED
  BY <1>8 DEF OwnedOnce, node, places
---------------------------------------------------------------------------
(* Trees of nodes.                                                         *)

\* A set of numbers has a smallest one,
LEMMA Smallest ==
  ASSUME NEW T, T \subseteq Nat, T # {}
  PROVE  \E m \in T : \A n \in T : m <= n
<1> DEFINE R == OpToRel(<, Nat)
<1>1. IsWellFoundedOn(R, Nat)
  BY NatLessThanWellFounded, Zenon
<1>2. \A m, n \in Nat : m < n => <<m, n>> \in R
  BY DEF OpToRel
<1> HIDE DEF R
<1>3. PICK m \in T : \A n \in T : ~ (<<n, m>> \in R)
  BY <1>1, WFMin
<1>4. ASSUME NEW n \in T PROVE m <= n
  <2>1. m \in Nat /\ n \in Nat /\ <<n, m>> \notin R
    BY <1>3
  <2>2. ~ (n < m)
    BY <1>2, <2>1
  <2> QED
    BY <2>1, <2>2
<1> QED
  BY <1>4

\* and a finite range of them has a largest one.
LEMMA Largest ==
  ASSUME NEW k \in Nat, NEW T, T \subseteq 1..k, T # {}
  PROVE  \E m \in T : \A n \in T : n <= m
<1> DEFINE U == {k - n : n \in T}
<1>1. PICK u \in U : \A v \in U : u <= v
  <2>1. \A n \in T : k - n \in Nat
    OBVIOUS
  <2>2. U \subseteq Nat /\ U # {}
    BY <2>1
  <2> HIDE DEF U
  <2> QED
    BY <2>2, Smallest
<1> QED
  BY <1>1

\* The tree B[n] below a node n is n with the trees below its children C[n].
TreesOf(N, C, B) == B = [n \in N |-> {n} \cup UNION {B[j] : j \in C[n]}]

\* R are the roots: every node is a root or the child of one node.
RootsOf(N, C, R) ==
  /\ R \subseteq N
  /\ \A n \in N : n \in R \/ \E p \in N : n \in C[p]
  /\ \A n \in R : \A p \in N : n \notin C[p]
  /\ \A p, q \in N : p # q => C[p] \cap C[q] = {}

LEMMA UnionLemma ==
  ASSUME NEW n, NEW D, NEW B
  PROVE  \A x : x \in {n} \cup UNION {B[j] : j \in D} <=> x = n \/ \E j \in D : x \in B[j]
OBVIOUS

\* These trees are well defined,
LEMMA TreesExist ==
  ASSUME NEW N, NEW C, \A n \in N : C[n] \subseteq N
  PROVE  \E B : TreesOf(N, C, B)
<1> DEFINE Closed(S) == \A x \in S : C[x] \subseteq S
           B == [n \in N |-> {m \in N : \A S \in SUBSET N : Closed(S) /\ n \in S => m \in S}]
           Step(n) == {n} \cup UNION {B[j] : j \in C[n]}
<1>1. ASSUME NEW n \in N PROVE B[n] = Step(n)
  <2>1. Step(n) \subseteq B[n]
    <3>1. n \in B[n]
      OBVIOUS
    <3>2. ASSUME NEW j \in C[n], NEW m \in B[j] PROVE m \in B[n]
      <4>1. j \in N /\ m \in N
        OBVIOUS
      <4>2. ASSUME NEW S \in SUBSET N, Closed(S), n \in S PROVE m \in S
        <5>1. j \in S
          BY <4>2
        <5> QED
          BY <4>1, <4>2, <5>1
      <4> QED
        BY <4>1, <4>2
    <3> HIDE DEF B
    <3> QED
      BY <3>1, <3>2
  <2>2. B[n] \subseteq Step(n)
    <3>1. Step(n) \subseteq N /\ n \in Step(n)
      OBVIOUS
    <3>2. ASSUME NEW x \in Step(n), NEW j \in C[x] PROVE j \in Step(n)
      <4>1. x \in N /\ j \in N /\ j \in B[j]
        BY <3>1
      <4>2. CASE x = n
        BY <4>1, <4>2
      <4>3. CASE x # n
        <5>1. PICK i \in C[n] : x \in B[i]
          BY <4>3
        <5>2. j \in B[i]
          BY <4>1, <5>1
        <5> QED
          BY <5>2
      <4> QED
        BY <4>2, <4>3
    <3>3. Closed(Step(n))
      <4> HIDE DEF Step
      <4> QED
        BY <3>2
    <3> HIDE DEF Step, Closed
    <3> QED
      BY <3>1, <3>3
  <2> QED
    BY <2>1, <2>2
<1>2. B = [n \in N |-> Step(n)]
  <2>1. B = [n \in N |-> B[n]]
    OBVIOUS
  <2> HIDE DEF B, Step
  <2> QED
    BY <1>1, <2>1
<1>3. TreesOf(N, C, B)
  <2> HIDE DEF B
  <2> QED
    BY <1>2 DEF TreesOf
<1> HIDE DEF B
<1> QED
  BY <1>3

\* contain with a node its children, and all but the root with their parents.
LEMMA Trees ==
  ASSUME NEW k \in Nat, NEW C, \A n \in 1..k : C[n] \subseteq 1..(n - 1),
         NEW B, TreesOf(1..k, C, B)
  PROVE  \A n \in 1..k : /\ n \in B[n] /\ B[n] \subseteq 1..k
                         /\ \A x \in B[n] : C[x] \subseteq B[n]
                         /\ \A x \in B[n] : x # n => \E p \in B[n] : x \in C[p]
<1> DEFINE N == 1..k
           Good(n) == /\ n \in B[n] /\ B[n] \subseteq N
                      /\ \A x \in B[n] : C[x] \subseteq B[n]
                      /\ \A x \in B[n] : x # n => \E p \in B[n] : x \in C[p]
           T == {n \in N : ~Good(n)}
<1>1. \A n \in N : B[n] = {n} \cup UNION {B[j] : j \in C[n]}
  <2>1. B = [n \in N |-> {n} \cup UNION {B[j] : j \in C[n]}]
    BY DEF TreesOf
  <2> QED
    BY <2>1
<1>2. SUFFICES ASSUME T # {} PROVE FALSE
  OBVIOUS
<1>3. PICK n \in T : \A m \in T : n <= m
  <2>1. T \subseteq Nat
    OBVIOUS
  <2> HIDE DEF T
  <2> QED
    BY <1>2, <2>1, Smallest
<1>4. n \in N /\ ~Good(n)
  OBVIOUS
<1>5. ASSUME NEW j \in C[n] PROVE j \in N /\ Good(j)
  <2>1. j \in N /\ ~(n <= j)
    BY <1>4
  <2> HIDE DEF Good
  <2> QED
    BY <1>3, <2>1
<1>6. /\ n \in B[n] /\ \A j \in C[n] : B[j] \subseteq B[n]
      /\ \A x \in B[n] : x = n \/ \E j \in C[n] : x \in B[j]
  <2>1. B[n] = {n} \cup UNION {B[j] : j \in C[n]}
    BY <1>1, <1>4
  <2> HIDE DEF T
  <2>2. \A x : x \in {n} \cup UNION {B[j] : j \in C[n]} <=> x = n \/ \E j \in C[n] : x \in B[j]
    BY UnionLemma
  <2>3. \A x : x \in B[n] <=> x = n \/ \E j \in C[n] : x \in B[j]
    BY <2>1, <2>2
  <2> QED
    BY <2>3, Zenon
<1>7. B[n] \subseteq N
  BY <1>4, <1>5, <1>6
<1>8. \A x \in B[n] : C[x] \subseteq B[n]
  BY <1>5, <1>6
<1>9. ASSUME NEW x \in B[n], x # n PROVE \E p \in B[n] : x \in C[p]
  <2>1. PICK j \in C[n] : x \in B[j]
    BY <1>6, <1>9
  <2>2. CASE x = j
    BY <1>6, <2>1, <2>2
  <2>3. CASE x # j
    <3>1. PICK p \in B[j] : x \in C[p]
      BY <1>5, <2>1, <2>3
    <3> QED
      BY <1>6, <3>1
  <2> QED
    BY <2>2, <2>3
<1> QED
  BY <1>4, <1>6, <1>7, <1>8, <1>9

\* The trees below the roots have each node once.
LEMMA Forest ==
  ASSUME NEW k \in Nat, NEW C, \A n \in 1..k : C[n] \subseteq 1..(n - 1),
         NEW B, TreesOf(1..k, C, B), NEW R, RootsOf(1..k, C, R)
  PROVE  /\ \A n \in 1..k : \E r \in R : n \in B[r]
         /\ \A r, s \in R : r # s => B[r] \cap B[s] = {}
<1> DEFINE N == 1..k
<1>0. \A n \in N : /\ n \in B[n] /\ B[n] \subseteq N
                   /\ \A x \in B[n] : C[x] \subseteq B[n]
                   /\ \A x \in B[n] : x # n => \E p \in B[n] : x \in C[p]
  BY Trees
<1>r. /\ R \subseteq 1..k
      /\ \A n \in 1..k : n \in R \/ \E p \in 1..k : n \in C[p]
      /\ \A n \in R : \A p \in 1..k : n \notin C[p]
      /\ \A p, q \in 1..k : p # q => C[p] \cap C[q] = {}
  BY DEF RootsOf
<1>1. ASSUME NEW x \in N, \A r \in R : x \notin B[r] PROVE FALSE
  <2> DEFINE T == {n \in N : \A r \in R : n \notin B[r]}
  <2>1. PICK m \in T : \A n \in T : n <= m
    <3>1. T \subseteq 1..k /\ T # {}
      BY <1>1
    <3> HIDE DEF T
    <3> QED
      BY <3>1, Largest
  <2>2. m \in N /\ m \notin R
    BY <1>0, <1>r
  <2>3. PICK p \in N : m \in C[p]
    BY <1>r, <2>2
  <2>4. p > m /\ p \in Int
    BY <1>r, <2>2, <2>3
  <2>5. p \notin T
    <3> HIDE DEF T
    <3> QED
      BY <2>1, <2>2, <2>4
  <2>6. PICK r \in R : p \in B[r]
    BY <2>5
  <2>7. m \in B[r]
    BY <1>0, <1>r, <2>3, <2>6
  <2> QED
    BY <2>1, <2>7
<1>2. ASSUME NEW r \in R, NEW s \in R, r # s, B[r] \cap B[s] # {} PROVE FALSE
  <2> DEFINE T == B[r] \cap B[s]
  <2>1. PICK m \in T : \A n \in T : n <= m
    <3>1. T \subseteq 1..k /\ T # {}
      BY <1>0, <1>r, <1>2
    <3> HIDE DEF T
    <3> QED
      BY <3>1, Largest
  <2>2. m \in N /\ m \in B[r] /\ m \in B[s] /\ r \in N /\ s \in N
    BY <1>0, <1>r, <2>1
  <2>3. \A p \in N : m \in C[p] => p > m
    BY <1>r, <2>2
  <2>4. CASE m = r
    BY <1>0, <1>r, <1>2, <2>2, <2>4
  <2>5. CASE m = s
    BY <1>0, <1>r, <1>2, <2>2, <2>5
  <2>6. CASE m # r /\ m # s
    <3>1. PICK p \in B[r] : m \in C[p]
      BY <1>0, <1>r, <2>2, <2>6
    <3>2. PICK q \in B[s] : m \in C[q]
      BY <1>0, <1>r, <2>2, <2>6
    <3>3. p = q /\ p \in N
      BY <1>0, <1>r, <2>2, <3>1, <3>2
    <3>4. p \in T /\ p > m
      BY <2>3, <3>1, <3>2, <3>3
    <3> HIDE DEF T
    <3> QED
      BY <2>1, <2>2, <3>3, <3>4
  <2> QED
    BY <2>4, <2>5, <2>6
<1> QED
  BY <1>1, <1>2
=============================================================================
