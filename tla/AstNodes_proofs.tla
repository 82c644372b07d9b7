----------------------------- MODULE AstNodes_proofs -----------------------------
(***************************************************************************)
(* For any number of nodes, any classes and vectors of any length, under   *)
(* every sequence of operations: ownership stays a forest, only            *)
(* Assignments share a number, and parent pointers are set to owners.      *)
(*                                                                         *)
(* The operations are put together from two: the slots of one node get     *)
(* other contents, while nodes may go (Replace), and a set of nodes is     *)
(* copied (Duplicate).  Both are stated of a set A of nodes with slots K,  *)
(* so that a move is two replacements, and the copy of an Assignment a     *)
(* duplication, a deletion and a replacement.                              *)
(***************************************************************************)
EXTENDS AstNodes, SequenceTheorems, FiniteSetTheorems, TLAPS

Owned(K, n) == {K[n][i] : i \in 1..Len(K[n])} \ {Null}
IsClosed(K, S) == \A k \in S : Owned(K, k) \subseteq S
Under(A, K, n) == {m \in A : \A S \in SUBSET (A \ {m}) : n \in S => ~IsClosed(K, S)}

Remaining(A, K, S) == A \ UNION {Under(A, K, s) : s \in S}

OneSlot(A, K) ==
  \A n, m \in A : \A i \in 1..Len(K[n]), j \in 1..Len(K[m]) :
    K[n][i] = K[m][j] /\ K[n][i] # Null => n = m /\ i = j
NoCircle(A, K) ==
  \A S \in SUBSET A : S # {} => \E n \in S : \A m \in S : n \notin Owned(K, m)

Forest(A, K) ==
  /\ Null \notin A
  /\ K \in [A -> Seq(A \cup {Null})]
  /\ OneSlot(A, K)
  /\ NoCircle(A, K)

IndInv ==
  /\ made \in Nat /\ alive \subseteq 1..made
  /\ class \in [alive -> ClassNames]
  /\ Forest(alive, kids)
  /\ \A n \in alive : MemberCount(class[n]) <= Len(kids[n])

---------------------------------------------------------------------------
(* What is under a node *)

LEMMA SlotLemma ==
  ASSUME NEW A, NEW K, Forest(A, K), NEW n \in A
  PROVE  /\ K[n] \in Seq(A \cup {Null}) /\ Len(K[n]) \in Nat
         /\ \A i \in 1..Len(K[n]) : K[n][i] \in A \cup {Null}
         /\ Owned(K, n) \subseteq A
<1>1. K[n] \in Seq(A \cup {Null})
  BY DEF Forest
<1>2. Len(K[n]) \in Nat /\ \A i \in 1..Len(K[n]) : K[n][i] \in A \cup {Null}
  BY <1>1, ElementOfSeq, LenProperties
<1> QED
  BY <1>1, <1>2 DEF Owned

\* No node has two owners.
LEMMA OwnerLemma ==
  ASSUME NEW A, NEW K, Forest(A, K), NEW n \in A, NEW m \in A, NEW c,
         c \in Owned(K, n), c \in Owned(K, m)
  PROVE  n = m
BY DEF Forest, OneSlot, Owned

\* n is under itself, with a node its children, and what is under those.
LEMMA UnderLemma ==
  ASSUME NEW A, NEW K, Forest(A, K), NEW n \in A
  PROVE  /\ n \in Under(A, K, n) /\ Under(A, K, n) \subseteq A
         /\ IsClosed(K, Under(A, K, n))
         /\ \A S \in SUBSET A : n \in S /\ IsClosed(K, S) => Under(A, K, n) \subseteq S
         /\ \A m \in Under(A, K, n) : Under(A, K, m) \subseteq Under(A, K, n)
<1> DEFINE U == Under(A, K, n)
<1>1. n \in U /\ U \subseteq A
  BY DEF Under
<1>2. \A S \in SUBSET A : n \in S /\ IsClosed(K, S) => U \subseteq S
  BY DEF Under
<1>3. IsClosed(K, U)
  <2> SUFFICES ASSUME NEW k \in U, NEW c \in Owned(K, k), c \notin U
               PROVE  FALSE
    BY DEF IsClosed
  <2>1. c \in A
    BY <1>1, SlotLemma
  <2>2. PICK S \in SUBSET (A \ {c}) : n \in S /\ IsClosed(K, S)
    BY <2>1 DEF Under
  <2>3. k \in S
    BY <1>2, <2>2
  <2> QED
    BY <2>2, <2>3 DEF IsClosed
<1>4. ASSUME NEW m \in U
      PROVE  Under(A, K, m) \subseteq U
  BY <1>1, <1>3 DEF Under
<1> QED
  BY <1>1, <1>2, <1>3, <1>4

\* What is under n, but for n, has its owner there.
LEMMA UnderHasOwner ==
  ASSUME NEW A, NEW K, Forest(A, K), NEW n \in A, NEW c \in Under(A, K, n), c # n
  PROVE  \E m \in Under(A, K, n) : c \in Owned(K, m)
<1> SUFFICES ASSUME \A m \in Under(A, K, n) : c \notin Owned(K, m)
             PROVE  FALSE
  OBVIOUS
<1> DEFINE T == Under(A, K, n) \ {c}
<1>1. n \in T /\ T \in SUBSET (A \ {c})
  BY UnderLemma
<1>2. IsClosed(K, T)
  BY UnderLemma DEF IsClosed
<1> QED
  BY <1>1, <1>2 DEF Under

\* No node is owned from below.
LEMMA NotOwnedBelow ==
  ASSUME NEW A, NEW K, Forest(A, K), NEW n \in A, NEW m \in Under(A, K, n)
  PROVE  n \notin Owned(K, m)
<1> SUFFICES ASSUME n \in Owned(K, m)
             PROVE  FALSE
  OBVIOUS
<1> DEFINE U == Under(A, K, n)
<1>1. U \in SUBSET A /\ U # {} /\ m \in U
  BY UnderLemma
<1>2. \A c \in U : \E k \in U : c \in Owned(K, k)
  BY <1>1, UnderHasOwner
<1> HIDE DEF U
<1> QED
  BY <1>1, <1>2 DEF Forest, NoCircle

\* When the nodes of S go with all that is under them, the others lose no child but
\* those in S.
LEMMA SurvivorLemma ==
  ASSUME NEW A, NEW K, Forest(A, K), NEW S \in SUBSET A
  PROVE  LET R == Remaining(A, K, S) IN
         /\ R \subseteq A
         /\ \A n \in R : Owned(K, n) \subseteq R \cup S
         /\ \A k \in A : (\A m \in A : k \notin Owned(K, m)) => k \in R \cup S
<1> DEFINE R == Remaining(A, K, S)
<1>0. R = A \ UNION {Under(A, K, s) : s \in S}
  BY DEF Remaining
<1> HIDE DEF R
<1>1. ASSUME NEW s \in S, NEW c \in Under(A, K, s), c # s, NEW n \in A, c \in Owned(K, n)
      PROVE  n \in Under(A, K, s)
  <2>1. PICK m \in Under(A, K, s) : c \in Owned(K, m)
    BY <1>1, UnderHasOwner
  <2>2. m \in A
    BY UnderLemma
  <2>3. n = m
    BY <2>1, <2>2, <1>1, OwnerLemma
  <2> QED
    BY <2>1, <2>3
<1>2. ASSUME NEW n \in R, NEW c \in Owned(K, n), c \notin R, c \notin S
      PROVE  FALSE
  <2>1. n \in A /\ c \in A
    BY <1>0, SlotLemma
  <2>2. PICK s \in S : c \in Under(A, K, s)
    BY <1>0, <1>2, <2>1
  <2>3. n \in Under(A, K, s)
    BY <1>1, <1>2, <2>1, <2>2
  <2> QED
    BY <1>0, <2>3
<1>3. ASSUME NEW k \in A, \A m \in A : k \notin Owned(K, m), k \notin R, k \notin S
      PROVE  FALSE
  <2>1. PICK s \in S : k \in Under(A, K, s)
    BY <1>0, <1>3
  <2>2. \E m \in Under(A, K, s) : k \in Owned(K, m)
    BY <1>3, <2>1, UnderHasOwner
  <2> QED
    BY <2>2, <1>3, UnderLemma
<1> QED
  BY <1>0, <1>2, <1>3 DEF R

---------------------------------------------------------------------------
(* The slots of n become w, and of the other nodes those of B stay *)

LEMMA Replace ==
  ASSUME NEW A, NEW K, Forest(A, K), NEW n, n # Null,
         NEW B \in SUBSET (A \cup {n}),
         \A y \in B \ {n} : Owned(K, y) \subseteq B,
         NEW w \in Seq(B \cup {Null}),
         \A i, j \in 1..Len(w) : w[i] = w[j] /\ w[i] # Null => i = j,
         \A i \in 1..Len(w) : w[i] # Null =>
           /\ w[i] \in A
           /\ \A y \in B \ {n} : w[i] \notin Owned(K, y)
           /\ (n \in A /\ w[i] \in Owned(K, n)) \/ n \notin Under(A, K, w[i]),
         NEW L, L = [y \in B |-> IF y = n THEN w ELSE K[y]]
  PROVE  Forest(B, L)
<1> DEFINE W == {w[i] : i \in 1..Len(w)} \ {Null}
<1>1. \A y \in B \ {n} : y \in A /\ L[y] = K[y] /\ Owned(L, y) = Owned(K, y)
  BY DEF Owned
<1>2. n \in B => L[n] = w /\ Owned(L, n) = W
  BY DEF Owned
<1>3. Null \notin B
  BY DEF Forest
<1>4. L \in [B -> Seq(B \cup {Null})]
  <2> SUFFICES ASSUME NEW y \in B
               PROVE  L[y] \in Seq(B \cup {Null})
    OBVIOUS
  <2>1. CASE y = n
    BY <2>1, <1>2
  <2>2. CASE y # n
    <3>1. y \in B \ {n} /\ y \in A /\ L[y] = K[y]
      BY <2>2, <1>1
    <3>2. /\ K[y] \in Seq(A \cup {Null}) /\ Owned(K, y) \subseteq B
          /\ \A i \in 1..Len(K[y]) : K[y][i] \in A \cup {Null}
      BY <3>1, SlotLemma
    <3>3. \A i \in 1..Len(K[y]) : K[y][i] \in B \cup {Null}
      BY <3>2 DEF Owned
    <3>4. K[y] \in Seq(B \cup {Null})
      BY <3>2, <3>3, SeqDef, LenProperties
    <3> QED
      BY <3>1, <3>4
  <2> QED
    BY <2>1, <2>2
<1>5. OneSlot(B, L)
  <2> SUFFICES ASSUME NEW y \in B, NEW z \in B, NEW i \in 1..Len(L[y]), NEW j \in 1..Len(L[z]),
                      L[y][i] = L[z][j], L[y][i] # Null
               PROVE  y = z /\ i = j
    BY DEF OneSlot
  <2>1. CASE y = n /\ z = n
    BY <2>1, <1>2
  <2>2. CASE y # n /\ z # n
    BY <2>2, <1>1 DEF Forest, OneSlot
  <2>3. CASE y = n /\ z # n
    <3>1. L[z][j] \in Owned(K, z)
      BY <2>3, <1>1 DEF Owned
    <3> QED
      BY <3>1, <2>3, <1>2
  <2>4. CASE y # n /\ z = n
    <3>1. L[y][i] \in Owned(K, y)
      BY <2>4, <1>1 DEF Owned
    <3> QED
      BY <3>1, <2>4, <1>2
  <2> QED
    BY <2>1, <2>2, <2>3, <2>4
<1>6. NoCircle(B, L)
  <2> SUFFICES ASSUME NEW S \in SUBSET B, S # {},
                      \A c \in S : \E m \in S : c \in Owned(L, m)
               PROVE  FALSE
    BY DEF NoCircle
  <2>1. ASSUME NEW T \in SUBSET A, T # {}, \A c \in T : \E m \in T : c \in Owned(K, m)
        PROVE  FALSE
    BY <2>1 DEF Forest, NoCircle
  <2>2. CASE n \notin S
    <3>1. S \in SUBSET A /\ \A c \in S : \E m \in S : c \in Owned(K, m)
      BY <2>2, <1>1
    <3> QED
      BY <3>1, <2>1
  <2>3. CASE n \in S
    <3> DEFINE Fresh == {k \in W : n \notin Under(A, K, k)}
               T == S \ UNION {Under(A, K, k) : k \in Fresh}
    <3>1. \A k \in W : k \in A /\ (k \notin Fresh => n \in A /\ k \in Owned(K, n))
      OBVIOUS
    <3>2. n \in T
      BY <2>3
    <3>3. ASSUME NEW c \in T
          PROVE  c \in A /\ \E m \in T : c \in Owned(K, m)
      <4>1. PICK m \in S : c \in Owned(L, m)
        OBVIOUS
      <4>2. CASE m = n
        <5>1. c \in W
          BY <4>1, <4>2, <1>2
        <5>2. c \notin Fresh
          BY <3>1, <5>1, UnderLemma
        <5> QED
          BY <3>1, <3>2, <5>1, <5>2
      <4>3. CASE m # n
        <5>1. m \in A /\ c \in Owned(K, m)
          BY <4>1, <4>3, <1>1
        <5>2. c \in A
          BY <5>1, SlotLemma
        <5>3. ASSUME NEW k \in Fresh, m \in Under(A, K, k)
              PROVE  FALSE
          <6>1. c \in Under(A, K, k)
            BY <5>1, <5>3, <3>1, UnderLemma DEF IsClosed
          <6> QED
            BY <6>1
        <5>4. m \in T
          BY <5>3
        <5> QED
          BY <5>1, <5>2, <5>4
      <4> QED
        BY <4>2, <4>3
    <3> HIDE DEF T
    <3> QED
      BY <2>1, <3>2, <3>3
  <2> QED
    BY <2>2, <2>3
<1> QED
  BY <1>3, <1>4, <1>5, <1>6 DEF Forest

---------------------------------------------------------------------------
(* The nodes of the closed set S are copied by f *)

Copied(f, S) == {f[k] : k \in S}

\* L is K with the slots of the copies f makes of S.
Doubles(A, K, S, f, L) ==
  /\ Forest(A, K) /\ S \subseteq A /\ IsClosed(K, S)
  /\ DOMAIN f = S
  /\ \A k \in S : f[k] \notin A /\ f[k] # Null
  /\ \A k, l \in S : f[k] = f[l] => k = l
  /\ L = [y \in A \cup Copied(f, S) |-> L[y]]
  /\ \A y \in A : L[y] = K[y]
  /\ \A k \in S : L[f[k]] = Image(f, K[k])

Doubled(A, K, S, f, L) ==
  /\ Forest(A \cup Copied(f, S), L)
  /\ \A y \in A : Owned(L, y) = Owned(K, y)
  /\ \A k \in S : /\ Owned(L, f[k]) = Copied(f, Owned(K, k))
                 /\ Len(L[f[k]]) = Len(K[k])

LEMMA Duplicate ==
  ASSUME NEW A, NEW K, NEW S, NEW f, NEW L, Doubles(A, K, S, f, L)
  PROVE  Doubled(A, K, S, f, L)
<1> DEFINE F == Copied(f, S)
<1>0. /\ Forest(A, K) /\ S \in SUBSET A /\ IsClosed(K, S) /\ DOMAIN f = S
      /\ \A k \in S : f[k] \notin A /\ f[k] # Null
      /\ \A k, l \in S : f[k] = f[l] => k = l
      /\ \A y \in A : L[y] = K[y]
      /\ \A k \in S : L[f[k]] = Image(f, K[k])
  BY DEF Doubles
<1> USE <1>0 DEF Copied
<1>1. \A y \in A : L[y] = K[y] /\ Owned(L, y) = Owned(K, y) /\ Owned(L, y) \subseteq A
  <2>1. \A y \in A : Owned(K, y) \subseteq A
    BY SlotLemma
  <2> QED
    BY <2>1 DEF Owned
<1>2. ASSUME NEW k \in S
      PROVE  /\ Len(L[f[k]]) = Len(K[k])
             /\ \A i \in 1..Len(K[k]) :
                  /\ L[f[k]][i] = IF K[k][i] = Null THEN Null ELSE f[K[k][i]]
                  /\ K[k][i] # Null => K[k][i] \in S /\ K[k][i] \in Owned(K, k)
             /\ L[f[k]] \in Seq(F \cup {Null})
  <2>1. L[f[k]] = Image(f, K[k])
    OBVIOUS
  <2>2. \A i \in 1..Len(K[k]) : K[k][i] # Null => K[k][i] \in S /\ K[k][i] \in Owned(K, k)
    BY DEF IsClosed, Owned
  <2>3. Len(K[k]) \in Nat /\ DOMAIN K[k] = 1..Len(K[k])
    BY SlotLemma, LenProperties
  <2>4. L[f[k]] = [i \in 1..Len(K[k]) |-> IF K[k][i] = Null THEN Null ELSE f[K[k][i]]]
    BY <2>1, <2>3 DEF Image
  <2>5. L[f[k]] \in [1..Len(K[k]) -> F \cup {Null}]
    BY <2>2, <2>4
  <2>6. L[f[k]] \in Seq(F \cup {Null}) /\ Len(L[f[k]]) = Len(K[k])
    BY <2>3, <2>5, SeqDef, LenProperties
  <2> QED
    BY <2>2, <2>4, <2>6
<1>3. ASSUME NEW k \in S
      PROVE  Owned(L, f[k]) = {f[c] : c \in Owned(K, k)}
  <2> DEFINE N == Len(K[k])
             copy == L[f[k]]
  <2>1. /\ Len(copy) = N
        /\ \A i \in 1..N : copy[i] = IF K[k][i] = Null THEN Null ELSE f[K[k][i]]
        /\ \A i \in 1..N : K[k][i] # Null => K[k][i] \in S
    BY ONLY <1>2, k \in S
  <2>2. Owned(L, f[k]) = {copy[i] : i \in 1..N} \ {Null}
    BY <2>1 DEF Owned
  <2>3. Owned(K, k) = {K[k][i] : i \in 1..N} \ {Null}
    BY DEF Owned
  <2>4. \A i \in 1..N : K[k][i] # Null => f[K[k][i]] # Null
    BY <2>1
  <2> HIDE DEF N, copy
  <2> QED
    BY <2>1, <2>2, <2>3, <2>4
<1>4. ASSUME NEW k \in S, NEW c \in Owned(L, f[k])
      PROVE  \E e \in Owned(K, k) : e \in S /\ c = f[e]
  BY <1>3 DEF IsClosed
<1>5. Null \notin A \cup F
  BY DEF Forest
<1>6. L \in [A \cup F -> Seq(A \cup F \cup {Null})]
  <2>1. ASSUME NEW y \in A
        PROVE  L[y] \in Seq(A \cup F \cup {Null})
    <3>1. L[y] \in Seq(A \cup {Null})
      BY <1>1, SlotLemma
    <3> QED
      BY <3>1, SeqDef
  <2>2. ASSUME NEW k \in S
        PROVE  L[f[k]] \in Seq(A \cup F \cup {Null})
    <3>1. L[f[k]] \in Seq(F \cup {Null})
      BY <1>2
    <3> QED
      BY <3>1, SeqDef
  <2>3. \A y \in A \cup F : L[y] \in Seq(A \cup F \cup {Null})
    BY <2>1, <2>2
  <2>4. L = [y \in A \cup F |-> L[y]]
    BY DEF Doubles
  <2> QED
    BY <2>3, <2>4
<1>7. OneSlot(A \cup F, L)
  <2>1. ASSUME NEW y \in A, NEW z \in A, NEW i \in 1..Len(L[y]), NEW j \in 1..Len(L[z]),
               L[y][i] = L[z][j], L[y][i] # Null
        PROVE  y = z /\ i = j
    BY <2>1, <1>1 DEF Forest, OneSlot
  <2>2. ASSUME NEW k \in S, NEW l \in S, NEW i \in 1..Len(L[f[k]]), NEW j \in 1..Len(L[f[l]]),
               L[f[k]][i] = L[f[l]][j], L[f[k]][i] # Null
        PROVE  f[k] = f[l] /\ i = j
    <3>1. /\ i \in 1..Len(K[k]) /\ K[k][i] # Null /\ K[k][i] \in S
          /\ L[f[k]][i] = f[K[k][i]]
      BY <1>2, <2>2
    <3>2. /\ j \in 1..Len(K[l]) /\ K[l][j] # Null /\ K[l][j] \in S
          /\ L[f[l]][j] = f[K[l][j]]
      BY <1>2, <2>2
    <3>3. K[k][i] = K[l][j]
      BY <3>1, <3>2, <2>2
    <3> QED
      BY <3>1, <3>2, <3>3 DEF Forest, OneSlot
  <2>3. ASSUME NEW y \in A, NEW k \in S, NEW i \in 1..Len(L[y]), NEW j \in 1..Len(L[f[k]]),
               L[y][i] = L[f[k]][j], L[y][i] # Null
        PROVE  FALSE
    <3>1. L[y][i] \in A
      BY <2>3, <1>1 DEF Owned
    <3>2. L[f[k]][j] \in Owned(L, f[k])
      BY <2>3 DEF Owned
    <3>3. L[f[k]][j] \notin A
      BY <3>2, <1>4
    <3> QED
      BY <3>1, <3>3, <2>3
  <2> SUFFICES ASSUME NEW y \in A \cup F, NEW z \in A \cup F,
                      NEW i \in 1..Len(L[y]), NEW j \in 1..Len(L[z]),
                      L[y][i] = L[z][j], L[y][i] # Null
               PROVE  y = z /\ i = j
    BY DEF OneSlot
  <2>4. CASE y \in A /\ z \in A
    BY <2>1, <2>4
  <2>5. CASE y \in F /\ z \in F
    <3>1. PICK k \in S, l \in S : y = f[k] /\ z = f[l]
      BY <2>5
    <3> QED
      BY <3>1, <2>2
  <2>6. CASE y \in A /\ z \in F
    <3>1. PICK k \in S : z = f[k]
      BY <2>6
    <3> QED
      BY <3>1, <2>3, <2>6
  <2>7. CASE y \in F /\ z \in A
    <3>1. PICK k \in S : y = f[k]
      BY <2>7
    <3> QED
      BY <3>1, <2>3, <2>7
  <2> QED
    BY <2>4, <2>5, <2>6, <2>7
<1>8. NoCircle(A \cup F, L)
  <2>1. ASSUME NEW U \in SUBSET A, U # {}, \A c \in U : \E m \in U : c \in Owned(K, m)
        PROVE  FALSE
    BY <2>1 DEF Forest, NoCircle
  <2> SUFFICES ASSUME NEW T \in SUBSET (A \cup F), T # {},
                      \A c \in T : \E m \in T : c \in Owned(L, m)
               PROVE  FALSE
    BY DEF NoCircle
  <2>2. CASE T \cap A # {}
    <3>1. ASSUME NEW c \in T \cap A
          PROVE  \E m \in T \cap A : c \in Owned(K, m)
      <4>1. PICK m \in T : c \in Owned(L, m)
        OBVIOUS
      <4>2. \A k \in S : m # f[k]
        BY <4>1, <1>4
      <4>3. m \in A
        BY <4>2
      <4> QED
        BY <4>1, <4>3, <1>1
    <3> QED
      BY <3>1, <2>1, <2>2
  <2>3. CASE T \cap A = {}
    <3> DEFINE U == {k \in S : f[k] \in T}
    <3>1. U # {} /\ U \in SUBSET A
      BY <2>3
    <3>2. ASSUME NEW c \in U
          PROVE  \E m \in U : c \in Owned(K, m)
      <4>1. PICK m \in T : f[c] \in Owned(L, m)
        OBVIOUS
      <4>2. PICK k \in S : m = f[k]
        BY <4>1, <2>3
      <4>3. PICK e \in Owned(K, k) : e \in S /\ f[c] = f[e]
        BY <4>1, <4>2, <1>4
      <4>4. c = e
        BY <4>3
      <4> QED
        BY <4>1, <4>2, <4>3, <4>4
    <3> HIDE DEF U
    <3> QED
      BY <2>1, <3>1, <3>2
  <2> QED
    BY <2>2, <2>3
<1> QED
  BY <1>1, <1>2, <1>3, <1>5, <1>6, <1>7, <1>8 DEF Forest, Doubled

---------------------------------------------------------------------------
(* The operations *)

LEMMA ClassLemma ==
  ASSUME NEW c \in ClassNames
  PROVE  MemberCount(c) \in Nat /\ (Class[c].grows => MemberCount(c) = 0)
<1>1. /\ Class["Literal"] = Leaf /\ Class["Variable"] = Leaf
      /\ Class["FunctionParameter"] = Leaf
      /\ Class["UnaryExpression"] = UnaryExpression
      /\ Class["BinaryExpression"] = BinaryExpression
      /\ Class["TernaryOperator"] = TernaryOperator
      /\ Class["IndexAccess"] = IndexAccess
      /\ Class["OperatorExpression"] = OperatorExpression
      /\ Class["ExpressionList"] = ExpressionList
      /\ Class["Call"] = Call /\ Class["Assignment"] = Assignment
      /\ Class["VariableDeclaration"] = VariableDeclaration
      /\ Class["Return"] = Return /\ Class["If"] = If /\ Class["For"] = For
      /\ Class["Block"] = Block /\ Class["Function"] = Function
  BY DEF Class, ClassNames, Expressions, Targets, Statements, Literal, Variable,
         FunctionParameter
<1> DEFINE Sound(r) == Len(r.members) \in Nat /\ (r.grows => Len(r.members) = 0)
<1>2. Sound(Leaf) /\ Sound(UnaryExpression) /\ Sound(BinaryExpression)
  BY DEF Leaf, UnaryExpression, BinaryExpression
<1>3. Sound(TernaryOperator) /\ Sound(IndexAccess) /\ Sound(OperatorExpression)
  BY DEF Leaf, TernaryOperator, IndexAccess, OperatorExpression
<1>4. Sound(ExpressionList) /\ Sound(Call) /\ Sound(Assignment)
  BY DEF Leaf, ExpressionList, Call, Assignment
<1>5. Sound(VariableDeclaration) /\ Sound(Return) /\ Sound(If)
  BY DEF Leaf, VariableDeclaration, Return, If
<1>6. Sound(For) /\ Sound(Block) /\ Sound(Function)
  BY DEF Leaf, For, Block, Function
<1> HIDE DEF Sound
<1>7. Sound(Class[c])
  BY <1>1, <1>2, <1>3, <1>4, <1>5, <1>6 DEF ClassNames, Expressions, Targets, Statements
<1> QED
  BY <1>7 DEF Sound, MemberCount

LEMMA NameLemma ==
  ASSUME IndInv
  PROVE  /\ \A n : Children(n) = Owned(kids, n) /\ Below(n) = Under(alive, kids, n)
         /\ \A S : Survivors(S) = Remaining(alive, kids, S)
         /\ \A k \in Loose : k \in alive /\ k # Null /\ \A m \in alive : k \notin Owned(kids, m)
         /\ NextNode \notin alive /\ NextNode # Null /\ Null \notin alive
<1>1. \A n : Children(n) = Owned(kids, n)
  BY DEF Children, Owned, Slots
<1>2. \A n : Below(n) = Under(alive, kids, n)
  BY <1>1 DEF Below, Under, Closed, IsClosed
<1>3. NextNode \notin alive /\ NextNode # Null /\ Null \notin alive
  BY DEF IndInv, NextNode, Null
<1> QED
  BY <1>1, <1>2, <1>3 DEF Survivors, Remaining, Loose

LEMMA ExceptLemma ==
  ASSUME NEW T, NEW s \in Seq(T), NEW i \in 1..Len(s), NEW e \in T
  PROVE  /\ [s EXCEPT ![i] = e] \in Seq(T)
         /\ Len([s EXCEPT ![i] = e]) = Len(s)
         /\ \A j \in 1..Len(s) : [s EXCEPT ![i] = e][j] = IF j = i THEN e ELSE s[j]
BY ExceptSeq, LenProperties

\* The slots of n become w, the nodes outside of B go.
LEMMA ReplaceStep ==
  ASSUME IndInv, NEW n \in alive,
         NEW B \in SUBSET alive,
         \A y \in B \ {n} : Owned(kids, y) \subseteq B,
         NEW w \in Seq(B \cup {Null}),
         \A i, j \in 1..Len(w) : w[i] = w[j] /\ w[i] # Null => i = j,
         \A i \in 1..Len(w) : w[i] # Null =>
           /\ \A y \in B \ {n} : w[i] \notin Owned(kids, y)
           /\ w[i] \in Owned(kids, n) \/ n \notin Under(alive, kids, w[i]),
         n \in B => MemberCount(class[n]) <= Len(w),
         made' = made, alive' = B, class' = Keep(class, B),
         kids' = [y \in B |-> IF y = n THEN w ELSE kids[y]]
  PROVE  IndInv'
<1>1. Forest(alive, kids) /\ n # Null
  BY NameLemma DEF IndInv
<1>2. \A i \in 1..Len(w) : w[i] # Null => w[i] \in alive
  BY ElementOfSeq
<1>3. Forest(alive', kids')
  BY <1>1, <1>2, Replace
<1>4. class' \in [alive' -> ClassNames] /\ \A y \in B : class'[y] = class[y]
  BY DEF IndInv, Keep
<1>5. \A y \in alive' : MemberCount(class'[y]) <= Len(kids'[y])
  BY <1>4 DEF IndInv
<1> QED
  BY <1>3, <1>4, <1>5 DEF IndInv

\* What stays when the nodes of S go that n owns.
LEMMA StayLemma ==
  ASSUME IndInv, NEW n \in alive, NEW S \in SUBSET Owned(kids, n)
  PROVE  /\ n \in Survivors(S) /\ Survivors(S) \subseteq alive
         /\ \A y \in Survivors(S) \ {n} : Owned(kids, y) \subseteq Survivors(S)
         /\ Owned(kids, n) \subseteq Survivors(S) \cup S
         /\ Loose \subseteq Survivors(S)
         /\ \A k \in Loose : \A y \in alive : k \notin Owned(kids, y)
<1> DEFINE R == Survivors(S)
<1>1. Forest(alive, kids) /\ R = Remaining(alive, kids, S)
  BY NameLemma DEF IndInv
<1>2. S \in SUBSET alive
  BY <1>1, SlotLemma
<1> HIDE DEF R
<1>3. /\ R \subseteq alive
      /\ \A y \in R : Owned(kids, y) \subseteq R \cup S
      /\ \A k \in alive : (\A m \in alive : k \notin Owned(kids, m)) => k \in R \cup S
  BY <1>1, <1>2, SurvivorLemma
<1>4. n \in R
  BY <1>1, <1>2, NotOwnedBelow DEF Remaining
<1>5. ASSUME NEW y \in R \ {n}, NEW c \in Owned(kids, y)
      PROVE  c \in R
  <2>1. c \notin S
    BY <1>1, <1>3, OwnerLemma
  <2> QED
    BY <2>1, <1>3
<1>6. \A k \in Loose : k \in alive /\ \A y \in alive : k \notin Owned(kids, y)
  BY NameLemma
<1>7. Loose \subseteq R
  BY <1>3, <1>6
<1> QED
  BY <1>3, <1>4, <1>5, <1>6, <1>7 DEF R

LEMMA SetChildStep ==
  ASSUME IndInv, NEW n \in alive, NEW j \in 1..MemberCount(class[n]),
         NEW k \in Loose \cup {Null}, SetChild(n, j, k)
  PROVE  IndInv'
<1> DEFINE i == SlotOfMember(n, j)
           S == {kids[n][i]} \ {Null}
           B == Survivors(S)
           w == [kids[n] EXCEPT ![i] = k]
<1>1. /\ k # Null => n \notin Under(alive, kids, k)
      /\ alive' = B /\ class' = Keep(class, B) /\ made' = made
      /\ kids' = Keep([kids EXCEPT ![n][i] = k], alive')
  BY NameLemma DEF SetChild, KeepOnly
<1>2. Forest(alive, kids) /\ class[n] \in ClassNames /\ kids = [y \in alive |-> kids[y]]
  BY DEF IndInv, Forest
<1>3. /\ kids[n] \in Seq(alive \cup {Null}) /\ Len(kids[n]) \in Nat
      /\ \A l \in 1..Len(kids[n]) : kids[n][l] \in alive \cup {Null}
  BY <1>2, SlotLemma
<1>4. i \in 1..Len(kids[n])
  <2> DEFINE a == MemberCount(class[n])
             b == Len(kids[n])
  <2>1. a \in Nat /\ b \in Nat /\ a <= b /\ j \in 1..a /\ i = b - a + j
    BY <1>2, <1>3, ClassLemma DEF IndInv, SlotOfMember
  <2> HIDE DEF a, b, i
  <2>2. i \in 1..b
    BY <2>1
  <2> QED
    BY <2>2 DEF b
<1> HIDE DEF i
<1>5. S \subseteq Owned(kids, n)
  BY <1>4 DEF Owned
<1>6. /\ n \in B /\ B \subseteq alive
      /\ \A y \in B \ {n} : Owned(kids, y) \subseteq B
      /\ Owned(kids, n) \subseteq B \cup S
      /\ Loose \subseteq B
      /\ \A l \in Loose : \A y \in alive : l \notin Owned(kids, y)
  <2> HIDE DEF S
  <2> QED
    BY <1>5, StayLemma
<1>7. k \in alive \cup {Null} /\ k \in B \cup {Null}
  BY <1>6
<1>8. /\ w \in Seq(alive \cup {Null}) /\ Len(w) = Len(kids[n])
      /\ \A l \in 1..Len(w) : w[l] = IF l = i THEN k ELSE kids[n][l]
  BY <1>3, <1>4, <1>7, ExceptLemma
<1>9. \A l \in 1..Len(w) : l # i /\ w[l] # Null =>
        w[l] = kids[n][l] /\ w[l] \in Owned(kids, n) /\ w[l] \notin S
  BY <1>2, <1>4, <1>8 DEF Owned, Forest, OneSlot
<1>10. kids' = [y \in B |-> IF y = n THEN w ELSE kids[y]]
  BY <1>1, <1>2, <1>6 DEF Keep
<1> HIDE DEF w, S, B
<1>11. w \in Seq(B \cup {Null})
  <2>1. \A l \in 1..Len(w) : w[l] \in B \cup {Null}
    BY <1>6, <1>7, <1>8, <1>9
  <2> QED
    BY <2>1, <1>8, SeqDef, LenProperties
<1>12. \A a, b \in 1..Len(w) : w[a] = w[b] /\ w[a] # Null => a = b
  <2> SUFFICES ASSUME NEW a \in 1..Len(w), NEW b \in 1..Len(w), w[a] = w[b], w[a] # Null
               PROVE  a = b
    OBVIOUS
  <2>1. CASE a # i /\ b # i
    BY <2>1, <1>2, <1>8, <1>9 DEF Forest, OneSlot
  <2>2. CASE a = i \/ b = i
    BY <2>2, <1>6, <1>8, <1>9
  <2> QED
    BY <2>1, <2>2
<1>13. ASSUME NEW l \in 1..Len(w), w[l] # Null
       PROVE  /\ \A y \in B \ {n} : w[l] \notin Owned(kids, y)
              /\ w[l] \in Owned(kids, n) \/ n \notin Under(alive, kids, w[l])
  <2>1. CASE l = i
    BY <2>1, <1>1, <1>6, <1>8, <1>13
  <2>2. CASE l # i
    BY <2>2, <1>2, <1>6, <1>9, <1>13, OwnerLemma
  <2> QED
    BY <2>1, <2>2
<1>14. MemberCount(class[n]) <= Len(w)
  BY <1>8 DEF IndInv
<1> QED
  BY <1>1, <1>6, <1>10, <1>11, <1>12, <1>13, <1>14, ReplaceStep

LEMMA TakeChildStep ==
  ASSUME IndInv, NEW n \in alive, NEW i \in Slots(n), TakeChild(n, i)
  PROVE  IndInv'
<1> DEFINE w == [kids[n] EXCEPT ![i] = Null]
<1>1. /\ alive' = alive /\ class' = class /\ made' = made
      /\ kids' = [kids EXCEPT ![n][i] = Null]
  BY DEF TakeChild
<1>2. Forest(alive, kids) /\ kids = [y \in alive |-> kids[y]] /\ class' = Keep(class, alive)
  BY <1>1 DEF IndInv, Forest, Keep
<1>3. kids[n] \in Seq(alive \cup {Null}) /\ i \in 1..Len(kids[n])
  BY <1>2, SlotLemma DEF Slots
<1>4. /\ w \in Seq(alive \cup {Null}) /\ Len(w) = Len(kids[n])
      /\ \A l \in 1..Len(w) : w[l] = IF l = i THEN Null ELSE kids[n][l]
  BY <1>3, ExceptLemma
<1>5. kids' = [y \in alive |-> IF y = n THEN w ELSE kids[y]]
  BY <1>1, <1>2
<1>6. MemberCount(class[n]) <= Len(w)
  BY <1>4 DEF IndInv
<1> HIDE DEF w
<1>7. \A l \in 1..Len(w) : w[l] # Null => w[l] \in Owned(kids, n)
  BY <1>4 DEF Owned
<1>8. \A a, b \in 1..Len(w) : w[a] = w[b] /\ w[a] # Null => a = b
  BY <1>2, <1>4 DEF Forest, OneSlot
<1>9. \A y \in alive \ {n} : Owned(kids, y) \subseteq alive
  BY <1>2, SlotLemma
<1>10. \A l \in 1..Len(w) : w[l] # Null => \A y \in alive \ {n} : w[l] \notin Owned(kids, y)
  BY <1>2, <1>7, OwnerLemma
<1> QED
  BY <1>1, <1>2, <1>4, <1>5, <1>6, <1>7, <1>8, <1>9, <1>10, ReplaceStep

\* Other contents for n, of children it has and loose nodes.
LEMMA RefillStep ==
  ASSUME IndInv, NEW n \in alive, NEW w \in Seq(alive \cup {Null}),
         \A a, b \in 1..Len(w) : w[a] = w[b] /\ w[a] # Null => a = b,
         \A a \in 1..Len(w) : w[a] # Null =>
           \/ w[a] \in Owned(kids, n)
           \/ w[a] \in Loose /\ n \notin Under(alive, kids, w[a]),
         MemberCount(class[n]) <= Len(w),
         UNCHANGED <<made, alive, class>>,
         kids' = [kids EXCEPT ![n] = w]
  PROVE  IndInv'
<1>1. Forest(alive, kids) /\ kids = [y \in alive |-> kids[y]] /\ class' = Keep(class, alive)
  BY DEF IndInv, Forest, Keep
<1>2. kids' = [y \in alive |-> IF y = n THEN w ELSE kids[y]]
  BY <1>1
<1>3. \A y \in alive \ {n} : Owned(kids, y) \subseteq alive
  BY <1>1, SlotLemma
<1>4. \A a \in 1..Len(w) : w[a] # Null =>
        /\ \A y \in alive \ {n} : w[a] \notin Owned(kids, y)
        /\ w[a] \in Owned(kids, n) \/ n \notin Under(alive, kids, w[a])
  BY <1>1, OwnerLemma, NameLemma
<1> QED
  BY <1>1, <1>2, <1>3, <1>4, ReplaceStep

LEMMA AddChildStep ==
  ASSUME IndInv, NEW n \in alive, NEW k \in Loose, AddChild(n, k)
  PROVE  IndInv'
<1> DEFINE s == kids[n]
<1>1. /\ n \notin Under(alive, kids, k) /\ UNCHANGED <<made, alive, class>>
      /\ \/ kids' = [kids EXCEPT ![n] = Append(s, k)]
         \/ kids' = [kids EXCEPT ![n] = <<k>> \o s]
      /\ MemberCount(class[n]) = 0
  BY NameLemma, ClassLemma DEF AddChild, IndInv
<1>2. Forest(alive, kids)
  BY DEF IndInv
<1>3. s \in Seq(alive \cup {Null}) /\ Len(s) \in Nat /\ k \in alive /\ k \notin Owned(kids, n)
  BY <1>2, SlotLemma, NameLemma
<1>4. \A a \in 1..Len(s) : s[a] # Null => s[a] \in Owned(kids, n)
  BY DEF Owned
<1>5. \A a, b \in 1..Len(s) : s[a] = s[b] /\ s[a] # Null => a = b
  BY <1>2 DEF Forest, OneSlot
<1> HIDE DEF s
<1>6. CASE kids' = [kids EXCEPT ![n] = Append(s, k)]
  <2> DEFINE w == Append(s, k)
  <2>1. /\ w \in Seq(alive \cup {Null}) /\ Len(w) = Len(s) + 1
        /\ \A a \in 1..Len(s) : w[a] = s[a]
        /\ w[Len(s) + 1] = k
    BY <1>3, AppendProperties
  <2> HIDE DEF w
  <2>2. \A a \in 1..Len(w) : a \in 1..Len(s) \/ (a = Len(s) + 1 /\ w[a] = k)
    BY <2>1, <1>3
  <2>3. \A a \in 1..Len(w) : w[a] # Null =>
          w[a] \in Owned(kids, n) \/ (w[a] \in Loose /\ n \notin Under(alive, kids, w[a]))
    BY <2>1, <2>2, <1>1, <1>4
  <2>4. \A a, b \in 1..Len(w) : w[a] = w[b] /\ w[a] # Null => a = b
    BY <2>1, <2>2, <1>3, <1>4, <1>5
  <2>5. MemberCount(class[n]) <= Len(w)
    BY <2>1, <1>1, <1>3
  <2> QED
    BY <2>1, <2>3, <2>4, <2>5, <1>1, <1>6, RefillStep DEF w
<1>7. CASE kids' = [kids EXCEPT ![n] = <<k>> \o s]
  <2> DEFINE w == <<k>> \o s
  <2>1. /\ w \in Seq(alive \cup {Null}) /\ Len(w) = Len(s) + 1
        /\ w[1] = k
        /\ \A a \in 1..Len(w) : a > 1 => w[a] = s[a - 1]
    <3>1. <<k>> \in Seq(alive \cup {Null}) /\ Len(<<k>>) = 1 /\ <<k>>[1] = k
      BY <1>3
    <3>2. /\ w \in Seq(alive \cup {Null}) /\ Len(w) = 1 + Len(s)
          /\ \A a \in 1..(1 + Len(s)) : w[a] = IF a <= 1 THEN <<k>>[a] ELSE s[a - 1]
      BY <3>1, <1>3, ConcatProperties
    <3> QED
      BY <3>1, <3>2, <1>3
  <2> HIDE DEF w
  <2>2. \A a \in 1..Len(w) : (a > 1 /\ a - 1 \in 1..Len(s)) \/ (a = 1 /\ w[a] = k)
    BY <2>1, <1>3
  <2>3. \A a \in 1..Len(w) : w[a] # Null =>
          w[a] \in Owned(kids, n) \/ (w[a] \in Loose /\ n \notin Under(alive, kids, w[a]))
    BY <2>1, <2>2, <1>1, <1>4
  <2>4. ASSUME NEW a \in 1..Len(w), NEW b \in 1..Len(w), w[a] = w[b], w[a] # Null
        PROVE  a = b
    <3>1. CASE a > 1 /\ b > 1
      <4>1. /\ a - 1 \in 1..Len(s) /\ b - 1 \in 1..Len(s)
            /\ s[a - 1] = w[a] /\ s[b - 1] = w[b]
        BY <3>1, <2>1, <2>2
      <4>2. a - 1 = b - 1
        BY <4>1, <2>4, <1>5
      <4> QED
        BY <4>2, <2>1, <1>3
    <3>2. CASE ~(a > 1 /\ b > 1)
      BY <3>2, <2>1, <2>2, <2>4, <1>3, <1>4
    <3> QED
      BY <3>1, <3>2
  <2>5. MemberCount(class[n]) <= Len(w)
    BY <2>1, <1>1, <1>3
  <2> QED
    BY <2>1, <2>3, <2>4, <2>5, <1>1, <1>7, RefillStep DEF w
<1> QED
  BY <1>1, <1>6, <1>7

LEMMA RemoveNullStep ==
  ASSUME IndInv, NEW n \in alive, RemoveNull(n)
  PROVE  IndInv'
<1> DEFINE s == kids[n]
           full == FullSlots(n)
<1>1. PICK f \in InOrder(full) : kids' = [kids EXCEPT ![n] = [i \in DOMAIN f |-> s[f[i]]]]
  BY DEF RemoveNull
<1>2. UNCHANGED <<made, alive, class>> /\ MemberCount(class[n]) = 0
  BY ClassLemma DEF RemoveNull, IndInv
<1>3. Forest(alive, kids)
  BY DEF IndInv
<1>4. s \in Seq(alive \cup {Null}) /\ Len(s) \in Nat
  BY <1>3, SlotLemma
<1>5. full = {i \in 1..Len(s) : s[i] # Null}
  BY DEF FullSlots, Slots
<1>6. \A a \in full : s[a] \in alive \cup {Null} /\ s[a] \in Owned(kids, n) /\ a \in Nat
  BY <1>3, <1>4, <1>5, SlotLemma DEF Owned
<1>7. \A a, b \in full : s[a] = s[b] => a = b
  BY <1>3, <1>5 DEF Forest, OneSlot
<1>8. Cardinality(full) \in Nat
  <2>1. IsFiniteSet(1..Len(s)) /\ full \subseteq 1..Len(s)
    BY <1>4, <1>5, FS_Interval
  <2> HIDE DEF s, full
  <2>2. IsFiniteSet(full)
    BY <2>1, FS_Subset
  <2> QED
    BY <2>2, FS_CardinalityType
<1> DEFINE N == Cardinality(full)
           w == [i \in 1..N |-> s[f[i]]]
<1>9. f \in [1..N -> full] /\ \A i, j \in 1..N : i < j => f[i] < f[j]
  BY DEF InOrder
<1>10. kids' = [kids EXCEPT ![n] = w]
  BY <1>1, <1>9
<1> HIDE DEF s, full, N
<1>11. w \in [1..N -> alive \cup {Null}]
  BY <1>6, <1>9
<1>12. N \in Nat
  BY <1>8 DEF N
<1>13. w \in Seq(alive \cup {Null}) /\ Len(w) = N /\ \A i \in 1..N : w[i] = s[f[i]]
  BY <1>11, <1>12, SeqDef, LenProperties
<1> HIDE DEF w
<1>14. ASSUME NEW a \in 1..Len(w), NEW b \in 1..Len(w), w[a] = w[b]
       PROVE  a = b
  <2>1. f[a] = f[b] /\ f[a] \in Nat
    BY <1>6, <1>7, <1>9, <1>13, <1>14
  <2>2. ~(a < b) /\ ~(b < a)
    BY <2>1, <1>9, <1>13
  <2> QED
    BY <2>2, <1>12, <1>13
<1>15. \A a \in 1..Len(w) : w[a] # Null =>
         w[a] \in Owned(kids, n) \/ (w[a] \in Loose /\ n \notin Under(alive, kids, w[a]))
  BY <1>6, <1>9, <1>13
<1>16. MemberCount(class[n]) <= Len(w)
  BY <1>2, <1>12, <1>13
<1>17. \A a, b \in 1..Len(w) : w[a] = w[b] /\ w[a] # Null => a = b
  BY <1>14
<1> QED
  BY <1>2, <1>10, <1>13, <1>15, <1>16, <1>17, RefillStep

LEMMA TakeExpressionsStep ==
  ASSUME IndInv, NEW n \in alive, TakeExpressions(n)
  PROVE  IndInv'
<1>1. UNCHANGED <<made, alive, class>> /\ kids' = [kids EXCEPT ![n] = <<>>]
  BY DEF TakeExpressions
<1>2. MemberCount(class[n]) = 0
  <2>1. class[n] = "ExpressionList" /\ class[n] \in ClassNames
    BY DEF TakeExpressions, IndInv
  <2>2. Class["ExpressionList"].grows
    BY DEF Class, ClassNames, Expressions, ExpressionList, Leaf
  <2> QED
    BY <2>1, <2>2, ClassLemma
<1> DEFINE w == <<>>
<1>3. w \in Seq(alive \cup {Null}) /\ Len(w) = 0
  OBVIOUS
<1>4. kids' = [kids EXCEPT ![n] = w]
  BY <1>1
<1> HIDE DEF w
<1>5. 1..Len(w) = {} /\ MemberCount(class[n]) <= Len(w)
  BY <1>2, <1>3
<1> QED
  BY <1>1, <1>3, <1>4, <1>5, RefillStep

LEMMA DeleteStep ==
  ASSUME IndInv, NEW n \in Loose, Delete(n)
  PROVE  IndInv'
<1> DEFINE B == Survivors({n})
<1>1. /\ alive' = B /\ class' = Keep(class, B) /\ made' = made /\ kids' = Keep(kids, B)
  BY DEF Delete, KeepOnly
<1>2. /\ Forest(alive, kids) /\ B = Remaining(alive, kids, {n})
      /\ n \in alive /\ \A m \in alive : n \notin Owned(kids, m)
  BY NameLemma DEF IndInv
<1>3. B = alive \ Under(alive, kids, n) /\ {n} \in SUBSET alive
  BY <1>2 DEF Remaining
<1>4. B \subseteq alive /\ \A y \in B : Owned(kids, y) \subseteq B \cup {n}
  <2> DEFINE S == {n}
  <2>1. S \in SUBSET alive
    BY <1>2
  <2> HIDE DEF S, B
  <2>2. LET R == Remaining(alive, kids, S) IN
        R \subseteq alive /\ \A y \in R : Owned(kids, y) \subseteq R \cup S
    BY <1>2, <2>1, SurvivorLemma
  <2> QED
    BY <2>2, <1>2 DEF S
<1>5. n \notin B
  BY <1>2, <1>3, UnderLemma
<1>6. \A y \in B \ {n} : Owned(kids, y) \subseteq B
  BY <1>2, <1>4
<1> DEFINE w == <<>>
<1>7. kids' = [y \in B |-> IF y = n THEN w ELSE kids[y]]
  BY <1>1, <1>5 DEF Keep
<1> HIDE DEF B
<1>8. w \in Seq(B \cup {Null}) /\ Len(w) = 0
  OBVIOUS
<1> HIDE DEF w
<1>9. n \notin B /\ n \in alive /\ B \in SUBSET alive
  BY <1>2, <1>4, <1>5
<1>10. made' = made /\ alive' = B /\ class' = Keep(class, B)
  BY <1>1
<1>11. 1..Len(w) = {}
  BY <1>8
<1>12. /\ \A i, j \in 1..Len(w) : w[i] = w[j] /\ w[i] # Null => i = j
       /\ \A i \in 1..Len(w) : w[i] # Null =>
            /\ \A y \in B \ {n} : w[i] \notin Owned(kids, y)
            /\ w[i] \in Owned(kids, n) \/ n \notin Under(alive, kids, w[i])
  BY ONLY <1>11
<1>13. w \in Seq(B \cup {Null}) /\ (n \in B => MemberCount(class[n]) <= Len(w))
  BY <1>8, <1>9
<1> QED
  BY ONLY IndInv, <1>6, <1>7, <1>9, <1>10, <1>12, <1>13, ReplaceStep

LEMMA SetExpressionsStep ==
  ASSUME IndInv, NEW n \in alive, NEW ks \in Given(class[n]), SetExpressions(n, ks)
  PROVE  IndInv'
<1> DEFINE S == Owned(kids, n)
           B == Survivors(S)
<1>1. /\ class[n] = "ExpressionList"
      /\ alive' = B /\ class' = Keep(class, B) /\ made' = made
      /\ kids' = Keep([kids EXCEPT ![n] = ks], B)
      /\ \A i, j \in DOMAIN ks : ks[i] = ks[j] => i = j
      /\ \A i \in DOMAIN ks : ks[i] # Null /\ n \notin Under(alive, kids, ks[i])
  BY NameLemma DEF SetExpressions, KeepOnly
<1>2. Forest(alive, kids) /\ class[n] \in ClassNames /\ kids = [y \in alive |-> kids[y]]
  BY DEF IndInv, Forest
<1>3. /\ n \in B /\ B \subseteq alive
      /\ \A y \in B \ {n} : Owned(kids, y) \subseteq B
      /\ Loose \subseteq B
      /\ \A l \in Loose : \A y \in alive : l \notin Owned(kids, y)
  BY StayLemma
<1>4. MemberCount(class[n]) = 0
  <2>1. Class["ExpressionList"].grows
    BY DEF Class, ClassNames, Expressions, ExpressionList, Leaf
  <2> QED
    BY <1>1, <1>2, <2>1, ClassLemma
<1>5. kids' = [y \in B |-> IF y = n THEN ks ELSE kids[y]]
  BY <1>1, <1>2, <1>3 DEF Keep
<1>6. PICK k \in SlotCounts(class[n], MaxSlots) : ks \in [1..k -> Loose \cup {Null}]
  BY DEF Given
<1>7. k \in Nat
  BY <1>4, <1>6, BoundsAssumption DEF SlotCounts
<1> HIDE DEF B, S
<1>8. ks \in Seq(B \cup {Null}) /\ Len(ks) = k /\ DOMAIN ks = 1..Len(ks)
  <2>1. ks \in [1..k -> B \cup {Null}]
    BY <1>3, <1>6
  <2> QED
    BY <2>1, <1>7, SeqDef, LenProperties
<1>9. \A i \in 1..Len(ks) : ks[i] \in Loose
  BY <1>1, <1>6, <1>8
<1>10. \A i \in 1..Len(ks) : ks[i] # Null =>
         /\ \A y \in B \ {n} : ks[i] \notin Owned(kids, y)
         /\ ks[i] \in Owned(kids, n) \/ n \notin Under(alive, kids, ks[i])
  BY <1>1, <1>3, <1>8, <1>9
<1>11. \A i, j \in 1..Len(ks) : ks[i] = ks[j] /\ ks[i] # Null => i = j
  BY <1>1, <1>8
<1>12. MemberCount(class[n]) <= Len(ks)
  BY <1>4, <1>7, <1>8
<1>13. ks \in Seq(B \cup {Null}) /\ B \in SUBSET alive
  BY <1>3, <1>8
<1>14. made' = made /\ alive' = B /\ class' = Keep(class, B)
  BY <1>1
<1>15. \A y \in B \ {n} : Owned(kids, y) \subseteq B
  BY <1>3
<1> QED
  BY <1>5, <1>10, <1>11, <1>12, <1>13, <1>14, <1>15, ReplaceStep

LEMMA ConstructStep ==
  ASSUME IndInv, NEW c \in Classes, NEW ks \in Given(c), Construct(c, ks)
  PROVE  IndInv'
<1> DEFINE n == NextNode
           B == alive \cup {n}
<1>1. /\ \A i, j \in DOMAIN ks : ks[i] = ks[j] /\ ks[i] # Null => i = j
      /\ made' = made + 1 /\ alive' = B
      /\ class' = Extend(class, n, c) /\ kids' = Extend(kids, n, ks)
  BY DEF Construct, NextNode
<1>2. /\ Forest(alive, kids) /\ made \in Nat /\ alive \subseteq 1..made
      /\ class \in [alive -> ClassNames] /\ DOMAIN kids = alive
      /\ \A y \in alive : MemberCount(class[y]) <= Len(kids[y])
  BY DEF IndInv, Forest
<1>3. c \in ClassNames /\ MemberCount(c) \in Nat
  BY ClassesAssumption, ClassLemma
<1>4. PICK k \in SlotCounts(c, MaxSlots) : ks \in [1..k -> Loose \cup {Null}]
  BY DEF Given
<1>5. k \in Nat /\ MemberCount(c) <= k
  BY <1>3, <1>4, BoundsAssumption DEF SlotCounts
<1>6. n \notin alive /\ n # Null
  BY NameLemma
<1>7. alive' \subseteq 1..made' /\ made' \in Nat
  BY <1>1, <1>2 DEF NextNode
<1>8. \A y \in Loose : y \in alive /\ \A m \in alive : y \notin Owned(kids, m)
  BY NameLemma
<1>9. ks \in Seq(B \cup {Null}) /\ Len(ks) = k /\ DOMAIN ks = 1..Len(ks)
  <2>1. ks \in [1..k -> B \cup {Null}]
    BY <1>4, <1>8
  <2> QED
    BY <2>1, <1>5, SeqDef, LenProperties
<1>10. kids' = [y \in B |-> IF y = n THEN ks ELSE kids[y]]
  BY <1>1, <1>2, <1>6 DEF Extend
<1>11. class' = [y \in B |-> IF y = n THEN c ELSE class[y]]
  BY <1>1, <1>2, <1>6 DEF Extend
<1> HIDE DEF n
<1>12. \A i \in 1..Len(ks) : ks[i] # Null =>
         /\ ks[i] \in alive
         /\ \A y \in B \ {n} : ks[i] \notin Owned(kids, y)
         /\ n \notin Under(alive, kids, ks[i])
  BY <1>4, <1>6, <1>8, <1>9 DEF Under
<1>13. \A y \in B \ {n} : Owned(kids, y) \subseteq B
  BY <1>2, SlotLemma
<1>14. \A i, j \in 1..Len(ks) : ks[i] = ks[j] /\ ks[i] # Null => i = j
  BY <1>1, <1>9
<1>15. class' \in [alive' -> ClassNames]
  BY <1>1, <1>2, <1>3, <1>11
<1>16. \A y \in alive' : MemberCount(class'[y]) <= Len(kids'[y])
  BY <1>1, <1>2, <1>5, <1>9, <1>10, <1>11
<1>17. B \in SUBSET (alive \cup {n})
  OBVIOUS
<1> HIDE DEF B
<1>18. Forest(B, kids')
  <2>1. Forest(alive, kids) /\ n # Null /\ ks \in Seq(B \cup {Null})
    BY <1>2, <1>6, <1>9
  <2>2. \A i \in 1..Len(ks) : ks[i] # Null =>
         /\ ks[i] \in alive
         /\ \A y \in B \ {n} : ks[i] \notin Owned(kids, y)
         /\ (n \in alive /\ ks[i] \in Owned(kids, n)) \/ n \notin Under(alive, kids, ks[i])
    BY <1>12
  <2> QED
    BY <2>1, <2>2, <1>10, <1>13, <1>14, <1>17, Replace
<1> QED
  BY <1>1, <1>7, <1>15, <1>16, <1>18 DEF IndInv

---------------------------------------------------------------------------
(* Moves: m is emptied first *)

Emptied(m) == [y \in alive |-> IF y = m THEN MovedFrom(m) ELSE kids[y]]

LEMMA EmptiedLemma ==
  ASSUME IndInv, NEW m \in alive
  PROVE  /\ Forest(alive, Emptied(m))
         /\ Owned(Emptied(m), m) = {}
         /\ \A y \in alive \ {m} : Owned(Emptied(m), y) = Owned(kids, y)
         /\ Len(MovedFrom(m)) = MemberCount(class[m])
         /\ \A c \in alive : Under(alive, Emptied(m), c) \subseteq Under(alive, kids, c)
<1> DEFINE w == MovedFrom(m)
           L == Emptied(m)
           N == MemberCount(class[m])
<1>1. Forest(alive, kids) /\ m # Null /\ N \in Nat
  BY NameLemma, ClassLemma DEF IndInv
<1>2. w = [a \in 1..N |-> Null]
  BY DEF MovedFrom
<1>3. L = [y \in alive |-> IF y = m THEN w ELSE kids[y]]
  BY DEF Emptied
<1> HIDE DEF L, w, N
<1>4. w \in Seq(alive \cup {Null}) /\ Len(w) = N /\ \A a \in 1..Len(w) : w[a] = Null
  <2>1. w \in [1..N -> alive \cup {Null}]
    BY <1>2
  <2> QED
    BY <1>1, <1>2, <2>1, SeqDef, LenProperties
<1>5. \A y \in alive \ {m} : Owned(kids, y) \subseteq alive
  BY <1>1, SlotLemma
<1>6. alive \in SUBSET (alive \cup {m})
  OBVIOUS
<1>7. Forest(alive, L)
  BY <1>1, <1>3, <1>4, <1>5, <1>6, Replace
<1>8. Owned(L, m) = {}
  <2>1. L[m] = w
    BY <1>3
  <2> QED
    BY <2>1, <1>4 DEF Owned
<1>9. \A y \in alive \ {m} : Owned(L, y) = Owned(kids, y)
  BY <1>3 DEF Owned
<1>10. ASSUME NEW c \in alive
       PROVE  Under(alive, L, c) \subseteq Under(alive, kids, c)
  <2> DEFINE U == Under(alive, kids, c)
  <2>1. c \in U /\ U \in SUBSET alive /\ IsClosed(kids, U)
    BY <1>1, UnderLemma
  <2> HIDE DEF U
  <2>2. IsClosed(L, U)
    BY <2>1, <1>8, <1>9 DEF IsClosed
  <2>3. Under(alive, L, c) \subseteq U
    BY <2>1, <2>2, <1>7, UnderLemma
  <2> QED
    BY <2>3 DEF U
<1> QED
  BY <1>4, <1>7, <1>8, <1>9, <1>10 DEF L, w, N

LEMMA MoveConstructStep ==
  ASSUME IndInv, NEW m \in alive, MoveConstruct(m)
  PROVE  IndInv'
<1> DEFINE n == NextNode
           B == alive \cup {n}
           K == Emptied(m)
           w == kids[m]
<1>1. /\ made' = made + 1 /\ alive' = B
      /\ class' = Extend(class, n, class[m])
      /\ kids' = Extend([kids EXCEPT ![m] = MovedFrom(m)], n, w)
  BY DEF MoveConstruct, NextNode
<1>2. /\ Forest(alive, kids) /\ made \in Nat /\ alive \subseteq 1..made
      /\ class \in [alive -> ClassNames] /\ kids = [y \in alive |-> kids[y]]
      /\ \A y \in alive : MemberCount(class[y]) <= Len(kids[y])
  BY DEF IndInv, Forest
<1>3. /\ Forest(alive, K) /\ Owned(K, m) = {}
      /\ \A y \in alive \ {m} : Owned(K, y) = Owned(kids, y)
      /\ Len(MovedFrom(m)) = MemberCount(class[m])
  BY EmptiedLemma
<1>4. n \notin alive /\ n # Null
  BY NameLemma
<1>5. alive' \subseteq 1..made' /\ made' \in Nat
  BY <1>1, <1>2 DEF NextNode
<1>6. MemberCount(class[m]) \in Nat
  BY <1>2, ClassLemma
<1>7. K = [y \in alive |-> IF y = m THEN MovedFrom(m) ELSE kids[y]]
  BY DEF Emptied
<1> HIDE DEF n, K
<1>8. kids' = [y \in B |-> IF y = n THEN w ELSE K[y]]
  BY <1>1, <1>2, <1>4, <1>7 DEF Extend
<1>9. class' = [y \in B |-> IF y = n THEN class[m] ELSE class[y]]
  BY <1>1, <1>2, <1>4 DEF Extend
<1>10. w \in Seq(B \cup {Null}) /\ \A a \in 1..Len(w) : w[a] # Null => w[a] \in Owned(kids, m)
  <2>1. w \in Seq(alive \cup {Null})
    BY <1>2, SlotLemma
  <2> QED
    BY <2>1, SeqDef DEF Owned
<1>11. ASSUME NEW a \in 1..Len(w), w[a] # Null
       PROVE  /\ w[a] \in alive
              /\ \A y \in B \ {n} : w[a] \notin Owned(K, y)
              /\ (n \in alive /\ w[a] \in Owned(K, n)) \/ n \notin Under(alive, K, w[a])
  <2>1. w[a] \in Owned(kids, m) /\ w[a] \in alive
    BY <1>2, <1>10, <1>11, SlotLemma
  <2>2. ASSUME NEW y \in alive
        PROVE  w[a] \notin Owned(K, y)
    <3>1. CASE y = m
      BY <3>1, <1>3
    <3>2. CASE y # m
      BY <3>2, <2>1, <1>2, <1>3, OwnerLemma
    <3> QED
      BY <3>1, <3>2
  <2>3. n \notin Under(alive, K, w[a])
    BY <1>4 DEF Under
  <2> QED
    BY <2>1, <2>2, <2>3
<1>12. \A y \in B \ {n} : Owned(K, y) \subseteq B
  BY <1>3, SlotLemma
<1>13. \A a, b \in 1..Len(w) : w[a] = w[b] /\ w[a] # Null => a = b
  BY <1>2 DEF Forest, OneSlot
<1>14. class' \in [alive' -> ClassNames]
  BY <1>1, <1>2, <1>9
<1>15. ASSUME NEW y \in alive'
       PROVE  MemberCount(class'[y]) <= Len(kids'[y])
  <2>1. y \in B
    BY <1>1
  <2>2. CASE y = n
    <3>1. kids'[y] = kids[m] /\ class'[y] = class[m]
      BY <2>1, <2>2, <1>8, <1>9
    <3> QED
      BY <3>1, <1>2
  <2>3. CASE y = m
    <3>1. kids'[y] = MovedFrom(m) /\ class'[y] = class[m]
      BY <2>1, <2>3, <1>4, <1>7, <1>8, <1>9
    <3> QED
      BY <3>1, <1>3, <1>6
  <2>4. CASE y # n /\ y # m
    <3>1. y \in alive /\ kids'[y] = kids[y] /\ class'[y] = class[y]
      BY <2>1, <2>4, <1>7, <1>8, <1>9
    <3> QED
      BY <3>1, <1>2
  <2> QED
    BY <2>2, <2>3, <2>4
<1>16. B \in SUBSET (alive \cup {n})
  OBVIOUS
<1> HIDE DEF B, w
<1>17. Forest(B, kids')
  BY <1>3, <1>4, <1>8, <1>10, <1>11, <1>12, <1>13, <1>16, Replace
<1> QED
  BY <1>1, <1>5, <1>14, <1>15, <1>17 DEF IndInv

LEMMA AssignMoveStep ==
  ASSUME IndInv, NEW n \in alive, NEW m \in alive, AssignMove(n, m)
  PROVE  IndInv'
<1> DEFINE S == Owned(kids, n)
           B == Survivors(S)
           K == Emptied(m)
           w == kids[m]
<1>1. /\ class[n] = class[m]
      /\ n \notin Under(alive, kids, m) /\ m \notin Under(alive, kids, n)
      /\ made' = made /\ alive' = B /\ class' = Keep(class, B)
      /\ kids' = Keep([kids EXCEPT ![n] = w, ![m] = MovedFrom(m)], B)
  BY NameLemma DEF AssignMove, Assignable, KeepOnly
<1>2. /\ Forest(alive, kids) /\ class \in [alive -> ClassNames]
      /\ kids = [y \in alive |-> kids[y]]
      /\ made \in Nat /\ alive \subseteq 1..made
      /\ \A y \in alive : MemberCount(class[y]) <= Len(kids[y])
  BY DEF IndInv, Forest
<1>3. /\ Forest(alive, K) /\ Owned(K, m) = {}
      /\ \A y \in alive \ {m} : Owned(K, y) = Owned(kids, y)
      /\ Len(MovedFrom(m)) = MemberCount(class[m])
      /\ \A c \in alive : Under(alive, K, c) \subseteq Under(alive, kids, c)
  BY EmptiedLemma
<1>4. n # m /\ n # Null
  BY <1>1, <1>2, UnderLemma, NameLemma
<1>5. /\ n \in B /\ B \subseteq alive
      /\ \A y \in B \ {n} : Owned(kids, y) \subseteq B
  BY StayLemma
<1>6. m \in B
  <2>1. B = Remaining(alive, kids, S)
    BY NameLemma
  <2>2. \A s \in S : s \in Under(alive, kids, n)
    BY <1>2, UnderLemma DEF IsClosed
  <2>3. \A s \in S : m \notin Under(alive, kids, s)
    BY <2>2, <1>1, <1>2, UnderLemma
  <2> QED
    BY <2>1, <2>3 DEF Remaining
<1>7. MemberCount(class[m]) \in Nat
  BY <1>2, ClassLemma
<1>8. K = [y \in alive |-> IF y = m THEN MovedFrom(m) ELSE kids[y]]
  BY DEF Emptied
<1> HIDE DEF K, B, S
<1>9. kids' = [y \in B |-> IF y = n THEN w ELSE K[y]]
  BY <1>1, <1>2, <1>4, <1>5, <1>8 DEF Keep
<1>10. class' = [y \in B |-> class[y]]
  BY <1>1 DEF Keep
<1>11. /\ w \in Seq(B \cup {Null})
       /\ \A a \in 1..Len(w) : w[a] # Null => w[a] \in Owned(kids, m)
  <2>1. w \in Seq(alive \cup {Null}) /\ \A a \in 1..Len(w) : w[a] # Null => w[a] \in Owned(kids, m)
    BY <1>2, SlotLemma DEF Owned
  <2>2. \A a \in 1..Len(w) : w[a] \in B \cup {Null}
    BY <2>1, <1>4, <1>5, <1>6
  <2> QED
    BY <2>1, <2>2, SeqDef, LenProperties
<1>12. ASSUME NEW a \in 1..Len(w), w[a] # Null
       PROVE  /\ w[a] \in alive
              /\ \A y \in B \ {n} : w[a] \notin Owned(K, y)
              /\ (n \in alive /\ w[a] \in Owned(K, n)) \/ n \notin Under(alive, K, w[a])
  <2>1. w[a] \in Owned(kids, m) /\ w[a] \in alive
    BY <1>2, <1>11, <1>12, SlotLemma
  <2>2. ASSUME NEW y \in alive
        PROVE  w[a] \notin Owned(K, y)
    <3>1. CASE y = m
      BY <3>1, <1>3
    <3>2. CASE y # m
      BY <3>2, <2>1, <1>2, <1>3, OwnerLemma
    <3> QED
      BY <3>1, <3>2
  <2>3. n \notin Under(alive, K, w[a])
    <3>1. w[a] \in Under(alive, kids, m)
      BY <2>1, <1>2, UnderLemma DEF IsClosed
    <3>2. Under(alive, kids, w[a]) \subseteq Under(alive, kids, m)
      BY <3>1, <1>2, UnderLemma
    <3> QED
      BY <3>2, <2>1, <1>1, <1>3
  <2> QED
    BY <2>1, <2>2, <2>3, <1>5
<1>13. ASSUME NEW y \in B \ {n}
       PROVE  Owned(K, y) \subseteq B
  <2>1. CASE y = m
    BY <2>1, <1>3
  <2>2. CASE y # m
    BY <2>2, <1>3, <1>5
  <2> QED
    BY <2>1, <2>2
<1>14. \A a, b \in 1..Len(w) : w[a] = w[b] /\ w[a] # Null => a = b
  BY <1>2 DEF Forest, OneSlot
<1>15. class' \in [alive' -> ClassNames] /\ alive' \subseteq 1..made'
  BY <1>1, <1>2, <1>5, <1>10
<1>16. ASSUME NEW y \in alive'
       PROVE  MemberCount(class'[y]) <= Len(kids'[y])
  <2>1. y \in B /\ y \in alive /\ class'[y] = class[y]
    BY <1>1, <1>5, <1>10
  <2>2. CASE y = n
    <3>1. kids'[y] = kids[m] /\ class'[y] = class[m]
      BY <2>1, <2>2, <1>1, <1>9
    <3> QED
      BY <3>1, <1>2
  <2>3. CASE y = m
    <3>1. kids'[y] = MovedFrom(m)
      BY <2>1, <2>3, <1>4, <1>8, <1>9
    <3> QED
      BY <3>1, <2>1, <2>3, <1>3, <1>7
  <2>4. CASE y # n /\ y # m
    <3>1. kids'[y] = kids[y]
      BY <2>1, <2>4, <1>8, <1>9
    <3> QED
      BY <3>1, <2>1, <1>2
  <2> QED
    BY <2>2, <2>3, <2>4
<1>17. B \in SUBSET (alive \cup {n})
  BY <1>5
<1> HIDE DEF w
<1>18. Forest(B, kids')
  BY <1>3, <1>4, <1>9, <1>11, <1>12, <1>13, <1>14, <1>17, Replace
<1> QED
  BY <1>1, <1>2, <1>15, <1>16, <1>18 DEF IndInv

---------------------------------------------------------------------------
(* Copies *)

LEMMA CopiesLemma ==
  ASSUME IndInv, NEW S \in SUBSET alive, NEW f \in Copies(S)
  PROVE  /\ Cardinality(S) \in Nat
         /\ DOMAIN f = S
         /\ \A k, l \in S : f[k] = f[l] => k = l
         /\ \A k \in S : /\ f[k] \notin alive /\ f[k] # Null
                        /\ f[k] \in 1..(made + Cardinality(S))
<1>1. made \in Nat /\ alive \subseteq 1..made
  BY DEF IndInv
<1>2. IsFiniteSet(S)
  <2>1. IsFiniteSet(1..made)
    BY <1>1, FS_Interval
  <2> QED
    BY <2>1, <1>1, FS_Subset
<1>3. Cardinality(S) \in Nat
  BY <1>2, FS_CardinalityType
<1> DEFINE N == Cardinality(S)
<1>4. /\ f \in [S -> NextNode..(made + N)]
      /\ \A a, b \in S : a # b => f[a] # f[b]
  BY DEF Copies
<1> HIDE DEF N
<1>5. ASSUME NEW k \in S
      PROVE  f[k] \notin alive /\ f[k] # Null /\ f[k] \in 1..(made + N)
  <2>1. f[k] \in (made + 1)..(made + N)
    BY <1>4 DEF NextNode
  <2> QED
    BY <2>1, <1>1, <1>3 DEF N, Null
<1> QED
  BY <1>3, <1>4, <1>5 DEF N

LEMMA CloneStep ==
  ASSUME IndInv, NEW n \in alive, Clone(n)
  PROVE  IndInv'
<1> DEFINE S == Below(n)
<1>1. S = Under(alive, kids, n)
  BY NameLemma
<1>2. PICK f \in Copies(S) :
        /\ made' = made + Cardinality(S)
        /\ alive' = alive \cup {f[m] : m \in S}
        /\ class' = [y \in DOMAIN class \cup {f[m] : m \in DOMAIN f} |->
             IF y \in DOMAIN class THEN class[y] ELSE class[CHOOSE m \in DOMAIN f : f[m] = y]]
        /\ kids' = [y \in DOMAIN kids \cup {f[m] : m \in DOMAIN f} |->
             IF y \in DOMAIN kids THEN kids[y]
                                 ELSE Image(f, kids[CHOOSE m \in DOMAIN f : f[m] = y])]
  BY DEF Clone, WithCopies
<1> HIDE DEF S
<1>3. Forest(alive, kids) /\ S \in SUBSET alive /\ IsClosed(kids, S)
  BY <1>1, UnderLemma DEF IndInv
<1> DEFINE F == {f[k] : k \in S}
<1>4. /\ made \in Nat /\ alive \subseteq 1..made
      /\ class \in [alive -> ClassNames] /\ DOMAIN kids = alive
      /\ \A y \in alive : MemberCount(class[y]) <= Len(kids[y])
  BY DEF IndInv, Forest
<1>5. /\ Cardinality(S) \in Nat /\ DOMAIN f = S
      /\ \A k, l \in S : f[k] = f[l] => k = l
      /\ \A k \in S : /\ f[k] \notin alive /\ f[k] # Null
                     /\ f[k] \in 1..(made + Cardinality(S))
  BY <1>3, CopiesLemma
<1>6. \A k \in S : (CHOOSE m \in S : f[m] = f[k]) = k
  BY <1>5
<1>7. /\ DOMAIN kids' = alive \cup F
      /\ \A y \in alive : kids'[y] = kids[y]
      /\ \A k \in S : kids'[f[k]] = Image(f, kids[k])
  <2>1. kids' = [y \in alive \cup F |->
                  IF y \in alive THEN kids[y] ELSE Image(f, kids[CHOOSE m \in S : f[m] = y])]
    BY <1>2, <1>4, <1>5
  <2> QED
    BY <2>1, <1>5, <1>6
<1>8. /\ DOMAIN class' = alive \cup F
      /\ \A y \in alive : class'[y] = class[y]
      /\ \A k \in S : class'[f[k]] = class[k]
  <2>1. class' = [y \in alive \cup F |->
                   IF y \in alive THEN class[y] ELSE class[CHOOSE m \in S : f[m] = y]]
    BY <1>2, <1>4, <1>5
  <2> QED
    BY <2>1, <1>5, <1>6
<1>9. class' \in [alive' -> ClassNames]
  <2>1. class' = [y \in alive \cup F |-> class'[y]]
    BY <1>2, <1>4, <1>5
  <2>2. \A y \in alive \cup F : class'[y] \in ClassNames
    BY <1>3, <1>4, <1>8
  <2> QED
    BY <2>1, <2>2, <1>2
<1>10. /\ Forest(alive \cup F, kids')
       /\ \A k \in S : Len(kids'[f[k]]) = Len(kids[k])
  <2>1. kids' = [y \in alive \cup Copied(f, S) |-> kids'[y]]
    BY <1>2, <1>4, <1>5 DEF Copied
  <2>2. Doubles(alive, kids, S, f, kids')
    BY <2>1, <1>3, <1>5, <1>7 DEF Doubles
  <2>3. /\ Forest(alive \cup Copied(f, S), kids')
        /\ \A k \in S : Len(kids'[f[k]]) = Len(kids[k])
    <3>1. Doubled(alive, kids, S, f, kids')
      BY <2>2, Duplicate
    <3> QED
      BY <3>1 DEF Doubled
  <2> QED
    BY <2>3 DEF Copied
<1>11. ASSUME NEW y \in alive'
       PROVE  MemberCount(class'[y]) <= Len(kids'[y])
  <2>1. CASE y \in alive
    BY <2>1, <1>4, <1>7, <1>8
  <2>2. CASE y \notin alive
    <3>1. PICK k \in S : y = f[k]
      BY <2>2, <1>2
    <3>2. class'[y] = class[k] /\ Len(kids'[y]) = Len(kids[k]) /\ k \in alive
      BY <3>1, <1>3, <1>8, <1>10
    <3> QED
      BY <3>2, <1>4
  <2> QED
    BY <2>1, <2>2
<1>12. made' \in Nat /\ alive' \subseteq 1..made'
  <2> DEFINE N == Cardinality(S)
  <2>1. N \in Nat /\ made' = made + N /\ \A k \in S : f[k] \in 1..(made + N)
    BY <1>2, <1>5
  <2> HIDE DEF N
  <2>2. alive \subseteq 1..(made + N) /\ made + N \in Nat
    BY <2>1, <1>4
  <2>3. alive' \subseteq 1..(made + N)
    BY <2>1, <2>2, <1>2
  <2> QED
    BY <2>1, <2>2, <2>3
<1> QED
  BY <1>2, <1>9, <1>10, <1>11, <1>12 DEF IndInv

\* The copy made by f of what m owns goes into the slots of n.
LEMMA AssignCopyStep ==
  ASSUME IndInv, NEW n \in alive, NEW m \in alive, AssignCopy(n, m)
  PROVE  IndInv'
<1> DEFINE S == Below(m) \ {m}
           rest == Survivors(Children(n))
           c0 == Keep(class, rest)
           k0(f) == Keep([kids EXCEPT ![n] = Image(f, kids[m])], rest)
<1>0. PICK f \in Copies(S) :
        /\ alive' = rest \cup {f[k] : k \in S}
        /\ class' = [y \in DOMAIN c0 \cup {f[k] : k \in DOMAIN f} |->
             IF y \in DOMAIN c0 THEN c0[y] ELSE class[CHOOSE k \in DOMAIN f : f[k] = y]]
        /\ kids' = [y \in DOMAIN k0(f) \cup {f[k] : k \in DOMAIN f} |->
             IF y \in DOMAIN k0(f) THEN k0(f)[y]
                                  ELSE Image(f, kids[CHOOSE k \in DOMAIN f : f[k] = y])]
  BY DEF AssignCopy, WithCopies
<1>1. /\ alive' = rest \cup {f[k] : k \in S}
      /\ class' = [y \in rest \cup {f[k] : k \in DOMAIN f} |->
           IF y \in rest THEN class[y] ELSE class[CHOOSE k \in DOMAIN f : f[k] = y]]
      /\ kids' = [y \in rest \cup {f[k] : k \in DOMAIN f} |->
           IF y \in rest THEN [kids EXCEPT ![n] = Image(f, kids[m])][y]
                       ELSE Image(f, kids[CHOOSE k \in DOMAIN f : f[k] = y])]
  <2>1. /\ DOMAIN c0 = rest /\ \A y \in rest : c0[y] = class[y]
        /\ DOMAIN k0(f) = rest
        /\ \A y \in rest : k0(f)[y] = [kids EXCEPT ![n] = Image(f, kids[m])][y]
    BY DEF Keep
  <2> HIDE DEF c0, k0, rest, S
  <2> QED
    BY <2>1, <1>0
<1> HIDE DEF c0, k0
<1>2. made' = made + Cardinality(S) /\ class[n] = class[m]
  BY DEF AssignCopy, Assignable
<1>3. S = Under(alive, kids, m) \ {m} /\ Children(n) = Owned(kids, n)
  BY NameLemma
<1> HIDE DEF S
<1>4. Forest(alive, kids) /\ kids = [y \in alive |-> kids[y]]
  BY DEF IndInv, Forest
<1>5. /\ made \in Nat /\ alive \subseteq 1..made
      /\ class \in [alive -> ClassNames]
      /\ \A y \in alive : MemberCount(class[y]) <= Len(kids[y])
  BY DEF IndInv
<1>6. S \in SUBSET alive /\ m \notin S /\ IsClosed(kids, S) /\ Owned(kids, m) \subseteq S
  <2> DEFINE U == Under(alive, kids, m)
  <2>1. m \in U /\ U \subseteq alive /\ IsClosed(kids, U)
    BY <1>4, UnderLemma
  <2>2. \A k \in U : m \notin Owned(kids, k)
    BY <1>4, NotOwnedBelow
  <2> HIDE DEF U
  <2> QED
    BY <2>1, <2>2, <1>3 DEF IsClosed, U
<1>7. /\ Cardinality(S) \in Nat /\ DOMAIN f = S
      /\ \A k, l \in S : f[k] = f[l] => k = l
      /\ \A k \in S : /\ f[k] \notin alive /\ f[k] # Null
                     /\ f[k] \in 1..(made + Cardinality(S))
  BY <1>6, CopiesLemma
<1>8. \A k \in S : (CHOOSE l \in S : f[l] = f[k]) = k
  BY <1>7
<1>9. /\ n \in rest /\ rest \subseteq alive
      /\ \A y \in rest \ {n} : Owned(kids, y) \subseteq rest
  BY <1>3, StayLemma
<1> DEFINE F == Copied(f, S)
           A == alive \cup F
           K == [y \in A |-> IF y \in alive THEN kids[y]
                                          ELSE Image(f, kids[CHOOSE k \in S : f[k] = y])]
           B == rest \cup F
           w == Image(f, kids[m])
<1>10. \A y : y \in F <=> \E k \in S : y = f[k]
  BY DEF Copied
<1> HIDE DEF rest, F, w
<1>11. /\ \A y \in alive : K[y] = kids[y]
       /\ \A k \in S : K[f[k]] = Image(f, kids[k])
  BY <1>7, <1>8, <1>10
<1>12. /\ alive' = B
       /\ class' = [y \in B |-> IF y \in rest THEN class[y]
                                           ELSE class[CHOOSE k \in S : f[k] = y]]
       /\ kids' = [y \in B |-> IF y = n THEN w ELSE K[y]]
  <2>1. B = rest \cup {f[k] : k \in S} /\ n \notin F
    BY <1>7, <1>10
  <2>2. kids' = [y \in B |-> IF y \in rest THEN [kids EXCEPT ![n] = w][y]
                         ELSE Image(f, kids[CHOOSE k \in S : f[k] = y])]
    BY <2>1, <1>1, <1>7 DEF w
  <2>3. \A y \in rest : [kids EXCEPT ![n] = w][y] = IF y = n THEN w ELSE K[y]
    BY <1>4, <1>9, <1>11
  <2>4. \A y \in B : y \notin rest =>
          y # n /\ K[y] = Image(f, kids[CHOOSE k \in S : f[k] = y])
    BY <2>1, <1>7, <1>9, <1>10
  <2> HIDE DEF K
  <2>5. kids' = [y \in B |-> IF y = n THEN w ELSE K[y]]
    BY <2>2, <2>3, <2>4
  <2> QED
    BY <2>1, <2>5, <1>1, <1>7
<1>13. /\ \A y \in rest : class'[y] = class[y]
       /\ \A k \in S : class'[f[k]] = class[k]
  BY <1>7, <1>8, <1>9, <1>10, <1>12
<1>14. class' \in [alive' -> ClassNames]
  <2>1. \A y \in B : class'[y] \in ClassNames
    BY <1>5, <1>6, <1>9, <1>10, <1>13
  <2> QED
    BY <2>1, <1>12
<1>15. Doubled(alive, kids, S, f, K)
  <2>1. K = [y \in alive \cup Copied(f, S) |-> K[y]]
    BY DEF F
  <2> HIDE DEF K
  <2>2. Doubles(alive, kids, S, f, K)
    BY <2>1, <1>4, <1>6, <1>7, <1>11 DEF Doubles
  <2> QED
    BY <2>2, Duplicate
<1>16. /\ Forest(A, K)
       /\ \A y \in alive : Owned(K, y) = Owned(kids, y)
       /\ \A k \in S : /\ \A c : c \in Owned(K, f[k]) <=> \E e \in Owned(kids, k) : c = f[e]
                      /\ Len(K[f[k]]) = Len(kids[k])
  <2> HIDE DEF K
  <2>1. /\ Forest(A, K)
        /\ \A y \in alive : Owned(K, y) = Owned(kids, y)
        /\ \A k \in S : Owned(K, f[k]) = Copied(f, Owned(kids, k)) /\ Len(K[f[k]]) = Len(kids[k])
    BY <1>15 DEF Doubled, F
  <2>2. ASSUME NEW k \in S, NEW c
        PROVE  c \in Owned(K, f[k]) <=> \E e \in Owned(kids, k) : c = f[e]
    BY <2>1 DEF Copied
  <2> QED
    BY <2>1, <2>2
<1> HIDE DEF K
<1>17. IsClosed(K, F) /\ F \in SUBSET A
  BY <1>6, <1>10, <1>16 DEF IsClosed
<1> HIDE DEF A
<1>18. /\ w \in Seq(B \cup {Null}) /\ Len(w) = Len(kids[m])
       /\ \A i \in 1..Len(w) :
            /\ kids[m][i] = Null => w[i] = Null
            /\ kids[m][i] # Null => kids[m][i] \in Owned(kids, m) /\ w[i] = f[kids[m][i]]
  <2> DEFINE N == Len(kids[m])
  <2>1. N \in Nat /\ DOMAIN kids[m] = 1..N
    BY <1>4, SlotLemma, LenProperties
  <2>2. \A i \in 1..N : kids[m][i] # Null => kids[m][i] \in Owned(kids, m)
    BY DEF Owned
  <2>3. w = [i \in 1..N |-> IF kids[m][i] = Null THEN Null ELSE f[kids[m][i]]]
    BY <2>1 DEF w, Image
  <2> HIDE DEF N
  <2>4. w \in [1..N -> B \cup {Null}]
    BY <2>2, <2>3, <1>6, <1>10
  <2>5. w \in Seq(B \cup {Null}) /\ Len(w) = N
    BY <2>1, <2>4, SeqDef, LenProperties
  <2> QED
    BY <2>2, <2>3, <2>5 DEF N
<1>19. \A i, j \in 1..Len(w) : w[i] = w[j] /\ w[i] # Null => i = j
  <2> SUFFICES ASSUME NEW i \in 1..Len(w), NEW j \in 1..Len(w), w[i] = w[j], w[i] # Null
               PROVE  i = j
    OBVIOUS
  <2>1. kids[m][i] # Null /\ kids[m][j] # Null
    BY <1>18
  <2>2. kids[m][i] = kids[m][j]
    BY <2>1, <1>6, <1>7, <1>18
  <2> QED
    BY <2>1, <2>2, <1>4, <1>18 DEF Forest, OneSlot
<1>20. ASSUME NEW i \in 1..Len(w), w[i] # Null
       PROVE  /\ w[i] \in A
              /\ \A y \in B \ {n} : w[i] \notin Owned(K, y)
              /\ (n \in A /\ w[i] \in Owned(K, n)) \/ n \notin Under(A, K, w[i])
  <2>1. PICK c \in Owned(kids, m) : w[i] = f[c]
    BY <1>18, <1>20
  <2>2. c \in S /\ w[i] \in F /\ w[i] \in A /\ w[i] \notin alive
    BY <2>1, <1>6, <1>7, <1>10, <1>17
  <2>3. ASSUME NEW y \in rest
        PROVE  w[i] \notin Owned(K, y)
    <3>1. Owned(K, y) \subseteq alive
      BY <1>4, <1>9, <1>16, SlotLemma
    <3> QED
      BY <3>1, <2>2
  <2>4. ASSUME NEW k \in S, w[i] \in Owned(K, f[k])
        PROVE  FALSE
    <3>1. PICK e \in Owned(kids, k) : w[i] = f[e]
      BY <2>4, <1>16
    <3>2. e \in S
      BY <1>6 DEF IsClosed
    <3>3. c = e
      BY <3>1, <3>2, <2>1, <2>2, <1>7
    <3>4. k \in alive /\ c \in Owned(kids, k)
      BY <3>3, <1>6
    <3>5. k = m
      BY <3>4, <1>4, OwnerLemma
    <3> QED
      BY <3>5, <1>6
  <2>5. \A y \in B \ {n} : w[i] \notin Owned(K, y)
    BY <2>3, <2>4, <1>10
  <2>6. Under(A, K, w[i]) \subseteq F
    BY <2>2, <1>16, <1>17, UnderLemma
  <2>7. n \notin Under(A, K, w[i])
    BY <2>6, <1>7, <1>10
  <2> QED
    BY <2>2, <2>5, <2>7
<1>21. ASSUME NEW y \in B \ {n}
       PROVE  Owned(K, y) \subseteq B
  <2>1. CASE y \in rest
    BY <2>1, <1>9, <1>16
  <2>2. CASE y \in F
    BY <2>2, <1>17 DEF IsClosed
  <2> QED
    BY <2>1, <2>2
<1>22. B \in SUBSET (A \cup {n}) /\ n # Null
  BY <1>9, NameLemma DEF A
<1>23. ASSUME NEW y \in B
       PROVE  MemberCount(class'[y]) <= Len(kids'[y])
  <2>1. CASE y = n
    <3>1. class'[y] = class[m] /\ Len(kids'[y]) = Len(kids[m])
      BY <2>1, <1>2, <1>9, <1>12, <1>13, <1>18
    <3> QED
      BY <3>1, <1>5
  <2>2. CASE y # n /\ y \in rest
    <3>1. class'[y] = class[y] /\ kids'[y] = kids[y] /\ y \in alive
      BY <2>2, <1>9, <1>11, <1>12, <1>13
    <3> QED
      BY <3>1, <1>5
  <2>3. CASE y # n /\ y \in F
    <3>1. PICK k \in S : y = f[k]
      BY <2>3, <1>10
    <3>2. class'[y] = class[k] /\ Len(kids'[y]) = Len(kids[k]) /\ k \in alive
      BY <3>1, <2>3, <1>6, <1>12, <1>13, <1>16
    <3> QED
      BY <3>2, <1>5
  <2> QED
    BY <2>1, <2>2, <2>3
<1>24. made' \in Nat /\ B \subseteq 1..made'
  <2> DEFINE N == Cardinality(S)
  <2>1. N \in Nat /\ made' = made + N /\ \A k \in S : f[k] \in 1..(made + N)
    BY <1>2, <1>7
  <2> HIDE DEF N
  <2>2. alive \subseteq 1..(made + N) /\ made + N \in Nat
    BY <2>1, <1>5
  <2> QED
    BY <2>1, <2>2, <1>9, <1>10
<1> HIDE DEF B
<1>25. Forest(B, kids')
  BY <1>12, <1>16, <1>18, <1>19, <1>20, <1>21, <1>22, Replace
<1> QED
  BY <1>12, <1>14, <1>23, <1>24, <1>25 DEF IndInv

---------------------------------------------------------------------------
LEMMA InitLemma ==
  ASSUME Init
  PROVE  IndInv
<1>1. made = 0 /\ alive = {} /\ class = <<>> /\ kids = <<>>
  BY DEF Init
<1>2. class \in [alive -> ClassNames] /\ kids \in [alive -> Seq(alive \cup {Null})]
  BY <1>1
<1>3. OneSlot(alive, kids) /\ NoCircle(alive, kids)
  BY <1>1 DEF OneSlot, NoCircle
<1> QED
  BY <1>1, <1>2, <1>3 DEF IndInv, Forest

LEMMA StepLemma ==
  ASSUME IndInv, [Next]_vars
  PROVE  IndInv'
<1>1. CASE Build
  BY <1>1, ConstructStep, AddChildStep DEF Build
<1>2. CASE Edit
  <2>1. ASSUME NEW n \in alive, NEW j \in 1..MemberCount(class[n]),
               NEW k \in Loose \cup {Null}, SetChild(n, j, k)
        PROVE  IndInv'
    BY <2>1, SetChildStep
  <2>2. ASSUME NEW n \in alive, NEW i \in Slots(n), TakeChild(n, i)
        PROVE  IndInv'
    BY <2>2, TakeChildStep
  <2>3. ASSUME NEW n \in alive, RemoveNull(n) \/ TakeExpressions(n)
        PROVE  IndInv'
    BY <2>3, RemoveNullStep, TakeExpressionsStep
  <2>4. ASSUME NEW n \in alive, NEW ks \in Given(class[n]), SetExpressions(n, ks)
        PROVE  IndInv'
    BY <2>4, SetExpressionsStep
  <2>5. ASSUME NEW n \in Loose, Delete(n)
        PROVE  IndInv'
    BY <2>5, DeleteStep
  <2> QED
    BY <1>2, <2>1, <2>2, <2>3, <2>4, <2>5 DEF Edit
<1>3. CASE Copy
  <2>1. ASSUME NEW n \in alive, Clone(n) \/ MoveConstruct(n)
        PROVE  IndInv'
    BY <2>1, CloneStep, MoveConstructStep
  <2>2. ASSUME NEW n \in alive, NEW m \in alive, AssignMove(n, m) \/ AssignCopy(n, m)
        PROVE  IndInv'
    BY <2>2, AssignMoveStep, AssignCopyStep
  <2> QED
    BY <1>3, <2>1, <2>2 DEF Copy
<1>4. CASE UNCHANGED vars
  BY <1>4 DEF vars, IndInv, Forest, OneSlot, NoCircle, Owned
<1> QED
  BY <1>1, <1>2, <1>3, <1>4 DEF Next

\* Whatever sequence of the operations of the node classes is called, on however
\* many nodes: no node is in two slots, no slot of a node that exists holds one that
\* was deleted, and nodes never own each other in a circle.
THEOREM OwnershipIsForest == Spec => []OneOwner
<1>1. IndInv => OneOwner
  <2> SUFFICES ASSUME IndInv
               PROVE  OneOwner
    OBVIOUS
  <2>1. Forest(alive, kids) /\ \A n : Children(n) = Owned(kids, n)
    BY NameLemma DEF IndInv
  <2>2. \A n \in alive : Children(n) \subseteq alive
    BY <2>1, SlotLemma
  <2>3. \A n, m \in alive : \A i \in Slots(n), j \in Slots(m) :
          kids[n][i] = kids[m][j] /\ kids[n][i] # Null => n = m /\ i = j
    BY <2>1 DEF Forest, OneSlot, Slots
  <2>4. ASSUME NEW S \in SUBSET alive, S # {}
        PROVE  \E n \in S : \A m \in S : n \notin Children(m)
    <3>1. NoCircle(alive, kids)
      BY <2>1 DEF Forest
    <3>2. \E n \in S : \A m \in S : n \notin Owned(kids, m)
      BY <2>4, <3>1 DEF NoCircle
    <3> QED
      BY <3>2, <2>1
  <2>5. \A S \in (SUBSET alive) \ {{}} : \E n \in S : \A m \in S : n \notin Children(m)
    BY ONLY <2>4
  <2> QED
    BY ONLY <2>2, <2>3, <2>5 DEF OneOwner
<1> QED
  BY <1>1, InitLemma, StepLemma, PTL DEF Spec

---------------------------------------------------------------------------
(* The numbers of the nodes *)

\* g are numbers given so far, and only Assignments have one in common.
Numbers(g) ==
  /\ DOMAIN g = alive
  /\ \A n \in alive : g[n] \in 1..made
  /\ \A n, m \in alive : n # m /\ g[n] = g[m] =>
       class[n] = "Assignment" /\ class[m] = "Assignment"

\* Of the old nodes those of B stay, with the numbers g; those of F are new.
LEMMA NumbersStep ==
  ASSUME IndInv, NEW g, Numbers(g), NEW B \in SUBSET alive, NEW F,
         alive' = B \cup F, DOMAIN nodeId' = alive', made' \in Nat, made <= made',
         \A y \in B : class'[y] = class[y] /\ nodeId'[y] = g[y],
         \A y \in F : nodeId'[y] = y /\ y \in (made + 1)..made'
  PROVE  Numbers(nodeId)'
<1>1. made \in Nat
  BY DEF IndInv
<1>2. \A y \in B : g[y] \in 1..made
  BY DEF Numbers
<1>3. ASSUME NEW n \in alive'
      PROVE  nodeId'[n] \in 1..made'
  BY <1>1, <1>2
<1>4. ASSUME NEW n \in alive', NEW m \in alive', n # m, nodeId'[n] = nodeId'[m]
      PROVE  class'[n] = "Assignment" /\ class'[m] = "Assignment"
  <2>1. CASE n \in B /\ m \in B
    BY <2>1, <1>4 DEF Numbers
  <2>2. CASE n \in F /\ m \in F
    BY <2>2, <1>4
  <2>3. CASE n \in B /\ m \in F
    BY <2>3, <1>1, <1>2, <1>4
  <2>4. CASE n \in F /\ m \in B
    BY <2>4, <1>1, <1>2, <1>4
  <2> QED
    BY <2>1, <2>2, <2>3, <2>4
<1> QED
  BY <1>3, <1>4 DEF Numbers

\* No number is given or taken over.
LEMMA NumbersKept ==
  ASSUME IndInv, Numbers(nodeId), alive' \subseteq alive, made' = made,
         class' = Keep(class, alive'), nodeId' = Keep(nodeId, alive')
  PROVE  Numbers(nodeId)'
<1>1. /\ DOMAIN nodeId' = alive'
      /\ \A y \in alive' : class'[y] = class[y] /\ nodeId'[y] = nodeId[y]
  BY DEF Keep
<1> DEFINE F == {}
<1>2. made' \in Nat /\ made <= made' /\ alive' = alive' \cup F
  BY DEF IndInv
<1>3. \A y \in F : nodeId'[y] = y /\ y \in (made + 1)..made'
  OBVIOUS
<1> HIDE DEF F
<1> QED
  BY <1>1, <1>2, <1>3, NumbersStep

\* The base class is copied by the operators of Assignment only.
LEMMA BaseLemma ==
  ASSUME NEW c \in ClassNames, Class[c].copiesBase
  PROVE  c = "Assignment"
BY DEF Class, ClassNames, Expressions, Targets, Statements, Leaf, Literal, Variable,
   FunctionParameter, UnaryExpression, BinaryExpression, TernaryOperator, IndexAccess,
   OperatorExpression, ExpressionList, Call, VariableDeclaration, Return, If, For, Block,
   Function

LEMMA NumbersOfBase ==
  ASSUME IndInv, Numbers(nodeId), NEW n \in alive, NEW m \in alive, class[n] = class[m]
  PROVE  Numbers(Base(nodeId, n, m))
<1>1. class[n] \in ClassNames
  BY DEF IndInv
<1>2. CASE Class[class[n]].copiesBase
  <2>1. class[n] = "Assignment"
    BY <1>1, <1>2, BaseLemma
  <2>2. Base(nodeId, n, m) = [nodeId EXCEPT ![n] = nodeId[m]]
    BY <1>2 DEF Base
  <2> DEFINE g == [nodeId EXCEPT ![n] = nodeId[m]]
  <2>3. DOMAIN g = alive /\ \A y \in alive : g[y] = nodeId[IF y = n THEN m ELSE y]
    BY DEF Numbers
  <2> HIDE DEF g
  <2>4. \A y \in alive : g[y] \in 1..made
    BY <2>3 DEF Numbers
  <2>5. ASSUME NEW y \in alive, NEW z \in alive, y # z, g[y] = g[z]
        PROVE  class[y] = "Assignment" /\ class[z] = "Assignment"
    BY <2>1, <2>3, <2>5 DEF Numbers
  <2>6. Numbers(g)
    BY <2>3, <2>4, <2>5 DEF Numbers
  <2> QED
    BY <2>2, <2>6 DEF g
<1>3. CASE ~Class[class[n]].copiesBase
  BY <1>3 DEF Base
<1> QED
  BY <1>2, <1>3

LEMMA ConstructNumbers ==
  ASSUME IndInv, Numbers(nodeId), NEW c, DOMAIN class = alive,
         made' = NextNode, alive' = alive \cup {NextNode},
         class' = Extend(class, NextNode, c), nodeId' = Extend(nodeId, NextNode, NextNode)
  PROVE  Numbers(nodeId)'
<1>1. made \in Nat /\ made' = made + 1 /\ NextNode = made + 1 /\ NextNode \notin alive
  BY NameLemma DEF IndInv, NextNode
<1>2. DOMAIN nodeId = alive
  BY DEF Numbers
<1>3. /\ DOMAIN nodeId' = alive' /\ nodeId'[NextNode] = NextNode
      /\ \A y \in alive : class'[y] = class[y] /\ nodeId'[y] = nodeId[y]
  BY <1>1, <1>2 DEF Extend
<1> DEFINE F == {NextNode}
<1>4. \A y \in F : nodeId'[y] = y /\ y \in (made + 1)..made'
  BY <1>1, <1>3
<1>5. made' \in Nat /\ made <= made' /\ alive \in SUBSET alive /\ alive' = alive \cup F
  BY <1>1
<1> HIDE DEF F
<1> QED
  BY <1>3, <1>4, <1>5, NumbersStep

LEMMA CloneNumbers ==
  ASSUME IndInv, Numbers(nodeId), NEW n \in alive, Clone(n)
  PROVE  Numbers(nodeId)'
<1> DEFINE S == Below(n)
<1>1. PICK f \in Copies(S) :
        /\ made' = made + Cardinality(S)
        /\ alive' = alive \cup {f[m] : m \in S}
        /\ class' = [y \in DOMAIN class \cup {f[m] : m \in DOMAIN f} |->
             IF y \in DOMAIN class THEN class[y] ELSE class[CHOOSE m \in DOMAIN f : f[m] = y]]
        /\ nodeId' = [y \in DOMAIN nodeId \cup {f[m] : m \in DOMAIN f} |->
             IF y \in DOMAIN nodeId THEN nodeId[y] ELSE f[CHOOSE m \in DOMAIN f : f[m] = y]]
  BY DEF Clone, WithCopies
<1>2. S \in SUBSET alive
  BY DEF Below
<1> HIDE DEF S
<1>3. /\ Cardinality(S) \in Nat /\ DOMAIN f = S
      /\ \A k \in S : f[k] \notin alive /\ f[k] \in (made + 1)..(made + Cardinality(S))
  <2> DEFINE N == Cardinality(S)
  <2>1. f \in [S -> NextNode..(made + N)]
    BY DEF Copies
  <2> HIDE DEF N
  <2>2. \A k \in S : f[k] \in (made + 1)..(made + N)
    BY <2>1 DEF NextNode
  <2>3. N \in Nat /\ DOMAIN f = S /\ \A k \in S : f[k] \notin alive
    BY <1>2, CopiesLemma DEF N
  <2> QED
    BY <2>2, <2>3 DEF N
<1>4. DOMAIN class = alive /\ DOMAIN nodeId = alive /\ made \in Nat
  BY DEF IndInv, Numbers
<1> DEFINE F == {f[k] : k \in S}
<1>5. /\ DOMAIN nodeId' = alive'
      /\ \A y \in alive : class'[y] = class[y] /\ nodeId'[y] = nodeId[y]
  BY <1>1, <1>3, <1>4
<1>6. \A y \in F : nodeId'[y] = y
  <2> SUFFICES ASSUME NEW y \in F
               PROVE  nodeId'[y] = y
    OBVIOUS
  <2>1. nodeId'[y] = f[CHOOSE k \in S : f[k] = y]
    BY <1>1, <1>3, <1>4
  <2> QED
    BY <2>1
<1>7. made' \in Nat /\ made <= made' /\ alive' = alive \cup F
  BY <1>1, <1>3, <1>4
<1>8. \A y \in F : nodeId'[y] = y /\ y \in (made + 1)..made'
  <2>1. \A k \in S : f[k] \in (made + 1)..made'
    BY <1>1, <1>3
  <2> QED
    BY <2>1, <1>6
<1> HIDE DEF F
<1> QED
  BY <1>5, <1>7, <1>8, NumbersStep

LEMMA AssignCopyNumbers ==
  ASSUME IndInv, Numbers(nodeId), NEW n \in alive, NEW m \in alive, AssignCopy(n, m)
  PROVE  Numbers(nodeId)'
<1> DEFINE S == Below(m) \ {m}
           rest == Survivors(Children(n))
           g == Base(nodeId, n, m)
           c0 == Keep(class, rest)
           g0 == Keep(g, rest)
<1>1. PICK f \in Copies(S) :
        /\ alive' = rest \cup {f[k] : k \in S}
        /\ class' = [y \in DOMAIN c0 \cup {f[k] : k \in DOMAIN f} |->
             IF y \in DOMAIN c0 THEN c0[y] ELSE class[CHOOSE k \in DOMAIN f : f[k] = y]]
        /\ nodeId' = [y \in DOMAIN g0 \cup {f[k] : k \in DOMAIN f} |->
             IF y \in DOMAIN g0 THEN g0[y] ELSE f[CHOOSE k \in DOMAIN f : f[k] = y]]
  BY DEF AssignCopy, WithCopies
<1>2. made' = made + Cardinality(S) /\ class[n] = class[m]
  BY DEF AssignCopy, Assignable
<1>3. S \in SUBSET alive /\ rest \in SUBSET alive
  BY DEF Below, Survivors
<1>4. /\ DOMAIN c0 = rest /\ DOMAIN g0 = rest
      /\ \A y \in rest : c0[y] = class[y] /\ g0[y] = g[y]
  BY DEF Keep
<1>5. Numbers(g)
  BY <1>2, NumbersOfBase
<1> HIDE DEF S, rest, g, c0, g0
<1>6. /\ Cardinality(S) \in Nat /\ DOMAIN f = S
      /\ \A k \in S : f[k] \notin alive /\ f[k] \in (made + 1)..(made + Cardinality(S))
  <2> DEFINE N == Cardinality(S)
  <2>1. f \in [S -> NextNode..(made + N)]
    BY DEF Copies
  <2> HIDE DEF N
  <2>2. \A k \in S : f[k] \in (made + 1)..(made + N)
    BY <2>1 DEF NextNode
  <2>3. N \in Nat /\ DOMAIN f = S /\ \A k \in S : f[k] \notin alive
    BY <1>3, CopiesLemma DEF N
  <2> QED
    BY <2>2, <2>3 DEF N
<1>7. made \in Nat
  BY DEF IndInv
<1> DEFINE F == {f[k] : k \in S}
<1>8. /\ DOMAIN nodeId' = alive'
      /\ \A y \in rest : class'[y] = class[y] /\ nodeId'[y] = g[y]
  BY <1>1, <1>4, <1>6
<1>9. \A y \in F : nodeId'[y] = y
  <2> SUFFICES ASSUME NEW y \in F
               PROVE  nodeId'[y] = y
    OBVIOUS
  <2>1. nodeId'[y] = f[CHOOSE k \in S : f[k] = y]
    BY <1>1, <1>3, <1>4, <1>6
  <2> QED
    BY <2>1
<1>10. made' \in Nat /\ made <= made' /\ alive' = rest \cup F
  BY <1>1, <1>2, <1>6, <1>7
<1>11. \A y \in F : nodeId'[y] = y /\ y \in (made + 1)..made'
  <2>1. \A k \in S : f[k] \in (made + 1)..made'
    BY <1>2, <1>6
  <2> QED
    BY <2>1, <1>9
<1> HIDE DEF F
<1> QED
  BY <1>3, <1>5, <1>8, <1>10, <1>11, NumbersStep

LEMMA NumbersLemma ==
  ASSUME IndInv, Numbers(nodeId), [Next]_vars
  PROVE  Numbers(nodeId)'
<1>1. DOMAIN class = alive /\ class = [y \in alive |-> class[y]]
      /\ DOMAIN nodeId = alive
  BY DEF IndInv, Numbers
<1>2. ASSUME UNCHANGED <<made, alive, class, nodeId>>
      PROVE  Numbers(nodeId)'
  BY <1>2 DEF Numbers
<1>3. CASE Build
  <2>1. ASSUME NEW c, NEW ks, Construct(c, ks)
        PROVE  Numbers(nodeId)'
    BY <1>1, <2>1, ConstructNumbers DEF Construct
  <2>2. ASSUME NEW n, NEW k, AddChild(n, k)
        PROVE  Numbers(nodeId)'
    BY <2>2, <1>2 DEF AddChild
  <2> QED
    BY <1>3, <2>1, <2>2 DEF Build
<1>4. \A S : Survivors(S) \subseteq alive
  BY DEF Survivors
<1>5. CASE Edit
  <2>1. ASSUME NEW n, NEW j, NEW k, SetChild(n, j, k)
        PROVE  Numbers(nodeId)'
    BY <2>1, <1>4, NumbersKept DEF SetChild, KeepOnly
  <2>2. ASSUME NEW n, NEW i, TakeChild(n, i)
        PROVE  Numbers(nodeId)'
    BY <2>2, <1>2 DEF TakeChild
  <2>3. ASSUME NEW n, RemoveNull(n) \/ TakeExpressions(n)
        PROVE  Numbers(nodeId)'
    BY <2>3, <1>2 DEF RemoveNull, TakeExpressions
  <2>4. ASSUME NEW n, NEW ks, SetExpressions(n, ks)
        PROVE  Numbers(nodeId)'
    BY <2>4, <1>4, NumbersKept DEF SetExpressions, KeepOnly
  <2>5. ASSUME NEW n, Delete(n)
        PROVE  Numbers(nodeId)'
    BY <2>5, <1>4, NumbersKept DEF Delete, KeepOnly
  <2> QED
    BY <1>5, <2>1, <2>2, <2>3, <2>4, <2>5 DEF Edit
<1>6. CASE Copy
  <2>1. ASSUME NEW n \in alive, MoveConstruct(n)
        PROVE  Numbers(nodeId)'
    BY <1>1, <2>1, ConstructNumbers DEF MoveConstruct
  <2>2. ASSUME NEW n \in alive, NEW m \in alive, AssignMove(n, m)
        PROVE  Numbers(nodeId)'
    <3> DEFINE g == Base(nodeId, n, m)
               B == Survivors(Children(n))
    <3>1. /\ class[n] = class[m] /\ alive' = B /\ made' = made
          /\ class' = Keep(class, B) /\ nodeId' = Keep(g, B)
      BY <2>2 DEF AssignMove, Assignable, KeepOnly
    <3>2. Numbers(g) /\ B \in SUBSET alive
      BY <3>1, <1>4, NumbersOfBase
    <3> HIDE DEF g, B
    <3>3. /\ DOMAIN nodeId' = B
          /\ \A y \in B : class'[y] = class[y] /\ nodeId'[y] = g[y]
      BY <3>1 DEF Keep
    <3> DEFINE F == {}
    <3>4. made' \in Nat /\ made <= made' /\ alive' = B \cup F
      BY <3>1 DEF IndInv
    <3>5. \A y \in F : nodeId'[y] = y /\ y \in (made + 1)..made'
      OBVIOUS
    <3>6. DOMAIN nodeId' = alive'
      BY <3>1, <3>3
    <3> HIDE DEF F
    <3> QED
      BY <3>2, <3>3, <3>4, <3>5, <3>6, NumbersStep
  <2>3. ASSUME NEW n \in alive, Clone(n)
        PROVE  Numbers(nodeId)'
    BY <2>3, CloneNumbers
  <2>4. ASSUME NEW n \in alive, NEW m \in alive, AssignCopy(n, m)
        PROVE  Numbers(nodeId)'
    BY <2>4, AssignCopyNumbers
  <2> QED
    BY <1>6, <2>1, <2>2, <2>3, <2>4 DEF Copy
<1>7. CASE UNCHANGED vars
  BY <1>2, <1>7 DEF vars
<1> QED
  BY <1>3, <1>5, <1>6, <1>7 DEF Next

\* Whatever sequence of operations is called, getNodeId tells any two nodes apart but
\* for two Assignments, one of which was assigned to.
THEOREM OnlyAssignmentsShareIds == Spec => []SharedIdsAreAssignments
<1>1. Init => IndInv /\ Numbers(nodeId)
  <2>1. Init => Numbers(nodeId)
    BY DEF Init, Numbers
  <2> QED
    BY <2>1, InitLemma
<1>2. IndInv /\ Numbers(nodeId) /\ [Next]_vars => IndInv' /\ Numbers(nodeId)'
  BY StepLemma, NumbersLemma
<1>3. Numbers(nodeId) => SharedIdsAreAssignments
  BY DEF Numbers, SharedIdsAreAssignments
<1> QED
  BY <1>1, <1>2, <1>3, PTL DEF Spec

---------------------------------------------------------------------------
(* Parent pointers while a tree is built *)

LEMMA ConstructKeepsOwners ==
  ASSUME IndInv, ParentIsOwner, NEW c \in Classes, NEW ks \in Given(c), Construct(c, ks)
  PROVE  ParentIsOwner'
<1>1. /\ alive' = alive \cup {NextNode}
      /\ parent' = [n \in alive' |-> IF n = NextNode THEN Null ELSE AdoptedBy(c, ks, n)]
      /\ kids' = Extend(kids, NextNode, ks)
  BY DEF Construct
<1>2. DOMAIN kids = alive /\ NextNode \notin alive /\ Null \notin alive
  BY NameLemma DEF IndInv, Forest
<1>3. kids'[NextNode] = ks /\ \A n \in alive : kids'[n] = kids[n]
  BY <1>1, <1>2 DEF Extend
<1>4. DOMAIN ks = 1..Len(ks)
  <2>1. MemberCount(c) \in Nat
    BY ClassesAssumption, ClassLemma
  <2>2. PICK k \in SlotCounts(c, MaxSlots) : ks \in [1..k -> Loose \cup {Null}]
    BY DEF Given
  <2>3. k \in Nat
    BY <2>1, <2>2, BoundsAssumption DEF SlotCounts
  <2> QED
    BY <2>2, <2>3, SeqDef, LenProperties
<1> SUFFICES ASSUME NEW n \in alive', parent'[n] # Null
             PROVE  parent'[n] \in alive' /\ n \in Children(parent[n])'
  BY DEF ParentIsOwner
<1>5. n \in alive /\ n # Null /\ parent'[n] = AdoptedBy(c, ks, n)
  BY <1>1, <1>2
<1>6. CASE parent'[n] = parent[n]
  <2>1. parent[n] \in alive /\ n \in Children(parent[n])
    BY <1>5, <1>6 DEF ParentIsOwner
  <2> QED
    BY <2>1, <1>1, <1>3, <1>6 DEF Children, Slots
<1>7. CASE parent'[n] = NextNode /\ \E i \in DOMAIN ks : ks[i] = n
  BY <1>1, <1>3, <1>4, <1>5, <1>7 DEF Children, Slots
<1> QED
  BY <1>5, <1>6, <1>7 DEF AdoptedBy

LEMMA AddChildKeepsOwners ==
  ASSUME IndInv, ParentIsOwner, NEW n \in alive, NEW k, AddChild(n, k)
  PROVE  ParentIsOwner'
<1> DEFINE s == kids[n]
<1>1. /\ UNCHANGED <<alive, parent>>
      /\ \/ kids' = [kids EXCEPT ![n] = Append(s, k)]
         \/ kids' = [kids EXCEPT ![n] = <<k>> \o s]
  BY DEF AddChild
<1>2. Forest(alive, kids) /\ DOMAIN kids = alive
  BY DEF IndInv, Forest
<1>3. s \in Seq(alive \cup {Null}) /\ Len(s) \in Nat
  BY <1>2, SlotLemma
<1>4. ASSUME NEW m \in alive, NEW c \in Children(m)
      PROVE  c \in Children(m)'
  <2>1. CASE m # n
    BY <2>1, <1>1, <1>2 DEF Children, Slots
  <2>2. CASE m = n
    <3>1. PICK i \in 1..Len(s) : s[i] = c
      BY <2>2 DEF Children, Slots
    <3>2. c # Null
      BY DEF Children
    <3> DEFINE T == alive \cup {Null, k}
    <3>3. s \in Seq(T) /\ k \in T
      BY <1>3, SeqDef
    <3> HIDE DEF s, T
    <3>4. CASE kids' = [kids EXCEPT ![n] = Append(s, k)]
      <4>1. kids'[n] = Append(s, k)
        BY <3>4, <1>2
      <4>2. Append(s, k)[i] = c /\ i \in 1..Len(Append(s, k))
        BY <3>1, <3>3, <1>3, AppendProperties
      <4> QED
        BY <4>1, <4>2, <3>2, <2>2 DEF Children, Slots
    <3>5. CASE kids' = [kids EXCEPT ![n] = <<k>> \o s]
      <4> DEFINE w == <<k>> \o s
      <4>1. kids'[n] = w
        BY <3>5, <1>2
      <4>2. <<k>> \in Seq(T) /\ Len(<<k>>) = 1
        BY <3>3
      <4>3. /\ Len(w) = 1 + Len(s)
            /\ \A j \in 1..(1 + Len(s)) : w[j] = IF j <= 1 THEN <<k>>[j] ELSE s[j - 1]
        BY <4>2, <3>3, ConcatProperties
      <4> HIDE DEF w
      <4>4. i + 1 \in 1..Len(w) /\ w[i + 1] = c
        BY <4>3, <3>1, <1>3
      <4> QED
        BY <4>1, <4>4, <3>2, <2>2 DEF Children, Slots
    <3> QED
      BY <3>4, <3>5, <1>1 DEF s
  <2> QED
    BY <2>1, <2>2
<1> QED
  BY <1>1, <1>4 DEF ParentIsOwner

\* While nodes are only constructed and appended, as the parser does, however many and
\* of whatever classes, each parent pointer that is not null stays that of the owner.
THEOREM BuildingKeepsOwners == Spec => BuildKeepsOwners
<1>1. IndInv /\ [Next]_vars => [ParentIsOwner /\ ~ParentIsOwner' => ~Build]_vars
  <2> SUFFICES ASSUME IndInv, ParentIsOwner, Build
               PROVE  ParentIsOwner'
    OBVIOUS
  <2> QED
    BY ConstructKeepsOwners, AddChildKeepsOwners DEF Build
<1> QED
  BY <1>1, InitLemma, StepLemma, PTL DEF Spec, BuildKeepsOwners

---------------------------------------------------------------------------
(* Parent pointers under all operations *)

\* This step leaves the parent pointer of y, clears it, or makes it point to the owner;
\* that of an Assignment it may also set otherwise.
RightParent(y) ==
  LET old == IF y \in alive THEN parent[y] ELSE Null
      new == parent'[y]
  IN  new # old /\ new # Null =>
        \/ \E i \in DOMAIN kids'[new] : kids'[new][i] = y
        \/ y \in alive /\ class[y] = "Assignment"

RightParents == DOMAIN parent' = alive' /\ \A y \in alive' : RightParent(y)

\* The owner Owner chooses for a node below n is below n.
LEMMA ChosenOwner ==
  ASSUME IndInv, NEW n \in alive, NEW k \in Below(n), k # n
  PROVE  Owner(k) \in Below(n) /\ Owner(k) \in alive /\ k \in Children(Owner(k))
<1>1. Forest(alive, kids) /\ Below(n) = Under(alive, kids, n)
      /\ \A o : Children(o) = Owned(kids, o)
  BY NameLemma DEF IndInv
<1>2. PICK m \in Below(n) : k \in Children(m)
  BY <1>1, UnderHasOwner
<1>3. m \in alive
  BY <1>1, UnderLemma
<1>4. Owner(k) \in alive /\ k \in Children(Owner(k))
  BY <1>2, <1>3 DEF Owner
<1>5. Owner(k) = m
  BY <1>1, <1>2, <1>3, <1>4, OwnerLemma
<1> QED
  BY <1>2, <1>3, <1>4, <1>5

\* The copy of a child is in the copy of the slots.
LEMMA ImageLemma ==
  ASSUME IndInv, NEW f, NEW o \in alive, NEW k \in Children(o)
  PROVE  \E i \in DOMAIN Image(f, kids[o]) : Image(f, kids[o])[i] = f[k]
<1>1. kids[o] \in Seq(alive \cup {Null})
  BY SlotLemma DEF IndInv
<1>2. DOMAIN kids[o] = 1..Len(kids[o])
  BY <1>1, LenProperties
<1>3. PICK i \in DOMAIN kids[o] : kids[o][i] = k /\ k # Null
  BY <1>2 DEF Children, Slots
<1> QED
  BY <1>3 DEF Image

LEMMA ConstructParents ==
  ASSUME IndInv, DOMAIN parent = alive, NEW c, NEW ks, Construct(c, ks)
  PROVE  RightParents
<1>1. /\ alive' = alive \cup {NextNode}
      /\ parent' = [n \in alive' |-> IF n = NextNode THEN Null ELSE AdoptedBy(c, ks, n)]
      /\ kids' = Extend(kids, NextNode, ks)
  BY DEF Construct
<1>2. kids'[NextNode] = ks
  BY <1>1 DEF Extend
<1>3. \A y \in alive' : RightParent(y)
  BY <1>1, <1>2 DEF RightParent, AdoptedBy
<1> QED
  BY <1>1, <1>3 DEF RightParents

\* The nodes of B stay; the base of one is copied, if it is an Assignment.
LEMMA BaseOfParent ==
  ASSUME IndInv, DOMAIN parent = alive, NEW n \in alive, NEW m \in alive
  PROVE  /\ DOMAIN Base(parent, n, m) = alive
         /\ \A y \in alive : Base(parent, n, m)[y] # parent[y] => class[y] = "Assignment"
<1>1. class[n] \in ClassNames
  BY DEF IndInv
<1>2. CASE Class[class[n]].copiesBase
  <2>1. class[n] = "Assignment"
    BY <1>1, <1>2, BaseLemma
  <2>2. Base(parent, n, m) = [parent EXCEPT ![n] = parent[m]]
    BY <1>2 DEF Base
  <2> QED
    BY <2>1, <2>2
<1>3. CASE ~Class[class[n]].copiesBase
  BY <1>3 DEF Base
<1> QED
  BY <1>2, <1>3

LEMMA CloneParents ==
  ASSUME IndInv, DOMAIN parent = alive, NEW n \in alive, Clone(n)
  PROVE  RightParents
<1> DEFINE S == Below(n)
<1>1. PICK f \in Copies(S) :
        /\ alive' = alive \cup {f[m] : m \in S}
        /\ kids' = [y \in DOMAIN kids \cup {f[m] : m \in DOMAIN f} |->
             IF y \in DOMAIN kids THEN kids[y]
                                 ELSE Image(f, kids[CHOOSE m \in DOMAIN f : f[m] = y])]
        /\ parent' = [y \in DOMAIN parent \cup {f[m] : m \in DOMAIN f} |->
             IF y \in DOMAIN parent THEN parent[y]
             ELSE IF (CHOOSE m \in DOMAIN f : f[m] = y) = n THEN Null
                  ELSE f[Owner(CHOOSE m \in DOMAIN f : f[m] = y)]]
  BY DEF Clone, WithCopies, CopyParent
<1>2. S \in SUBSET alive
  BY DEF Below
<1> HIDE DEF S
<1>3. /\ DOMAIN f = S /\ DOMAIN kids = alive
      /\ \A k, l \in S : f[k] = f[l] => k = l
      /\ \A k \in S : f[k] \notin alive
  BY <1>2, CopiesLemma DEF IndInv, Forest
<1>4. \A k \in S : (CHOOSE l \in S : f[l] = f[k]) = k
  BY <1>3
<1>5. /\ \A y \in alive : parent'[y] = parent[y]
      /\ \A k \in S : /\ parent'[f[k]] = IF k = n THEN Null ELSE f[Owner(k)]
                      /\ kids'[f[k]] = Image(f, kids[k])
  BY <1>1, <1>3, <1>4
<1>6. ASSUME NEW y \in alive'
      PROVE  RightParent(y)
  <2>1. CASE y \in alive
    BY <2>1, <1>5 DEF RightParent
  <2>2. CASE y \notin alive
    <3>1. PICK k \in S : y = f[k]
      BY <2>2, <1>1
    <3>2. CASE k = n
      BY <2>2, <3>1, <3>2, <1>5 DEF RightParent
    <3>3. CASE k # n
      <4>1. Owner(k) \in S /\ Owner(k) \in alive /\ k \in Children(Owner(k))
        BY <3>3, ChosenOwner DEF S
      <4>2. parent'[y] = f[Owner(k)] /\ kids'[f[Owner(k)]] = Image(f, kids[Owner(k)])
        BY <3>1, <3>3, <4>1, <1>5
      <4>3. \E i \in DOMAIN Image(f, kids[Owner(k)]) : Image(f, kids[Owner(k)])[i] = y
        BY <3>1, <4>1, ImageLemma
      <4> QED
        BY <4>2, <4>3 DEF RightParent
    <3> QED
      BY <3>2, <3>3
  <2> QED
    BY <2>1, <2>2
<1>7. DOMAIN parent' = alive'
  BY <1>1, <1>3
<1> QED
  BY <1>6, <1>7 DEF RightParents

LEMMA AssignCopyParents ==
  ASSUME IndInv, DOMAIN parent = alive, NEW n \in alive, NEW m \in alive, AssignCopy(n, m)
  PROVE  RightParents
<1> DEFINE S == Below(m) \ {m}
           rest == Survivors(Children(n))
           p == Base(parent, n, m)
           p0 == Keep(p, rest)
           k0(f) == Keep([kids EXCEPT ![n] = Image(f, kids[m])], rest)
<1>1. PICK f \in Copies(S) :
        /\ alive' = rest \cup {f[k] : k \in S}
        /\ kids' = [y \in DOMAIN k0(f) \cup {f[k] : k \in DOMAIN f} |->
             IF y \in DOMAIN k0(f) THEN k0(f)[y]
                                  ELSE Image(f, kids[CHOOSE k \in DOMAIN f : f[k] = y])]
        /\ parent' = [y \in DOMAIN p0 \cup {f[k] : k \in DOMAIN f} |->
             IF y \in DOMAIN p0 THEN p0[y]
             ELSE IF (CHOOSE k \in DOMAIN f : f[k] = y) \in Children(m) THEN n
                  ELSE f[Owner(CHOOSE k \in DOMAIN f : f[k] = y)]]
  BY DEF AssignCopy, WithCopies, CopyParent
<1>2. S \in SUBSET alive
  BY DEF Below
<1>3. n \in rest /\ rest \subseteq alive
  BY NameLemma, StayLemma
<1>4. /\ DOMAIN p0 = rest /\ \A y \in rest : p0[y] = p[y]
      /\ DOMAIN k0(f) = rest
      /\ k0(f)[n] = [kids EXCEPT ![n] = Image(f, kids[m])][n]
  BY <1>3 DEF Keep
<1>5. \A y \in alive : p[y] # parent[y] => class[y] = "Assignment"
  BY BaseOfParent
<1>6. /\ DOMAIN f = S /\ DOMAIN kids = alive
      /\ \A k, l \in S : f[k] = f[l] => k = l
      /\ \A k \in S : f[k] \notin alive
  BY <1>2, CopiesLemma DEF IndInv, Forest
<1> HIDE DEF S, rest, p, p0, k0
<1>7. \A k \in S : (CHOOSE l \in S : f[l] = f[k]) = k
  BY <1>6
<1>8. /\ \A y \in rest : parent'[y] = p[y]
      /\ \A k \in S : /\ parent'[f[k]] = IF k \in Children(m) THEN n ELSE f[Owner(k)]
                      /\ kids'[f[k]] = Image(f, kids[k])
      /\ kids'[n] = Image(f, kids[m])
  BY <1>1, <1>3, <1>4, <1>6, <1>7
<1>9. ASSUME NEW y \in alive'
      PROVE  RightParent(y)
  <2>1. CASE y \in rest
    BY <2>1, <1>3, <1>5, <1>8 DEF RightParent
  <2>2. CASE y \notin rest
    <3>1. PICK k \in S : y = f[k]
      BY <2>2, <1>1
    <3>2. CASE k \in Children(m)
      <4>1. \E i \in DOMAIN Image(f, kids[m]) : Image(f, kids[m])[i] = y
        BY <3>1, <3>2, ImageLemma
      <4> QED
        BY <4>1, <3>1, <3>2, <1>8 DEF RightParent
    <3>3. CASE k \notin Children(m)
      <4>1. Owner(k) \in Below(m) /\ Owner(k) \in alive /\ k \in Children(Owner(k))
        BY ChosenOwner DEF S
      <4>2. Owner(k) \in S
        BY <3>3, <4>1 DEF S
      <4>3. parent'[y] = f[Owner(k)] /\ kids'[f[Owner(k)]] = Image(f, kids[Owner(k)])
        BY <3>1, <3>3, <4>2, <1>8
      <4>4. \E i \in DOMAIN Image(f, kids[Owner(k)]) : Image(f, kids[Owner(k)])[i] = y
        BY <3>1, <4>1, ImageLemma
      <4> QED
        BY <4>3, <4>4 DEF RightParent
    <3> QED
      BY <3>2, <3>3
  <2> QED
    BY <2>1, <2>2
<1>10. DOMAIN parent' = alive'
  BY <1>1, <1>4, <1>6
<1> QED
  BY <1>9, <1>10 DEF RightParents

LEMMA ParentsStep ==
  ASSUME IndInv, DOMAIN parent = alive, [Next]_vars
  PROVE  RightParents
<1>1. ASSUME UNCHANGED <<alive, parent>>
      PROVE  RightParents
  BY <1>1 DEF RightParents, RightParent
<1>2. ASSUME alive' \subseteq alive, parent' = Keep(parent, alive')
      PROVE  RightParents
  BY <1>2 DEF RightParents, RightParent, Keep
<1>3. \A S : Survivors(S) \subseteq alive
  BY DEF Survivors
<1>4. CASE Build
  <2>1. ASSUME NEW c, NEW ks, Construct(c, ks)
        PROVE  RightParents
    BY <2>1, ConstructParents
  <2>2. ASSUME NEW n, NEW k, AddChild(n, k)
        PROVE  RightParents
    BY <2>2, <1>1 DEF AddChild
  <2> QED
    BY <1>4, <2>1, <2>2 DEF Build
<1>5. CASE Edit
  <2>1. ASSUME NEW n, NEW j, NEW k, SetChild(n, j, k)
        PROVE  RightParents
    BY <2>1, <1>2, <1>3 DEF SetChild, KeepOnly
  <2>2. ASSUME NEW n, NEW i, TakeChild(n, i)
        PROVE  RightParents
    BY <2>2, <1>1 DEF TakeChild
  <2>3. ASSUME NEW n, RemoveNull(n) \/ TakeExpressions(n)
        PROVE  RightParents
    BY <2>3, <1>1 DEF RemoveNull, TakeExpressions
  <2>4. ASSUME NEW n, NEW ks, SetExpressions(n, ks)
        PROVE  RightParents
    BY <2>4, <1>2, <1>3 DEF SetExpressions, KeepOnly
  <2>5. ASSUME NEW n, Delete(n)
        PROVE  RightParents
    BY <2>5, <1>2, <1>3 DEF Delete, KeepOnly
  <2> QED
    BY <1>5, <2>1, <2>2, <2>3, <2>4, <2>5 DEF Edit
<1>6. CASE Copy
  <2>1. ASSUME NEW n \in alive, MoveConstruct(n)
        PROVE  RightParents
    <3>1. alive' = alive \cup {NextNode} /\ parent' = Extend(parent, NextNode, Null)
      BY <2>1 DEF MoveConstruct
    <3>2. /\ DOMAIN parent' = alive' /\ parent'[NextNode] = Null
          /\ \A y \in alive : y # NextNode => parent'[y] = parent[y]
      BY <3>1 DEF Extend
    <3>3. \A y \in alive' : RightParent(y)
      BY <3>1, <3>2 DEF RightParent
    <3> QED
      BY <3>2, <3>3 DEF RightParents
  <2>2. ASSUME NEW n \in alive, NEW m \in alive, AssignMove(n, m)
        PROVE  RightParents
    <3> DEFINE p == Base(parent, n, m)
    <3>1. alive' \subseteq alive /\ parent' = Keep(p, alive')
      BY <2>2, <1>3 DEF AssignMove, KeepOnly
    <3>2. \A y \in alive : p[y] # parent[y] => class[y] = "Assignment"
      BY BaseOfParent
    <3> HIDE DEF p
    <3>3. DOMAIN parent' = alive' /\ \A y \in alive' : parent'[y] = p[y]
      BY <3>1 DEF Keep
    <3>4. \A y \in alive' : RightParent(y)
      BY <3>1, <3>2, <3>3 DEF RightParent
    <3> QED
      BY <3>3, <3>4 DEF RightParents
  <2>3. ASSUME NEW n \in alive, Clone(n)
        PROVE  RightParents
    BY <2>3, CloneParents
  <2>4. ASSUME NEW n \in alive, NEW m \in alive, AssignCopy(n, m)
        PROVE  RightParents
    BY <2>4, AssignCopyParents
  <2> QED
    BY <1>6, <2>1, <2>2, <2>3, <2>4 DEF Copy
<1>7. CASE UNCHANGED vars
  BY <1>1, <1>7 DEF vars
<1> QED
  BY <1>4, <1>5, <1>6, <1>7 DEF Next

\* Whatever operation writes a parent pointer, on however many nodes, writes null or
\* the node that owns this one after the operation; the exception is an Assignment that
\* is assigned to, which takes over the pointer of another.
THEOREM ParentsAreWrittenRight == Spec => ParentsChangeToOwners
<1> DEFINE Pointers == DOMAIN parent = alive
<1>1. Init => IndInv /\ Pointers
  <2>1. Init => Pointers
    BY DEF Init
  <2> QED
    BY <2>1, InitLemma
<1>2. IndInv /\ Pointers /\ [Next]_vars => IndInv' /\ Pointers'
  BY StepLemma, ParentsStep DEF RightParents
<1>3. IndInv /\ Pointers /\ [Next]_vars =>
        [\A n \in alive' :
           LET old == IF n \in alive THEN parent[n] ELSE Null
               new == parent'[n]
           IN  new # old /\ new # Null =>
                 \/ \E i \in DOMAIN kids'[new] : kids'[new][i] = n
                 \/ n \in alive /\ class[n] = "Assignment"]_vars
  BY ParentsStep DEF RightParents, RightParent
<1> HIDE DEF Pointers
<1> QED
  BY <1>1, <1>2, <1>3, PTL DEF Spec, ParentsChangeToOwners
=============================================================================
