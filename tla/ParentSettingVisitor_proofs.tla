----------------------- MODULE ParentSettingVisitor_proofs -----------------------
(***************************************************************************)
(* The pass over trees of any size.                                        *)
(*                                                                         *)
(* The active visits are a path from the root, and the stack is that path  *)
(* without the Calls.  A node is pending while it, or a node around it, is *)
(* among the children some active loop has not reached.  The inductive     *)
(* invariant says of the pending nodes that their parent pointers are      *)
(* those they had before, and of all the others that they are set.         *)
(***************************************************************************)
EXTENDS ParentSettingVisitor, SequenceTheorems, FiniteSetTheorems, TLAPS

Frames == Seq([node : Nodes, rest : SUBSET Nodes])

\* The owners of a tree that is numbered from the root.
Owners == {o \in [Nodes -> Nodes \cup {Null}] :
             o[Root] = Null /\ \A n \in Nodes \ {Root} : o[n] \in Nodes /\ o[n] < n}

Kids(o, n) == {c \in Nodes : o[c] = n}
Closed(o, S) == \A m \in S \ {Root} : o[m] \in S
Out(o, n) == {a \in Nodes : \A S \in SUBSET Nodes : n \in S /\ Closed(o, S) => a \in S}
Adopts(o, k, a, n) == /\ a \in (Out(o, n) \ {n}) \ k
                      /\ \A b \in (Out(o, n) \ {n}) \ k : b <= a

\* The active visits are a path from the root.
Path(o, f) ==
  /\ \A i, j \in 1..Len(f) : i < j => f[i].node < f[j].node
  /\ \A i \in 1..Len(f) :
       /\ f[i].rest \subseteq Kids(o, f[i].node)
       /\ \A j \in 1..i : f[j].node \in Out(o, f[i].node)
       /\ i = 1 => f[i].node = Root
       /\ i > 1 => o[f[i].node] = f[i - 1].node /\ f[i].node \notin f[i - 1].rest

\* The stack is the path without the Calls k.
Over(s, f, k) == /\ {s[i] : i \in 1..Len(s)} = {f[i].node : i \in 1..Len(f)} \ k
                 /\ \A i, j \in 1..Len(s) : i < j => s[i] < s[j]

\* n is still to be visited.
Pending(o, f, n) == \E i \in 1..Len(f) : \E a \in f[i].rest : a \in Out(o, n)

Settled(o, k, p, n) == IF n \in k THEN p[n] \in {Null, o[n]} ELSE Adopts(o, k, p[n], n)

IndInv ==
  /\ TypeOK
  /\ owner \in Owners /\ Root \notin calls
  /\ Path(owner, frames)
  /\ Over(stack, frames, calls)
  /\ parent[Root] = Null
  /\ pc = "start" => frames = <<>> /\ \A n \in Nodes : parent[n] \in {Null, owner[n]}
  /\ pc = "walk" => frames # <<>>
  /\ pc = "done" => frames = <<>>
  /\ \A n \in Nodes \ {Root} : Pending(owner, frames, n) => parent[n] \in {Null, owner[n]}
  /\ pc # "start" =>
       \A n \in Nodes \ {Root} : ~Pending(owner, frames, n) => Settled(owner, calls, parent, n)
  /\ FailsOnlyOnArguments

---------------------------------------------------------------------------
(* Sequences *)

LEMMA AppendLemma ==
  ASSUME NEW S, NEW s \in Seq(S), NEW e \in S
  PROVE  /\ Append(s, e) \in Seq(S) /\ Len(Append(s, e)) = Len(s) + 1
         /\ \A i \in 1..Len(s) : Append(s, e)[i] = s[i]
         /\ Append(s, e)[Len(s) + 1] = e
OBVIOUS

\* The first k elements of a sequence.
LEMMA PrefixLemma ==
  ASSUME NEW S, NEW s \in Seq(S), NEW k \in Nat, k <= Len(s)
  PROVE  /\ SubSeq(s, 1, k) \in Seq(S)
         /\ Len(SubSeq(s, 1, k)) = k
         /\ \A i \in 1..k : SubSeq(s, 1, k)[i] = s[i]
<1>1. \A i \in 1..k : s[i] \in S
  BY ElementOfSeq, LenProperties
<1> QED
  BY <1>1, SubSeqProperties, LenProperties

LEMMA PopLemma ==
  ASSUME NEW S, NEW s \in Seq(S), s # <<>>
  PROVE  /\ Pop(s) \in Seq(S) /\ Len(Pop(s)) = Len(s) - 1
         /\ \A i \in 1..Len(s) - 1 : Pop(s)[i] = s[i]
         /\ Len(s) \in Nat \ {0} /\ Top(s) = s[Len(s)] /\ Top(s) \in S
<1>1. Len(s) \in Nat \ {0}
  BY EmptySeq
<1>2. \A i \in 1..Len(s) : s[i] \in S
  BY ElementOfSeq
<1>3. Len(s) - 1 \in Nat /\ Len(s) - 1 <= Len(s) /\ Len(s) \in 1..Len(s)
  BY <1>1
<1>4. Pop(s) \in Seq(S) /\ Len(Pop(s)) = Len(s) - 1 /\ \A i \in 1..Len(s) - 1 : Pop(s)[i] = s[i]
  BY <1>3, PrefixLemma DEF Pop
<1> QED
  BY <1>1, <1>2, <1>3, <1>4 DEF Top

LEMMA ElementLemma ==
  ASSUME NEW S, NEW s \in Seq(S)
  PROVE  Len(s) \in Nat /\ \A i \in 1..Len(s) : s[i] \in S
BY ElementOfSeq, LenProperties

LEMMA FrameLemma ==
  ASSUME NEW f \in Frames
  PROVE  /\ Len(f) \in Nat /\ (f # <<>> => Len(f) \in Nat \ {0})
         /\ \A i \in 1..Len(f) : f[i].node \in Nodes /\ f[i].rest \in SUBSET Nodes
<1>1. f \in Seq([node : Nodes, rest : SUBSET Nodes])
  BY DEF Frames
<1>2. Len(f) \in Nat /\ \A i \in 1..Len(f) : f[i] \in [node : Nodes, rest : SUBSET Nodes]
  BY <1>1, ElementLemma
<1>3. f # <<>> => Len(f) # 0
  BY <1>1, EmptySeq
<1> QED
  BY <1>2, <1>3

---------------------------------------------------------------------------
(* Trees *)

LEMMA RootLemma == Root \in Nodes /\ Null \notin Nodes /\ Nodes \subseteq Nat
BY NAssumption DEF Root, Null, Nodes

LEMMA OutSelf ==
  ASSUME NEW o \in Owners, NEW n \in Nodes
  PROVE  /\ n \in Out(o, n) /\ Out(o, n) \in SUBSET Nodes /\ Closed(o, Out(o, n))
         /\ \A S \in SUBSET Nodes : n \in S /\ Closed(o, S) => Out(o, n) \subseteq S
BY DEF Out, Closed, Owners

LEMMA OutTrans ==
  ASSUME NEW o \in Owners, NEW n \in Nodes, NEW a \in Out(o, n)
  PROVE  Out(o, a) \subseteq Out(o, n)
BY DEF Out

LEMMA OutOwner ==
  ASSUME NEW o \in Owners, NEW n \in Nodes \ {Root}
  PROVE  /\ Out(o, n) = {n} \cup Out(o, o[n])
         /\ o[n] \in Nodes
<1>1. o[n] \in Nodes
  BY DEF Owners
<1>2. Out(o, o[n]) \subseteq Out(o, n)
  BY OutSelf, OutTrans DEF Closed
<1> DEFINE S == {n} \cup Out(o, o[n])
<1>3. S \in SUBSET Nodes /\ n \in S /\ Closed(o, S)
  BY <1>1, OutSelf DEF Closed
<1>4. Out(o, n) \subseteq S
  BY <1>3, OutSelf
<1> QED
  BY <1>1, <1>2, <1>4, OutSelf

LEMMA OutBelow ==
  ASSUME NEW o \in Owners, NEW n \in Nodes, NEW a \in Out(o, n)
  PROVE  a <= n
<1> DEFINE S == {m \in Nodes : m <= n}
<1>1. S \in SUBSET Nodes /\ n \in S
  BY RootLemma
<1>2. Closed(o, S)
  <2> SUFFICES ASSUME NEW m \in Nodes, m <= n, m # Root
               PROVE  o[m] \in Nodes /\ o[m] <= n
    BY DEF Closed
  <2>1. o[m] \in Nodes /\ o[m] < m
    BY DEF Owners
  <2>2. o[m] \in Nat /\ m \in Nat /\ n \in Nat
    BY <2>1, RootLemma
  <2> QED
    BY <2>1, <2>2
<1> QED
  BY <1>1, <1>2, OutSelf

LEMMA OutRoot ==
  ASSUME NEW o \in Owners
  PROVE  Out(o, Root) = {Root}
<1>1. {Root} \in SUBSET Nodes /\ Closed(o, {Root})
  BY RootLemma DEF Closed
<1> QED
  BY <1>1, OutSelf, RootLemma

\* The way outwards from n to a comes through a child of a.
LEMMA OutChild ==
  ASSUME NEW o \in Owners, NEW n \in Nodes, NEW a \in Out(o, n), a # n
  PROVE  \E d \in Kids(o, a) : d \in Out(o, n)
<1> SUFFICES ASSUME \A d \in Kids(o, a) : d \notin Out(o, n)
             PROVE  FALSE
  OBVIOUS
<1> DEFINE S == Out(o, n) \ {a}
<1>1. S \in SUBSET Nodes /\ n \in S
  BY OutSelf
<1>2. Closed(o, S)
  BY OutSelf DEF Closed, Kids
<1>3. a \in S
  BY <1>1, <1>2, OutSelf
<1> QED
  BY <1>3

\* A set of nodes has a least element.
LEMMA LeastNode ==
  ASSUME NEW S \in SUBSET Nodes, S # {}
  PROVE  \E m \in S : \A l \in S : m <= l
<1> DEFINE Upto(m) == {l \in S : l <= m}
           T == {Upto(m) : m \in S}
           R == StrictSubsetOrdering(Nodes)
<1>1. T \subseteq FiniteSubsetsOf(Nodes) /\ T # {}
  <2>1. IsFiniteSet(Nodes)
    BY FS_Interval, NAssumption DEF Nodes
  <2>2. FiniteSubsetsOf(Nodes) = SUBSET Nodes
    BY <2>1, FS_FiniteSubsetsOfFinite
  <2>3. \A m \in S : Upto(m) \in SUBSET Nodes
    OBVIOUS
  <2>4. PICK m \in S : TRUE
    OBVIOUS
  <2>5. Upto(m) \in T
    BY <2>4
  <2> HIDE DEF Upto
  <2> QED
    BY <2>2, <2>3, <2>5
<1>2. PICK x \in T : \A y \in T : <<y, x>> \notin R
  <2>1. IsWellFoundedOn(R, FiniteSubsetsOf(Nodes))
    BY FS_StrictSubsetOrderingWellFounded
  <2> HIDE DEF T, R
  <2> QED
    BY <1>1, <2>1, WFMin
<1>3. PICK m \in S : x = Upto(m)
  BY <1>2
<1>4. ASSUME NEW l \in S, l < m
      PROVE  FALSE
  <2>1. Upto(l) \subseteq Upto(m) /\ m \in Upto(m) /\ m \notin Upto(l)
    <3>1. l \in Nat /\ m \in Nat /\ \A k \in S : k \in Nat
      BY RootLemma
    <3>2. \A k \in S : k <= l => k <= m
      BY <1>4, <3>1
    <3>3. m <= m /\ ~(m <= l)
      BY <1>4, <3>1
    <3> QED
      BY <3>2, <3>3
  <2>2. Upto(l) \in SUBSET Nodes /\ Upto(m) \in SUBSET Nodes /\ Upto(l) # Upto(m)
    BY <2>1
  <2>3. <<Upto(l), Upto(m)>> \in R
    BY <2>1, <2>2 DEF StrictSubsetOrdering
  <2> QED
    BY <2>3, <1>2, <1>3
<1> QED
  BY <1>4, RootLemma

\* The root is around every node.
LEMMA OutHasRoot ==
  ASSUME NEW o \in Owners, NEW n \in Nodes
  PROVE  Root \in Out(o, n)
<1>1. PICK m \in Out(o, n) : \A l \in Out(o, n) : m <= l
  BY LeastNode, OutSelf
<1>2. m = Root
  <2> SUFFICES ASSUME m # Root PROVE FALSE
    OBVIOUS
  <2>1. o[m] \in Out(o, n) /\ o[m] < m /\ o[m] \in Nodes /\ m \in Nodes
    BY OutSelf DEF Closed, Owners
  <2>2. o[m] \in Nat /\ m \in Nat /\ m <= o[m]
    BY <1>1, <2>1, RootLemma
  <2> QED
    BY <2>1, <2>2
<1> QED
  BY <1>2

---------------------------------------------------------------------------
(* The active visits *)

\* The path holds all nodes around its last one.
LEMMA PathLemma ==
  ASSUME NEW o \in Owners, NEW f \in Frames, Path(o, f), NEW i \in 1..Len(f)
  PROVE  Out(o, f[i].node) = {f[j].node : j \in 1..i}
<1> DEFINE S == {f[j].node : j \in 1..i}
<1>1. \A j \in 1..i : f[j].node \in Nodes /\ f[j].node \in Out(o, f[i].node)
  BY FrameLemma DEF Path
<1>2. Closed(o, S)
  <2> SUFFICES ASSUME NEW j \in 1..i, f[j].node # Root
               PROVE  o[f[j].node] \in S
    BY DEF Closed
  <2>1. j > 1 /\ o[f[j].node] = f[j - 1].node /\ j - 1 \in 1..i
    BY FrameLemma DEF Path
  <2> QED
    BY <2>1
<1>3. S \in SUBSET Nodes /\ f[i].node \in S
  BY <1>1
<1> QED
  BY <1>1, <1>2, <1>3, OutSelf

\* g is f with a visit of c entered from its last one.
Entered(o, f, g, c) ==
  /\ Len(g) = Len(f) + 1
  /\ \A i \in 1..Len(f) : g[i].node = f[i].node
  /\ \A i \in 1..Len(f) - 1 : g[i].rest = f[i].rest
  /\ g[Len(f)].rest = f[Len(f)].rest \ {c}
  /\ g[Len(f) + 1].node = c
  /\ g[Len(f) + 1].rest = Kids(o, c)

LEMMA ChildLemma ==
  ASSUME NEW o \in Owners, NEW f \in Frames, f # <<>>, Path(o, f), NEW c \in f[Len(f)].rest
  PROVE  /\ Len(f) \in Nat \ {0} /\ c \in Nodes \ {Root}
         /\ o[c] = f[Len(f)].node /\ o[c] < c /\ o[c] \in Nodes
         /\ \A i \in 1..Len(f) : f[i].node < c /\ f[i].node \in Nodes
         /\ Out(o, c) \ {c} = {f[i].node : i \in 1..Len(f)}
<1>1. Len(f) \in Nat \ {0} /\ \A i \in 1..Len(f) : f[i].node \in Nodes
  BY FrameLemma
<1>2. c \in Nodes /\ o[c] = f[Len(f)].node
  BY <1>1 DEF Path, Kids
<1>3. c # Root /\ o[c] < c /\ o[c] \in Nodes
  BY <1>1, <1>2, RootLemma DEF Owners
<1>4. \A i \in 1..Len(f) : f[i].node < c
  <2>1. \A i \in 1..Len(f) : i < Len(f) => f[i].node < f[Len(f)].node
    BY <1>1 DEF Path
  <2> QED
    BY <2>1, <1>1, <1>2, <1>3, RootLemma
<1>5. Out(o, c) = {c} \cup {f[i].node : i \in 1..Len(f)}
  BY <1>1, <1>2, <1>3, OutOwner, PathLemma
<1>6. c \notin {f[i].node : i \in 1..Len(f)}
  BY <1>4, <1>1, <1>2, RootLemma
<1> QED
  BY <1>1, <1>2, <1>3, <1>4, <1>5, <1>6

LEMMA EnterPath ==
  ASSUME NEW o \in Owners, NEW f \in Frames, f # <<>>, Path(o, f), NEW c \in f[Len(f)].rest,
         NEW g \in Frames, Entered(o, f, g, c)
  PROVE  Path(o, g)
<1> DEFINE L == Len(f)
<1>1. L \in Nat \ {0} /\ Len(g) = L + 1 /\ c \in Nodes \ {Root} /\ o[c] = f[L].node
  BY ChildLemma DEF Entered
<1>2. ASSUME NEW i \in 1..Len(g), NEW j \in 1..Len(g), i < j
      PROVE  g[i].node < g[j].node
  <2>1. CASE j = L + 1
    <3>1. i \in 1..L /\ g[j].node = c /\ g[i].node = f[i].node
      BY <2>1, <1>1, <1>2 DEF Entered
    <3>2. f[i].node < c
      BY <3>1, ChildLemma
    <3> QED
      BY <3>1, <3>2
  <2>2. CASE j # L + 1
    <3>1. /\ i \in 1..L /\ j \in 1..L
          /\ g[j].node = f[j].node /\ g[i].node = f[i].node
      BY <2>2, <1>1, <1>2 DEF Entered
    <3> QED
      BY <3>1, <1>2 DEF Path
  <2> QED
    BY <2>1, <2>2
<1>3. ASSUME NEW i \in 1..Len(g)
      PROVE  /\ g[i].rest \subseteq Kids(o, g[i].node)
             /\ \A j \in 1..i : g[j].node \in Out(o, g[i].node)
             /\ i = 1 => g[i].node = Root
             /\ i > 1 => o[g[i].node] = g[i - 1].node /\ g[i].node \notin g[i - 1].rest
  <2>1. CASE i = L + 1
    <3>1. g[i].node = c /\ g[i].rest = Kids(o, c) /\ i > 1
      BY <2>1, <1>1 DEF Entered
    <3>2. \A j \in 1..L : g[j].node \in Out(o, c)
      BY <1>1, ChildLemma DEF Entered
    <3>3. c \in Out(o, c)
      BY <1>1, OutSelf
    <3>4. \A j \in 1..i : j = i \/ j \in 1..L
      BY <2>1, <1>1
    <3>5. o[c] = g[L].node /\ c \notin g[L].rest /\ i - 1 = L
      BY <2>1, <1>1 DEF Entered
    <3> QED
      BY <3>1, <3>2, <3>3, <3>4, <3>5
  <2>2. CASE i \in 1..L
    <3>1. \A j \in 1..i : g[j].node = f[j].node
      BY <2>2, <1>1 DEF Entered
    <3>2. \A j \in 1..L : g[j].rest \subseteq f[j].rest
      <4> TAKE j \in 1..L
      <4>1. j = L \/ j \in 1..L - 1
        BY <1>1
      <4> QED
        BY <4>1 DEF Entered
    <3>3. i > 1 => i - 1 \in 1..L /\ i - 1 \in 1..i
      BY <2>2, <1>1
    <3>4. i \in 1..i
      BY <2>2
    <3> QED
      BY <2>2, <3>1, <3>2, <3>3, <3>4 DEF Path
  <2> QED
    BY <2>1, <2>2, <1>1
<1> QED
  BY <1>2, <1>3 DEF Path

\* What was pending is pending still, but for c.
LEMMA EnterPending ==
  ASSUME NEW o \in Owners, NEW f \in Frames, f # <<>>, Path(o, f), NEW c \in f[Len(f)].rest,
         NEW g \in Frames, Entered(o, f, g, c), NEW n \in Nodes
  PROVE  Pending(o, g, n) <=> Pending(o, f, n) /\ n # c
<1> DEFINE L == Len(f)
<1>1. L \in Nat \ {0} /\ Len(g) = L + 1 /\ c \in Nodes \ {Root} /\ o[c] = f[L].node
  BY ChildLemma DEF Entered
<1>2. \A i \in 1..L : g[i].rest = IF i = L THEN f[i].rest \ {c} ELSE f[i].rest
  <2> TAKE i \in 1..L
  <2>1. i = L \/ i \in 1..L - 1
    BY <1>1
  <2> QED
    BY <1>1, <2>1 DEF Entered
<1>3. ASSUME Pending(o, f, n), n # c
      PROVE  Pending(o, g, n)
  <2>1. PICK i \in 1..L : \E a \in f[i].rest : a \in Out(o, n)
    BY <1>3 DEF Pending
  <2>2. PICK a \in f[i].rest : a \in Out(o, n)
    BY <2>1
  <2>3. CASE a \in g[i].rest
    BY <2>2, <2>3, <1>1 DEF Pending
  <2>4. CASE a \notin g[i].rest
    <3>1. a = c
      BY <2>4, <1>2
    <3>2. PICK d \in Kids(o, c) : d \in Out(o, n)
      BY <3>1, <2>2, <1>3, OutChild
    <3>3. d \in g[L + 1].rest
      BY <3>2 DEF Entered
    <3> QED
      BY <3>2, <3>3, <1>1 DEF Pending
  <2> QED
    BY <2>3, <2>4
<1>4. ASSUME Pending(o, g, n)
      PROVE  Pending(o, f, n) /\ n # c
  <2>1. PICK i \in 1..L + 1 : \E a \in g[i].rest : a \in Out(o, n)
    BY <1>4, <1>1 DEF Pending
  <2>2. PICK a \in g[i].rest : a \in Out(o, n)
    BY <2>1
  <2>3. CASE i \in 1..L
    <3>1. a \in f[i].rest
      BY <2>2, <2>3, <1>2
    <3>2. a \in Nodes /\ o[a] = f[i].node
      BY <3>1, <2>3 DEF Path, Kids
    <3>3. n # c
      <4> SUFFICES ASSUME n = c PROVE FALSE
        OBVIOUS
      <4>1. CASE a = c
        <5>1. f[i].node = f[L].node /\ i # L /\ f[L].node \in Nat
          BY <4>1, <3>2, <1>1, <1>2, <2>2, <2>3, ChildLemma, RootLemma
        <5>2. f[i].node < f[L].node
          BY <5>1, <2>3, <1>1 DEF Path
        <5> QED
          BY <5>1, <5>2
      <4>2. CASE a # c
        <5>1. PICK j \in 1..L : a = f[j].node
          BY <4>2, <2>2, ChildLemma
        <5>2. j # 1
          <6> SUFFICES ASSUME j = 1 PROVE FALSE
            OBVIOUS
          <6>1. a = Root
            BY <5>1 DEF Path
          <6> QED
            BY <6>1, <3>2, <2>3, ChildLemma, RootLemma DEF Owners
        <5>3. j - 1 \in 1..L /\ o[a] = f[j - 1].node /\ a \notin f[j - 1].rest
          BY <5>1, <5>2 DEF Path
        <5>4. i # j - 1 /\ f[i].node = f[j - 1].node /\ f[i].node \in Nat
          BY <5>3, <3>1, <3>2, <2>3, FrameLemma, RootLemma
        <5>5. f[i].node < f[j - 1].node \/ f[j - 1].node < f[i].node
          BY <5>3, <5>4, <2>3 DEF Path
        <5> QED
          BY <5>4, <5>5
      <4> QED
        BY <4>1, <4>2
    <3> QED
      BY <2>2, <2>3, <3>1, <3>3 DEF Pending
  <2>4. CASE i = L + 1
    <3>1. a \in Nodes /\ o[a] = c
      BY <2>2, <2>4 DEF Entered, Kids
    <3>2. a # Root /\ c < a
      BY <3>1, <1>1, RootLemma DEF Owners
    <3>3. c \in Out(o, n)
      BY <3>1, <3>2, <2>2, OutOwner, OutSelf, OutTrans
    <3>4. a <= n /\ a # c
      BY <2>2, <3>1, <3>2, OutBelow, RootLemma
    <3>5. n # c
      BY <3>2, <3>4, <3>1, <1>1, RootLemma
    <3> QED
      BY <3>3, <3>5, <1>1 DEF Pending
  <2> QED
    BY <2>3, <2>4, <1>1
<1> QED
  BY <1>3, <1>4

\* h is f without its last visit, whose loop was done.
Left(f, h) == /\ Len(h) = Len(f) - 1 /\ \A i \in 1..Len(f) - 1 : h[i] = f[i]
              /\ f[Len(f)].rest = {}

LEMMA LeavePath ==
  ASSUME NEW o \in Owners, NEW f \in Frames, f # <<>>, Path(o, f), NEW h \in Frames, Left(f, h)
  PROVE  /\ Path(o, h)
         /\ \A n \in Nodes : Pending(o, h, n) <=> Pending(o, f, n)
<1>1. Len(f) \in Nat \ {0} /\ Len(h) = Len(f) - 1 /\ \A i \in 1..Len(h) : h[i] = f[i]
  BY DEF Frames, Left
<1>2. 1..Len(h) \subseteq 1..Len(f)
  BY <1>1
<1>3. \A i \in 1..Len(h) : 1..i \subseteq 1..Len(h) /\ (i > 1 => i - 1 \in 1..Len(h))
  BY <1>1
<1>4. Path(o, h)
  BY <1>1, <1>2, <1>3 DEF Path
<1>5. \A i \in 1..Len(f) : i \in 1..Len(h) \/ i = Len(f)
  BY <1>1
<1>6. f[Len(f)].rest = {}
  BY DEF Left
<1>7. \A n \in Nodes : Pending(o, h, n) <=> Pending(o, f, n)
  BY <1>1, <1>2, <1>5, <1>6 DEF Pending
<1> QED
  BY <1>4, <1>7

---------------------------------------------------------------------------
(* The stack *)

\* The top of the stack is the nearest ancestor that is not a Call, and the owner
\* unless that is one.
LEMMA TopLemma ==
  ASSUME NEW o \in Owners, NEW f \in Frames, f # <<>>, Path(o, f), NEW c \in f[Len(f)].rest,
         NEW k \in SUBSET Nodes, Root \notin k, NEW s \in Seq(Nodes), Over(s, f, k)
  PROVE  /\ s # <<>> /\ Top(s) \in Nodes
         /\ Adopts(o, k, Top(s), c)
         /\ o[c] \notin k => Top(s) = o[c]
<1> DEFINE A == {f[i].node : i \in 1..Len(f)} \ k
<1>1. Len(f) \in Nat \ {0} /\ o[c] = f[Len(f)].node /\ Out(o, c) \ {c} = {f[i].node : i \in 1..Len(f)}
  BY ChildLemma
<1>2. A = {s[i] : i \in 1..Len(s)}
  BY DEF Over
<1>3. Root \in A
  <2>1. 1 \in 1..Len(f) /\ f[1].node = Root
    BY <1>1 DEF Path
  <2> QED
    BY <2>1
<1>4. s # <<>>
  BY <1>2, <1>3
<1>5. Len(s) \in Nat \ {0} /\ Top(s) = s[Len(s)] /\ Top(s) \in Nodes
  BY <1>4, PopLemma
<1>6. \A i \in 1..Len(s) : s[i] \in Nodes /\ s[i] <= Top(s)
  <2> TAKE i \in 1..Len(s)
  <2>1. i = Len(s) \/ s[i] < s[Len(s)]
    BY <1>5 DEF Over
  <2>2. s[i] \in Nat /\ s[i] \in Nodes /\ Top(s) \in Nat
    BY <1>5, ElementLemma, RootLemma
  <2> QED
    BY <1>5, <2>1, <2>2
<1>7. Top(s) \in A /\ \A b \in A : b <= Top(s)
  <2>1. Len(s) \in 1..Len(s)
    BY <1>5
  <2> HIDE DEF A
  <2> QED
    BY <1>2, <1>5, <1>6, <2>1
<1>8. Adopts(o, k, Top(s), c)
  BY <1>1, <1>7 DEF Adopts
<1>9. ASSUME o[c] \notin k
      PROVE  Top(s) = o[c]
  <2>1. o[c] \in A
    BY <1>1, <1>9
  <2>2. \A b \in A : b <= o[c]
    <3> SUFFICES ASSUME NEW i \in 1..Len(f) PROVE f[i].node <= f[Len(f)].node
      BY <1>1
    <3>1. i = Len(f) \/ f[i].node < f[Len(f)].node
      BY <1>1 DEF Path
    <3>2. f[i].node \in Nat /\ f[Len(f)].node \in Nat
      <4>1. Len(f) \in 1..Len(f)
        BY <1>1
      <4> QED
        BY <4>1, FrameLemma, RootLemma
    <3> QED
      BY <3>1, <3>2
  <2>3. o[c] <= Top(s) /\ Top(s) <= o[c]
    BY <2>1, <2>2, <1>7
  <2>4. o[c] \in Nat /\ Top(s) \in Nat
    BY <1>5, ChildLemma, RootLemma
  <2> QED
    BY <2>3, <2>4
<1> QED
  BY <1>4, <1>5, <1>8, <1>9

LEMMA PushOver ==
  ASSUME NEW o \in Owners, NEW f \in Frames, f # <<>>, Path(o, f), NEW c \in f[Len(f)].rest,
         NEW g \in Frames, Entered(o, f, g, c),
         NEW k \in SUBSET Nodes, NEW s \in Seq(Nodes), Over(s, f, k)
  PROVE  IF c \in k THEN Over(s, g, k) ELSE Over(Append(s, c), g, k)
<1> DEFINE A == {f[i].node : i \in 1..Len(f)}
           B == {g[i].node : i \in 1..Len(g)}
<1>1. Len(f) \in Nat \ {0} /\ c \in Nodes /\ \A i \in 1..Len(f) : f[i].node < c
  BY ChildLemma
<1>2. B = A \cup {c}
  <2> DEFINE n == Len(f)
  <2>1. /\ Len(g) = n + 1 /\ g[n + 1].node = c
        /\ \A i \in 1..n : g[i].node = f[i].node
    BY <1>1 DEF Entered
  <2> HIDE DEF n
  <2>2. 1..Len(g) = 1..n \cup {n + 1}
    BY <2>1, <1>1 DEF n
  <2>3. B = {g[i].node : i \in 1..n} \cup {g[n + 1].node}
    BY <2>2
  <2>4. A = {g[i].node : i \in 1..n}
    BY <2>1 DEF n
  <2> QED
    BY <2>1, <2>3, <2>4
<1>3. CASE c \in k
  BY <1>2, <1>3 DEF Over
<1>4. CASE c \notin k
  <2> DEFINE t == Append(s, c)
  <2>1. Len(s) \in Nat /\ Len(t) = Len(s) + 1 /\ t[Len(s) + 1] = c
        /\ \A i \in 1..Len(s) : t[i] = s[i] /\ s[i] < c
    <3>1. \A i \in 1..Len(s) : s[i] \in A
      BY DEF Over
    <3> QED
      BY <3>1, <1>1, AppendLemma, ElementLemma
  <2>2. {t[i] : i \in 1..Len(t)} = {s[i] : i \in 1..Len(s)} \cup {c}
    <3>1. 1..Len(t) = 1..Len(s) \cup {Len(s) + 1}
      BY <2>1
    <3> HIDE DEF t
    <3> QED
      BY <3>1, <2>1
  <2>3. ASSUME NEW i \in 1..Len(t), NEW j \in 1..Len(t), i < j
        PROVE  t[i] < t[j]
    <3>1. i \in 1..Len(s) /\ (j \in 1..Len(s) \/ j = Len(s) + 1)
      BY <2>1, <2>3
    <3> HIDE DEF t
    <3> QED
      BY <3>1, <2>1, <2>3 DEF Over
  <2> HIDE DEF t
  <2>4. {t[i] : i \in 1..Len(t)} = B \ k
    BY <2>2, <1>2, <1>4 DEF Over
  <2>5. Over(t, g, k)
    BY <2>3, <2>4 DEF Over
  <2> QED
    BY <2>5, <1>4 DEF t
<1> QED
  BY <1>3, <1>4

LEMMA PopOver ==
  ASSUME NEW o \in Owners, NEW f \in Frames, f # <<>>, Path(o, f), NEW h \in Frames, Left(f, h),
         NEW k \in SUBSET Nodes, NEW s \in Seq(Nodes), Over(s, f, k)
  PROVE  IF f[Len(f)].node \in k THEN Over(s, h, k) ELSE s # <<>> /\ Over(Pop(s), h, k)
<1> DEFINE A == {f[i].node : i \in 1..Len(f)}
           B == {h[i].node : i \in 1..Len(h)}
           t == f[Len(f)].node
<1>1. Len(f) \in Nat \ {0} /\ Len(h) = Len(f) - 1 /\ \A i \in 1..Len(h) : h[i] = f[i]
  BY FrameLemma DEF Left
<1>2. A = B \cup {t}
  <2>1. 1..Len(f) = 1..Len(h) \cup {Len(f)}
    BY <1>1
  <2> QED
    BY <2>1, <1>1
<1>3. \A b \in B : b < t /\ b \in Nat
  <2> SUFFICES ASSUME NEW i \in 1..Len(h) PROVE f[i].node < t /\ f[i].node \in Nat
    BY <1>1
  <2>1. i \in 1..Len(f) /\ Len(f) \in 1..Len(f) /\ i < Len(f)
    BY <1>1
  <2>2. f[i].node < t
    BY <2>1 DEF Path
  <2> QED
    BY <2>1, <2>2, FrameLemma, RootLemma
<1>4. t \in Nat
  <2>1. Len(f) \in 1..Len(f)
    BY <1>1
  <2> QED
    BY <2>1, FrameLemma, RootLemma
<1>5. t \notin B
  BY <1>3, <1>4
<1>8. {s[j] : j \in 1..Len(s)} = A \ k
  BY DEF Over
<1> HIDE DEF t, A, B
<1>6. CASE t \in k
  <2>1. {s[j] : j \in 1..Len(s)} = B \ k
    BY <1>2, <1>6, <1>8
  <2> QED
    BY <2>1, <1>6 DEF Over, B, t
<1>7. CASE t \notin k
  <2>1. PICK i \in 1..Len(s) : s[i] = t
    BY <1>2, <1>7, <1>8
  <2>2. s # <<>> /\ Len(s) \in Nat \ {0} /\ \A j \in 1..Len(s) : s[j] \in B \cup {t}
    <3>1. Len(s) # 0 /\ Len(s) \in Nat
      BY <2>1, ElementLemma
    <3> QED
      BY <3>1, <1>2, <1>8
  <2>3. i = Len(s)
    <3> SUFFICES ASSUME i # Len(s) PROVE FALSE
      OBVIOUS
    <3>1. i < Len(s) /\ Len(s) \in 1..Len(s)
      BY <2>2
    <3>2. t < s[Len(s)]
      BY <3>1, <2>1 DEF Over
    <3> QED
      BY <3>1, <3>2, <2>2, <1>3, <1>4
  <2> DEFINE q == Pop(s)
  <2>4. Len(q) = Len(s) - 1 /\ \A j \in 1..Len(s) - 1 : q[j] = s[j]
    BY <2>2, PopLemma
  <2>5. \A j \in 1..Len(q) : s[j] # t /\ j \in 1..Len(s)
    <3> SUFFICES ASSUME NEW j \in 1..Len(q) PROVE s[j] # t /\ j \in 1..Len(s)
      OBVIOUS
    <3>1. j \in 1..Len(s) /\ j < i
      BY <2>2, <2>3, <2>4
    <3>2. s[j] < t
      BY <3>1, <2>1 DEF Over
    <3> QED
      BY <3>1, <3>2, <1>4
  <2>6. {q[j] : j \in 1..Len(q)} = {s[j] : j \in 1..Len(s)} \ {t}
    <3>1. \A j \in 1..Len(s) : j \in 1..Len(q) \/ s[j] = t
      BY <2>1, <2>2, <2>3, <2>4
    <3> HIDE DEF q
    <3> QED
      BY <3>1, <2>4, <2>5
  <2> HIDE DEF q
  <2>7. {q[j] : j \in 1..Len(q)} = B \ k
    BY <2>6, <1>2, <1>5, <1>8
  <2>8. \A j, l \in 1..Len(q) : j < l => q[j] < q[l]
    BY <2>4, <2>5 DEF Over
  <2>9. Over(q, h, k)
    BY <2>7, <2>8 DEF Over, B
  <2> QED
    BY <2>2, <2>9, <1>7 DEF q, t
<1> QED
  BY <1>6, <1>7 DEF t

---------------------------------------------------------------------------
(* Steps *)

LEMMA TypeLemma ==
  ASSUME IndInv
  PROVE  /\ owner \in Owners /\ owner \in [Nodes -> Nodes \cup {Null}]
         /\ frames \in Frames /\ frames \in Seq([node : Nodes, rest : SUBSET Nodes])
         /\ stack \in Seq(Nodes) /\ calls \in SUBSET Nodes /\ Root \notin calls
         /\ parent \in [Nodes -> Nodes \cup {Null}]
         /\ Path(owner, frames) /\ Over(stack, frames, calls)
BY DEF IndInv, TypeOK, Frames

\* The child that is visited next.
LEMMA FollowingLemma ==
  ASSUME IndInv, HasNext
  PROVE  /\ frames # <<>> /\ Len(frames) \in Nat \ {0} /\ Top(frames) = frames[Len(frames)]
         /\ Following \in frames[Len(frames)].rest
         /\ Following \in Nodes \ {Root}
         /\ Pending(owner, frames, Following)
         /\ parent[Following] \in {Null, owner[Following]}
<1>1. frames # <<>> /\ Len(frames) \in Nat \ {0} /\ Len(frames) \in 1..Len(frames)
      /\ Top(frames) = frames[Len(frames)] /\ Top(frames).rest # {}
  BY TypeLemma, FrameLemma DEF HasNext, Top
<1>2. Top(frames).rest \in SUBSET Nodes
  BY <1>1, TypeLemma, FrameLemma
<1>3. \E c \in Top(frames).rest : \A d \in Top(frames).rest : c <= d
  BY <1>1, <1>2, LeastNode
<1>4. Following \in Top(frames).rest
  BY <1>3 DEF Following
<1>5. Following \in Nodes \ {Root}
  BY <1>1, <1>4, TypeLemma, ChildLemma
<1>6. Pending(owner, frames, Following)
  <2>1. Following \in Out(owner, Following)
    BY <1>5, TypeLemma, OutSelf
  <2> QED
    BY <2>1, <1>1, <1>4 DEF Pending
<1>7. parent[Following] \in {Null, owner[Following]}
  BY <1>5, <1>6 DEF IndInv
<1> QED
  BY <1>1, <1>4, <1>5, <1>6, <1>7

LEMMA EnterLemma ==
  ASSUME IndInv, frames # <<>>, NEW c \in frames[Len(frames)].rest, Enter(c)
  PROVE  /\ frames' \in Frames /\ frames' # <<>>
         /\ Entered(owner, frames, frames', c)
<1> DEFINE L == Len(frames)
           past == [frames EXCEPT ![L].rest = @ \ {c}]
           visit == [node |-> c, rest |-> Kids(owner, c)]
           E == [node : Nodes, rest : SUBSET Nodes]
<1>1. L \in Nat \ {0} /\ c \in Nodes /\ L \in 1..L
  BY TypeLemma, ChildLemma
<1>2. visit \in E
  BY <1>1 DEF Kids
<1>3. frames \in Seq(E) /\ \A i \in 1..L : frames[i] \in E
  BY TypeLemma, ElementLemma
<1>4. frames' = Append(past, visit)
  BY DEF Enter, Children, Kids
<1>5. [frames[L] EXCEPT !.rest = @ \ {c}] \in E
  BY <1>1, <1>3
<1>6. past = [frames EXCEPT ![L] = [frames[L] EXCEPT !.rest = @ \ {c}]]
  OBVIOUS
<1>7. past \in Seq(E) /\ Len(past) = L
  BY <1>1, <1>3, <1>5, <1>6, ExceptSeq
<1>8. /\ \A i \in 1..L : i # L => past[i] = frames[i]
      /\ past[L].node = frames[L].node /\ past[L].rest = frames[L].rest \ {c}
  BY <1>1, <1>3, <1>6, ExceptSeq
<1> HIDE DEF past, visit, E
<1>9. /\ frames' \in Seq(E) /\ Len(frames') = L + 1
      /\ \A i \in 1..L : frames'[i] = past[i]
      /\ frames'[L + 1] = visit
  BY <1>2, <1>4, <1>7, AppendLemma
<1>10. frames' # <<>>
  BY <1>1, <1>9
<1>11. Entered(owner, frames, frames', c)
  BY <1>1, <1>8, <1>9 DEF Entered, visit
<1> QED
  BY <1>9, <1>10, <1>11 DEF Frames, E

LEMMA StartStep ==
  ASSUME IndInv, Start
  PROVE  IndInv'
<1> DEFINE visit == [node |-> Root, rest |-> Kids(owner, Root)]
<1>1. frames = <<>> /\ \A n \in Nodes : parent[n] \in {Null, owner[n]}
  BY DEF IndInv, Start
<1>2. frames' = <<visit>> /\ stack' = <<Root>> /\ pc' = "walk" /\ UNCHANGED <<owner, calls, parent>>
  BY <1>1 DEF Start, Enter, Children, Kids, tree
<1>3. frames' \in Frames /\ Len(frames') = 1 /\ frames'[1] = visit /\ frames' # <<>>
  BY <1>2, RootLemma DEF Frames, Kids
<1>4. TypeOK'
  BY <1>2, <1>3, TypeLemma, RootLemma DEF TypeOK, Frames
<1>5. Path(owner, frames')
  BY <1>3, RootLemma, OutSelf, TypeLemma DEF Path
<1>6. Over(stack', frames', calls)
  BY <1>2, <1>3, TypeLemma DEF Over
<1>7. ASSUME NEW n \in Nodes \ {Root}
      PROVE  Pending(owner, frames', n)
  <2>1. PICK d \in Kids(owner, Root) : d \in Out(owner, n)
    BY <1>7, TypeLemma, OutHasRoot, OutChild
  <2> QED
    BY <2>1, <1>3 DEF Pending
<1> QED
  BY <1>1, <1>2, <1>3, <1>4, <1>5, <1>6, <1>7, TypeLemma DEF IndInv, FailsOnlyOnArguments

\* The parents of the nodes the step leaves alone are what they were.
LEMMA SettledLemma ==
  ASSUME NEW o \in Owners, NEW k \in SUBSET Nodes, NEW p \in [Nodes -> Nodes \cup {Null}],
         NEW n \in Nodes, Settled(o, k, p, n), NEW c \in Nodes, c # n, NEW a
  PROVE  Settled(o, k, [p EXCEPT ![c] = a], n)
BY DEF Settled

LEMMA VisitStep ==
  ASSUME IndInv, VisitNode
  PROVE  IndInv'
<1> DEFINE c == Following
           f == frames
           g == frames'
<1>1. /\ f # <<>> /\ c \in f[Len(f)].rest /\ c \in Nodes \ {Root} /\ c \notin calls
      /\ parent' = [parent EXCEPT ![c] = Top(stack)] /\ stack' = Append(stack, c)
      /\ Enter(c) /\ pc = "walk" /\ UNCHANGED <<owner, calls, pc>>
  BY FollowingLemma DEF VisitNode, tree
<1> HIDE DEF c
<1>2. g \in Frames /\ g # <<>> /\ Entered(owner, f, g, c)
  BY <1>1, EnterLemma
<1>3. Path(owner, g) /\ \A n \in Nodes : Pending(owner, g, n) <=> Pending(owner, f, n) /\ n # c
  BY <1>1, <1>2, TypeLemma, EnterPath, EnterPending
<1>4. Over(stack', g, calls)
  BY <1>1, <1>2, TypeLemma, PushOver
<1>5. Top(stack) \in Nodes /\ Adopts(owner, calls, Top(stack), c)
  BY <1>1, TypeLemma, TopLemma
<1>6. stack' \in Seq(Nodes) /\ parent' \in [Nodes -> Nodes \cup {Null}]
  BY <1>1, <1>5, TypeLemma, AppendLemma
<1>7. TypeOK'
  BY <1>1, <1>2, <1>6 DEF IndInv, TypeOK, Frames
<1>8. parent'[Root] = Null
  BY <1>1, TypeLemma, RootLemma DEF IndInv
<1>9. ASSUME NEW n \in Nodes \ {Root}, Pending(owner, g, n)
      PROVE  parent'[n] \in {Null, owner[n]}
  <2>1. Pending(owner, f, n) /\ n # c
    BY <1>3, <1>9
  <2> QED
    BY <2>1, <1>1, TypeLemma DEF IndInv
<1>10. ASSUME NEW n \in Nodes \ {Root}, ~Pending(owner, g, n)
       PROVE  Settled(owner, calls, parent', n)
  <2>1. CASE n = c
    <3>1. parent'[c] = Top(stack)
      BY <1>1, TypeLemma
    <3> QED
      BY <2>1, <3>1, <1>1, <1>5 DEF Settled
  <2>2. CASE n # c
    <3>1. Settled(owner, calls, parent, n)
      BY <2>2, <1>1, <1>3, <1>10 DEF IndInv
    <3> QED
      BY <2>2, <3>1, <1>1, TypeLemma, SettledLemma
  <2> QED
    BY <2>1, <2>2
<1>11. owner' = owner /\ calls' = calls /\ pc' = "walk"
  BY <1>1
<1> QED
  BY <1>2, <1>3, <1>4, <1>7, <1>8, <1>9, <1>10, <1>11, TypeLemma DEF IndInv, FailsOnlyOnArguments

\* The pass fails: the owner of the node is a Call, or else it is the top of the stack.
LEMMA MismatchStep ==
  ASSUME IndInv, Mismatch
  PROVE  IndInv'
<1> DEFINE c == Following
<1>1. /\ frames # <<>> /\ c \in frames[Len(frames)].rest /\ c \in Nodes \ {Root}
      /\ parent[c] \in {Null, owner[c]} /\ parent[c] \notin {Null, Top(stack)}
      /\ pc = "walk" /\ pc' = "threw" /\ UNCHANGED <<owner, calls, parent, stack, frames>>
  BY FollowingLemma DEF Mismatch, tree
<1> HIDE DEF c
<1>2. owner[c] \in calls
  BY <1>1, TypeLemma, TopLemma
<1>3. FailsOnlyOnArguments'
  BY <1>1, <1>2 DEF FailsOnlyOnArguments
<1> QED
  BY <1>1, <1>3 DEF IndInv, TypeOK

LEMMA CallStep ==
  ASSUME IndInv, VisitCall
  PROVE  IndInv'
<1> DEFINE c == Following
           f == frames
           g == frames'
<1>1. /\ f # <<>> /\ c \in f[Len(f)].rest /\ c \in Nodes \ {Root} /\ c \in calls
      /\ parent[c] \in {Null, owner[c]}
      /\ Enter(c) /\ pc = "walk" /\ UNCHANGED <<owner, calls, parent, stack, pc>>
  BY FollowingLemma DEF VisitCall, tree
<1> HIDE DEF c
<1>2. g \in Frames /\ g # <<>> /\ Entered(owner, f, g, c)
  BY <1>1, EnterLemma
<1>3. Path(owner, g) /\ \A n \in Nodes : Pending(owner, g, n) <=> Pending(owner, f, n) /\ n # c
  BY <1>1, <1>2, TypeLemma, EnterPath, EnterPending
<1>4. Over(stack', g, calls)
  BY <1>1, <1>2, TypeLemma, PushOver
<1>5. TypeOK'
  BY <1>1, <1>2 DEF IndInv, TypeOK, Frames
<1>6. \A n \in Nodes \ {Root} : ~Pending(owner, g, n) => Settled(owner, calls, parent, n)
  <2> TAKE n \in Nodes \ {Root}
  <2>1. CASE n = c
    BY <2>1, <1>1 DEF Settled
  <2>2. CASE n # c
    BY <2>2, <1>1, <1>3 DEF IndInv
  <2> QED
    BY <2>1, <2>2
<1>7. \A n \in Nodes \ {Root} : Pending(owner, g, n) => parent[n] \in {Null, owner[n]}
  BY <1>3 DEF IndInv
<1>8. owner' = owner /\ calls' = calls /\ parent' = parent /\ pc' = "walk"
  BY <1>1
<1> QED
  BY <1>2, <1>3, <1>4, <1>5, <1>6, <1>7, <1>8 DEF IndInv, FailsOnlyOnArguments

LEMMA LeaveStep ==
  ASSUME IndInv, Leave
  PROVE  IndInv'
<1> DEFINE f == frames
           h == frames'
<1>1. /\ f # <<>> /\ h = Pop(f) /\ pc = "walk" /\ pc' = IF Len(f) = 1 THEN "done" ELSE "walk"
      /\ UNCHANGED <<owner, calls, parent>> /\ Top(f).rest = {}
      /\ stack' = IF Top(f).node \in calls THEN stack ELSE Pop(stack)
  BY DEF Leave, HasNext, tree
<1>2. /\ h \in Frames /\ Len(f) \in Nat \ {0} /\ Top(f) = f[Len(f)] /\ Left(f, h)
      /\ h \in Seq([node : Nodes, rest : SUBSET Nodes])
  BY <1>1, TypeLemma, PopLemma DEF Frames, Left
<1>3. Path(owner, h) /\ \A n \in Nodes : Pending(owner, h, n) <=> Pending(owner, f, n)
  BY <1>1, <1>2, TypeLemma, LeavePath
<1>4. IF f[Len(f)].node \in calls THEN Over(stack, h, calls)
      ELSE stack # <<>> /\ Over(Pop(stack), h, calls)
  BY <1>1, <1>2, TypeLemma, PopOver
<1>5. Over(stack', h, calls) /\ stack' \in Seq(Nodes)
  BY <1>1, <1>2, <1>4, TypeLemma, PopLemma
<1>6. h = <<>> <=> Len(f) = 1
  BY <1>2, EmptySeq DEF Left
<1>7. TypeOK'
  BY <1>1, <1>2, <1>5 DEF IndInv, TypeOK
<1>8. owner' = owner /\ calls' = calls /\ parent' = parent /\ pc' \in {"walk", "done"}
  BY <1>1
<1>9. (pc' = "walk" => h # <<>>) /\ (pc' = "done" => h = <<>>)
  BY <1>1, <1>6
<1> QED
  BY <1>1, <1>3, <1>5, <1>7, <1>8, <1>9 DEF IndInv, FailsOnlyOnArguments

LEMMA Invariance == IndInv /\ [Next]_vars => IndInv'
<1> SUFFICES ASSUME IndInv, [Next]_vars PROVE IndInv'
  OBVIOUS
<1>1. CASE UNCHANGED vars
  BY <1>1 DEF vars, IndInv, TypeOK, FailsOnlyOnArguments
<1> QED
  BY <1>1, StartStep, VisitStep, MismatchStep, CallStep, LeaveStep DEF Next, Finished

LEMMA InitLemma == Init => IndInv
<1> SUFFICES ASSUME Init PROVE IndInv
  OBVIOUS
<1>1. owner \in Owners
  <2>1. \A n \in Nodes \ {Root} : owner[n] \in Nodes /\ owner[n] < n
    BY NAssumption DEF Init, Nodes
  <2> QED
    BY <2>1, RootLemma DEF Init, Owners
<1>2. TypeOK
  BY DEF Init, TypeOK
<1>3. Path(owner, frames) /\ Over(stack, frames, calls)
      /\ \A n \in Nodes : ~Pending(owner, frames, n)
  BY DEF Init, Path, Over, Pending
<1>4. parent[Root] = Null
  BY RootLemma DEF Init
<1> QED
  BY <1>1, <1>2, <1>3, <1>4, RootLemma DEF Init, IndInv, FailsOnlyOnArguments

LEMMA Inductive == Spec => []IndInv
BY InitLemma, Invariance, PTL DEF Spec

---------------------------------------------------------------------------
\* In a tree of any size the stack and the active visits refer to its nodes.
THEOREM TypeCorrect == Spec => []TypeOK
<1>1. IndInv => TypeOK
  BY DEF IndInv
<1> QED
  BY <1>1, Inductive, PTL

\* The stack of ancestors is pushed and popped in step with the visits, whichever
\* nodes are Calls (SpecialParentSettingVisitor::stack).
THEOREM StackFollowsVisits == Spec => []StackIsPath
<1>1. ASSUME IndInv PROVE StackIsPath
  <2>1. DOMAIN stack = 1..Len(stack) /\ DOMAIN frames = 1..Len(frames)
    BY <1>1, TypeLemma DEF Frames
  <2> QED
    BY <1>1, <2>1, TypeLemma DEF StackIsPath, Over, Active, Elements, Rises
<1> QED
  BY <1>1, Inductive, PTL

\* The owner of a node, unless it is a Call, is its nearest ancestor that is not one.
LEMMA AdopterIsOwner ==
  ASSUME NEW o \in Owners, NEW k, NEW n \in Nodes \ {Root}, NEW a,
         o[n] \notin k, Adopts(o, k, a, n)
  PROVE  a = o[n]
<1>1. o[n] \in Nodes /\ o[n] < n /\ n \in Nat /\ o[n] \in Nat
  BY RootLemma DEF Owners
<1>2. Out(o, n) = {n} \cup Out(o, o[n])
  BY OutOwner
<1>3. o[n] \in (Out(o, n) \ {n}) \ k
  BY <1>1, <1>2, OutSelf
<1>4. o[n] <= a
  BY <1>3 DEF Adopts
<1>5. a \in Out(o, o[n])
  BY <1>2 DEF Adopts
<1>6. a <= o[n]
  BY <1>1, <1>5, OutBelow
<1>7. a \in Nat
  BY <1>1, <1>5, OutSelf, RootLemma
<1> QED
  BY <1>1, <1>4, <1>6, <1>7

\* After the pass every node points to its owner, and a Call or an argument of a Call
\* to an ancestor if to anything, in trees of any size.
THEOREM ParentsAreSet == Spec => []ParentsAfterWalk
<1>1. ASSUME IndInv, pc = "done"
      PROVE  /\ \A n \in Nodes \ (calls \cup {Root}) :
                  owner[n] \notin calls => parent[n] = owner[n]
             /\ \A n \in Nodes : parent[n] # Null => parent[n] \in Outwards(n) \ {n}
  <2>1. \A n \in Nodes : ~Pending(owner, frames, n)
    BY <1>1 DEF IndInv, Pending
  <2>2. /\ owner \in Owners /\ parent[Root] = Null
        /\ \A n \in Nodes \ {Root} : Settled(owner, calls, parent, n)
    BY <1>1, <2>1 DEF IndInv
  <2>3. \A n \in Nodes : Outwards(n) = Out(owner, n)
    BY DEF Outwards, Out, Closed
  <2>4. \A n \in Nodes \ (calls \cup {Root}) :
          owner[n] \notin calls => parent[n] = owner[n]
    BY <2>2, AdopterIsOwner DEF Settled
  <2>5. ASSUME NEW n \in Nodes, parent[n] # Null
        PROVE  parent[n] \in Out(owner, n) \ {n}
    <3>1. n # Root
      BY <2>2, <2>5
    <3>2. CASE n \in calls
      <4>1. parent[n] = owner[n]
        BY <2>2, <2>5, <3>1, <3>2 DEF Settled
      <4>2. owner[n] \in Nodes /\ owner[n] < n /\ n \in Nat
        BY <2>2, <3>1, RootLemma DEF Owners
      <4>3. owner[n] \in Nat /\ owner[n] # n
        <5>1. owner[n] \in Nat
          BY <4>2, RootLemma
        <5> QED
          BY <4>2, <5>1
      <4>4. owner[n] \in Out(owner, owner[n])
        BY <2>2, <4>2, OutSelf
      <4>5. Out(owner, n) = {n} \cup Out(owner, owner[n])
        BY <2>2, <3>1, OutOwner
      <4> QED
        BY <4>1, <4>3, <4>4, <4>5
    <3>3. CASE n \notin calls
      BY <2>2, <3>1, <3>3 DEF Settled, Adopts
    <3> QED
      BY <3>2, <3>3
  <2> QED
    BY <2>3, <2>4, <2>5
<1>2. IndInv => ParentsAfterWalk
  BY <1>1 DEF ParentsAfterWalk
<1> QED
  BY <1>2, Inductive, PTL

\* "Original parent and parent we would set do not match" is thrown only on account
\* of an argument of a Call whose parent was set before the pass.
THEOREM FailureHasReason == Spec => []FailsOnlyOnArguments
<1>1. IndInv => FailsOnlyOnArguments
  BY DEF IndInv
<1> QED
  BY <1>1, Inductive, PTL

\* No step of the pass replaces a parent pointer that is set.
THEOREM ParentsStay == Spec => ParentsAreKept
<1>1. ASSUME IndInv, [Next]_vars
      PROVE  [\A n \in Nodes : parent[n] # Null => parent'[n] = parent[n]]_vars
  <2>1. CASE VisitNode
    <3>1. parent \in [Nodes -> Nodes \cup {Null}]
      BY <1>1, TypeLemma
    <3> QED
      BY <2>1, <3>1 DEF VisitNode
  <2> QED
    BY <1>1, <2>1 DEF Next, Start, Mismatch, VisitCall, Leave, Finished, vars
<1>2. IndInv /\ [Next]_vars => [\A n \in Nodes : parent[n] # Null => parent'[n] = parent[n]]_vars
  BY <1>1
<1> QED
  BY <1>2, Inductive, PTL DEF Spec, ParentsAreKept
=============================================================================
