--------------------------- MODULE ScopedVisitor_proofs ---------------------------
(***************************************************************************)
(* For every tree of openers, any number of walks and visits that throw:   *)
(* the scopes are trees, those of the open nodes lie inside one another,   *)
(* the scope objects implement the lexical scopes, and a name resolves to  *)
(* the innermost open node that declares it in the first walk.             *)
(*                                                                         *)
(* Besides the three parts of the type invariant and the properties the    *)
(* inductive invariant says that there is a root scope during a walk: a    *)
(* nested visit never opens a new root.  That a name resolves to a node    *)
(* rests on FirstWalk: the scopes lie inside one another as their openers  *)
(* do, each opener with one scope.                                         *)
(*                                                                         *)
(* The last part is about VariableMap, whose identifiers are names in such *)
(* scopes.  For all Scopes, names, values and maps: the entries that are   *)
(* marked can be read, every change is marked, and what has() said stays   *)
(* true.  Its inductive invariant speaks of one map at a time: its entries *)
(* f, its marks c, its baseline b and what was checked, h.  Besides the    *)
(* three properties it says that no two entries are of one identifier.     *)
(***************************************************************************)
EXTENDS ScopedVisitor, VariableMap, SequenceTheorems, WellFoundedInduction, TLAPS

IndInv == /\ TypeOK
          /\ ScopesFormTree
          /\ PathIsInnermost
          /\ path # <<>> => root # Null

\* The scopes o of the nodes p that are open.
Chain(s, p, c, o) ==
  /\ o \in [1..Len(p) -> 1..Len(s)]
  /\ p # <<>> => o[Len(p)] = c
  /\ \A i \in 1..Len(p) : s[o[i]].astNode = p[i]
  /\ \A i \in 2..Len(p) : s[o[i]].parent = o[i - 1]

\* The names declared in the scopes of each opener.
Declared(s) == [n \in Openers |->
  UNION {s[i].identifiers : i \in {t \in 1..Len(s) : s[t].astNode = n}}]

---------------------------------------------------------------------------
(* Sequences *)

LEMMA ElementLemma ==
  ASSUME NEW S, NEW s \in Seq(S)
  PROVE  Len(s) \in Nat /\ (s # <<>> => Len(s) \in Nat \ {0}) /\ \A i \in 1..Len(s) : s[i] \in S
<1>1. Len(s) \in Nat /\ \A i \in 1..Len(s) : s[i] \in S
  BY ElementOfSeq, LenProperties
<1>2. s # <<>> => Len(s) # 0
  BY EmptySeq
<1> QED
  BY <1>1, <1>2

LEMMA AppendLemma ==
  ASSUME NEW S, NEW s \in Seq(S), NEW e \in S
  PROVE  /\ Append(s, e) \in Seq(S) /\ Len(Append(s, e)) = Len(s) + 1
         /\ \A i \in 1..Len(s) : Append(s, e)[i] = s[i]
         /\ Append(s, e)[Len(s) + 1] = e
         /\ Append(s, e) # <<>>
<1>1. Len(Append(s, e)) = Len(s) + 1 /\ Len(s) \in Nat
  BY LenProperties
<1>2. Append(s, e) # <<>>
  BY <1>1, EmptySeq
<1> QED
  BY <1>1, <1>2

\* The first k elements of a sequence.
LEMMA PrefixLemma ==
  ASSUME NEW S, NEW s \in Seq(S), NEW k \in Nat, k <= Len(s)
  PROVE  /\ SubSeq(s, 1, k) \in Seq(S)
         /\ Len(SubSeq(s, 1, k)) = k
         /\ \A i \in 1..k : SubSeq(s, 1, k)[i] = s[i]
<1>1. \A i \in 1..k : s[i] \in S
  BY ElementOfSeq, LenProperties
<1> QED
  BY <1>1, SubSeqProperties, LenProperties

LEMMA PopLemma ==
  ASSUME NEW S, NEW s \in Seq(S), s # <<>>
  PROVE  /\ SubSeq(s, 1, Len(s) - 1) \in Seq(S)
         /\ Len(SubSeq(s, 1, Len(s) - 1)) = Len(s) - 1
         /\ \A i \in 1..Len(s) - 1 : SubSeq(s, 1, Len(s) - 1)[i] = s[i]
<1>1. Len(s) \in Nat \ {0}
  BY ElementLemma
<1>2. Len(s) - 1 \in Nat /\ Len(s) - 1 <= Len(s)
  BY <1>1
<1> QED
  BY <1>2, PrefixLemma

---------------------------------------------------------------------------
(* Entering a scope *)

LEMMA TypeLemma ==
  ASSUME IndInv
  PROVE  /\ scopes \in Seq(Scope) /\ Len(scopes) \in Nat /\ ScopeIds = 1..Len(scopes)
         /\ \A s \in ScopeIds : /\ scopes[s] \in Scope /\ scopes[s].astNode \in Openers
                                /\ scopes[s].parent \in Nat /\ scopes[s].parent < s
                                /\ scopes[s].identifiers \in SUBSET Ids
         /\ root \in {Null} \cup ScopeIds /\ current \in {Null} \cup ScopeIds
         /\ path \in Seq(Openers) /\ walks \in 0..MaxWalks
<1>1. scopes \in Seq(Scope) /\ ScopeIds = 1..Len(scopes)
  BY DEF IndInv, TypeOK, ScopeIds
<1>2. Len(scopes) \in Nat /\ \A s \in ScopeIds : scopes[s] \in Scope
  BY <1>1, ElementLemma
<1> QED
  BY <1>1, <1>2 DEF IndInv, TypeOK, ScopesFormTree, Scope

\* A scope that is added in p, where n has none, or as a root.
LEMMA AddLemma ==
  ASSUME IndInv, NEW n \in Openers, NEW p \in {Null} \cup ScopeIds,
         p # Null => NestedBy(p, n) = {},
         scopes' = NewScope(n, p)
  PROVE  /\ scopes' \in Seq(Scope) /\ Len(scopes') = Len(scopes) + 1
         /\ \A s \in ScopeIds : scopes'[s] = scopes[s]
         /\ scopes'[Len(scopes) + 1] = [astNode |-> n, parent |-> p, identifiers |-> {}]
         /\ ScopesFormTree'
         /\ Declared(scopes') = Declared(scopes)
<1> DEFINE new == [astNode |-> n, parent |-> p, identifiers |-> {}]
           L == Len(scopes)
<1>1. new \in Scope /\ p \in Nat
  BY TypeLemma DEF Scope, Null
<1>2. /\ scopes' \in Seq(Scope) /\ Len(scopes') = L + 1
      /\ \A s \in ScopeIds : scopes'[s] = scopes[s]
      /\ scopes'[L + 1] = new
  BY <1>1, TypeLemma, AppendLemma DEF NewScope
<1>3. L \in Nat /\ ScopeIds' = 1..(L + 1) /\ ScopeIds = 1..L /\ ScopeIds' = ScopeIds \cup {L + 1}
  BY <1>2, TypeLemma DEF ScopeIds
<1>4. ASSUME NEW s \in ScopeIds'
      PROVE  scopes'[s].parent < s
  <2>1. CASE s \in ScopeIds
    BY <2>1, <1>2, TypeLemma
  <2>2. CASE s = L + 1
    <3>1. scopes'[s].parent = p
      BY <2>2, <1>2
    <3>2. p = 0 \/ p \in 1..L
      BY <1>3 DEF Null
    <3> QED
      BY <3>1, <3>2, <2>2, <1>3
  <2> QED
    BY <2>1, <2>2, <1>3
<1>5. ASSUME NEW s \in ScopeIds', NEW t \in ScopeIds', s # t,
             scopes'[s].parent = scopes'[t].parent, scopes'[s].parent # Null
      PROVE  scopes'[s].astNode # scopes'[t].astNode
  <2>1. \A u \in ScopeIds : scopes[u].parent = p /\ p # Null => scopes[u].astNode # n
    BY DEF NestedBy
  <2>2. CASE s \in ScopeIds /\ t \in ScopeIds
    BY <2>2, <1>2, <1>5 DEF IndInv, ScopesFormTree
  <2>3. CASE s = L + 1 /\ t \in ScopeIds
    BY <2>1, <2>3, <1>2, <1>5
  <2>4. CASE t = L + 1 /\ s \in ScopeIds
    BY <2>1, <2>4, <1>2, <1>5
  <2> QED
    BY <2>2, <2>3, <2>4, <1>3, <1>5
<1>6. ScopesFormTree'
  BY <1>4, <1>5 DEF ScopesFormTree
<1>7. ASSUME NEW k \in Openers
      PROVE  UNION {scopes'[i].identifiers : i \in {t \in 1..Len(scopes') : scopes'[t].astNode = k}}
               = UNION {scopes[i].identifiers : i \in {t \in 1..Len(scopes) : scopes[t].astNode = k}}
  <2>1. \A t \in 1..Len(scopes') : t \in ScopeIds \/ scopes'[t].identifiers = {}
    BY <1>2, <1>3
  <2>2. \A t \in ScopeIds : t \in 1..Len(scopes') /\ t \in 1..Len(scopes)
    BY <1>2, <1>3
  <2> QED
    BY <2>1, <2>2, <1>2, <1>3
<1>8. Declared(scopes') = Declared(scopes)
  BY <1>7 DEF Declared
<1> QED
  BY <1>2, <1>6, <1>8

\* After enterScope the current scope is one of n, inside the one before.
LEMMA EnterLemma ==
  ASSUME IndInv, NEW n \in Openers, EnterScope(n)
  PROVE  /\ scopes' \in Seq(Scope) /\ Len(scopes') \in Nat /\ Len(scopes) <= Len(scopes')
         /\ \A s \in ScopeIds : scopes'[s] = scopes[s]
         /\ current' \in 1..Len(scopes') /\ root' \in 1..Len(scopes')
         /\ scopes'[current'].astNode = n
         /\ root # Null /\ current # Null => scopes'[current'].parent = current
         /\ ScopesFormTree'
         /\ Declared(scopes') = Declared(scopes)
<1>1. CASE root = Null
  <2>1. scopes' = NewScope(n, Null) /\ root' = Len(scopes) + 1 /\ current' = Len(scopes) + 1
    BY <1>1 DEF EnterScope
  <2>2. /\ scopes' \in Seq(Scope) /\ Len(scopes') = Len(scopes) + 1
        /\ \A s \in ScopeIds : scopes'[s] = scopes[s]
        /\ scopes'[Len(scopes) + 1] = [astNode |-> n, parent |-> Null, identifiers |-> {}]
        /\ ScopesFormTree' /\ Declared(scopes') = Declared(scopes)
    BY <2>1, AddLemma
  <2> QED
    BY <1>1, <2>1, <2>2, TypeLemma
<1>2. CASE root # Null
  <2> DEFINE p == IF current = Null THEN root ELSE current
  <2>1. CreateNestedScope(p, n) /\ root' = root
    BY <1>2 DEF EnterScope
  <2>2. p \in ScopeIds /\ p # Null /\ (current # Null => p = current)
    BY <1>2, TypeLemma DEF Null
  <2> HIDE DEF p
  <2>3. CASE NestedBy(p, n) = {}
    <3>1. scopes' = NewScope(n, p) /\ current' = Len(scopes) + 1
      BY <2>1, <2>3 DEF CreateNestedScope
    <3>2. /\ scopes' \in Seq(Scope) /\ Len(scopes') = Len(scopes) + 1
          /\ \A s \in ScopeIds : scopes'[s] = scopes[s]
          /\ scopes'[Len(scopes) + 1] = [astNode |-> n, parent |-> p, identifiers |-> {}]
          /\ ScopesFormTree' /\ Declared(scopes') = Declared(scopes)
      BY <2>2, <2>3, <3>1, AddLemma
    <3> QED
      BY <2>1, <2>2, <3>1, <3>2, <1>2, TypeLemma
  <2>4. CASE NestedBy(p, n) # {}
    <3>1. PICK s \in NestedBy(p, n) : TRUE
      BY <2>4
    <3>2. \A t \in NestedBy(p, n) : t = s
      BY <3>1, <2>2 DEF NestedBy, IndInv, ScopesFormTree
    <3>3. scopes' = scopes
          /\ current' = CHOOSE u \in NestedBy(p, n) : \A t \in NestedBy(p, n) : u <= t
      BY <2>1, <2>4 DEF CreateNestedScope
    <3>4. s \in ScopeIds /\ s <= s /\ scopes[s].astNode = n /\ scopes[s].parent = p
      BY <3>1, TypeLemma DEF NestedBy
    <3>5. current' = s
      <4>1. \E u \in NestedBy(p, n) : \A t \in NestedBy(p, n) : u <= t
        BY <3>1, <3>2, <3>4
      <4> QED
        BY <4>1, <3>2, <3>3
    <3>6. ScopesFormTree'
      BY <3>3 DEF IndInv, ScopesFormTree, ScopeIds
    <3>7. scopes' \in Seq(Scope) /\ Len(scopes') \in Nat /\ Len(scopes) <= Len(scopes')
      BY <3>3, TypeLemma
    <3>8. current' \in 1..Len(scopes') /\ root' \in 1..Len(scopes')
      BY <2>1, <3>3, <3>4, <3>5, <1>2, TypeLemma
    <3>9. scopes'[current'].astNode = n /\ (current # Null => scopes'[current'].parent = current)
      BY <2>2, <3>3, <3>4, <3>5
    <3>10. Declared(scopes') = Declared(scopes)
      BY <3>3
    <3> QED
      BY <3>3, <3>6, <3>7, <3>8, <3>9, <3>10
  <2> QED
    BY <2>3, <2>4
<1> QED
  BY <1>1, <1>2

---------------------------------------------------------------------------
(* Steps *)

LEMMA ChainLemma ==
  ASSUME PathIsInnermost
  PROVE  \E o : Chain(scopes, path, current, o)
BY DEF PathIsInnermost, Chain, ScopeIds

LEMMA WalkStep ==
  ASSUME IndInv, NEW n \in Openers, Walk(n)
  PROVE  IndInv'
<1>1. EnterScope(n) /\ path' = <<n>> /\ walks' = walks + 1 /\ walks < MaxWalks
  BY DEF Walk
<1>2. TypeOK'
  BY <1>1, EnterLemma, TypeLemma, BoundAssumption DEF TypeOK, ScopeIds
<1>3. PathIsInnermost'
  <2> DEFINE o == [i \in 1..1 |-> current']
  <2>1. Len(path') = 1 /\ path'[1] = n
    BY <1>1
  <2>2. o \in [1..Len(path') -> ScopeIds'] /\ o[1] = current'
    BY <2>1, <1>1, EnterLemma DEF ScopeIds
  <2>3. scopes'[o[1]].astNode = path'[1]
    BY <2>1, <2>2, <1>1, EnterLemma
  <2> HIDE DEF o
  <2> QED
    BY <2>1, <2>2, <2>3 DEF PathIsInnermost
<1>4. root' # Null
  BY <1>1, EnterLemma DEF Null
<1> QED
  BY <1>1, <1>2, <1>3, <1>4, EnterLemma DEF IndInv

LEMMA DescendStep ==
  ASSUME IndInv, NEW n \in Openers, Descend(n)
  PROVE  IndInv'
<1> DEFINE L == Len(path)
<1>1. EnterScope(n) /\ path' = Append(path, n) /\ walks' = walks /\ path # <<>> /\ root # Null
  BY DEF Descend, IndInv
<1>2. /\ path' \in Seq(Openers) /\ Len(path') = L + 1 /\ L \in Nat \ {0} /\ path' # <<>>
      /\ \A i \in 1..L : path'[i] = path[i]
      /\ path'[L + 1] = n
  BY <1>1, TypeLemma, AppendLemma, ElementLemma
<1>3. TypeOK'
  BY <1>1, <1>2, EnterLemma, TypeLemma DEF TypeOK, ScopeIds
<1>4. PICK o : Chain(scopes, path, current, o)
  BY ChainLemma DEF IndInv
<1>5. o[L] = current /\ current \in ScopeIds /\ current # Null
  <2>1. o[L] = current /\ o[L] \in 1..Len(scopes)
    BY <1>1, <1>2, <1>4 DEF Chain
  <2> QED
    BY <2>1, TypeLemma DEF Null
<1>6. /\ scopes'[current'].parent = current /\ scopes'[current'].astNode = n
      /\ current' \in 1..Len(scopes') /\ Len(scopes') \in Nat /\ Len(scopes) <= Len(scopes')
      /\ \A s \in ScopeIds : scopes'[s] = scopes[s]
  BY <1>1, <1>5, EnterLemma
<1>7. PathIsInnermost'
  <2> DEFINE q == [i \in 1..(L + 1) |-> IF i = L + 1 THEN current' ELSE o[i]]
  <2>1. \A i \in 1..L : q[i] = o[i] /\ o[i] \in ScopeIds /\ o[i] \in 1..Len(scopes')
    <3>1. \A i \in 1..L : o[i] \in 1..Len(scopes) /\ o[i] \in 1..Len(scopes')
      BY <1>4, <1>6, TypeLemma DEF Chain
    <3>2. \A i \in 1..L : q[i] = o[i]
      BY <1>2
    <3> QED
      BY <3>1, <3>2, TypeLemma
  <2>2. q[L + 1] = current'
    BY <1>2
  <2>3. q \in [1..Len(path') -> ScopeIds']
    <3>1. current' \in ScopeIds' /\ \A i \in 1..L : o[i] \in ScopeIds'
      BY <2>1, <1>6 DEF ScopeIds
    <3>2. \A i \in 1..(L + 1) : i = L + 1 \/ i \in 1..L
      BY <1>2
    <3> QED
      BY <3>1, <3>2, <1>2
  <2> HIDE DEF q
  <2>4. \A i \in 1..Len(path') : i \in 1..L \/ i = L + 1
    BY <1>2
  <2>5. \A i \in 1..Len(path') : scopes'[q[i]].astNode = path'[i]
    BY <2>1, <2>2, <2>4, <1>2, <1>4, <1>6 DEF Chain
  <2>6. \A i \in 2..Len(path') : scopes'[q[i]].parent = q[i - 1]
    <3> TAKE i \in 2..Len(path')
    <3>1. i - 1 \in 1..L /\ (i = L + 1 => i - 1 = L) /\ (i # L + 1 => i \in 2..L /\ i \in 1..L)
      BY <1>2
    <3>2. CASE i = L + 1
      BY <3>1, <3>2, <2>1, <2>2, <1>5, <1>6
    <3>3. CASE i # L + 1
      BY <3>1, <3>3, <2>1, <1>4, <1>6 DEF Chain
    <3> QED
      BY <3>2, <3>3
  <2> QED
    BY <2>2, <2>3, <2>5, <2>6, <1>2 DEF PathIsInnermost
<1>8. root' # Null
  BY <1>1, EnterLemma DEF Null
<1> QED
  BY <1>1, <1>3, <1>7, <1>8, EnterLemma DEF IndInv

LEMMA CurrentLemma ==
  ASSUME IndInv, path # <<>>
  PROVE  /\ current \in ScopeIds /\ current # Null
         /\ Len(path) \in Nat \ {0} /\ Len(path) \in 1..Len(path)
         /\ scopes[current].astNode = path[Len(path)]
<1>1. PICK o : Chain(scopes, path, current, o)
  BY ChainLemma DEF IndInv
<1>2. Len(path) \in Nat \ {0} /\ Len(path) \in 1..Len(path)
  BY TypeLemma, ElementLemma
<1>3. current \in 1..Len(scopes) /\ scopes[current].astNode = path[Len(path)]
  BY <1>1, <1>2 DEF Chain
<1> QED
  BY <1>2, <1>3, TypeLemma DEF Null

\* A declaration changes the names in one scope.
LEMMA DeclareLemma ==
  ASSUME IndInv, NEW x \in Ids, Declare(x)
  PROVE  /\ scopes' \in Seq(Scope) /\ Len(scopes') = Len(scopes)
         /\ \A s \in ScopeIds : /\ scopes'[s].astNode = scopes[s].astNode
                                /\ scopes'[s].parent = scopes[s].parent
                                /\ scopes'[s].identifiers =
                                     scopes[s].identifiers \cup IF s = current THEN {x} ELSE {}
<1> DEFINE e == [scopes[current] EXCEPT !.identifiers = @ \cup {x}]
<1>1. current \in 1..Len(scopes) /\ scopes[current] \in Scope
  BY CurrentLemma, TypeLemma DEF Declare
<1>2. e \in Scope /\ e.astNode = scopes[current].astNode /\ e.parent = scopes[current].parent
      /\ e.identifiers = scopes[current].identifiers \cup {x}
  BY <1>1 DEF Scope
<1>3. scopes' = [scopes EXCEPT ![current] = e]
  BY DEF Declare
<1> HIDE DEF e
<1>4. /\ scopes' \in Seq(Scope) /\ Len(scopes') = Len(scopes)
      /\ \A s \in 1..Len(scopes) : scopes'[s] = IF s = current THEN e ELSE scopes[s]
  BY <1>1, <1>2, <1>3, TypeLemma, ExceptSeq
<1> QED
  BY <1>2, <1>4, TypeLemma

LEMMA DeclareStep ==
  ASSUME IndInv, NEW x \in Ids, Declare(x)
  PROVE  IndInv'
<1>1. UNCHANGED <<root, current, path, walks>>
  BY DEF Declare
<1>2. ScopeIds' = ScopeIds
  BY DeclareLemma DEF ScopeIds
<1>3. TypeOK'
  BY <1>1, <1>2, DeclareLemma DEF IndInv, TypeOK
<1>4. ScopesFormTree'
  BY <1>2, DeclareLemma DEF IndInv, ScopesFormTree
<1>5. PathIsInnermost'
  <2>1. PICK o : Chain(scopes, path, current, o)
    BY ChainLemma DEF IndInv
  <2>2. o \in [1..Len(path) -> ScopeIds] /\ (path # <<>> => o[Len(path)] = current)
        /\ \A i \in 1..Len(path) : o[i] \in ScopeIds
    BY <2>1, TypeLemma DEF Chain
  <2>3. \A i \in 1..Len(path) : scopes'[o[i]].astNode = path[i]
    BY <2>1, <2>2, DeclareLemma DEF Chain
  <2>4. \A i \in 2..Len(path) : scopes'[o[i]].parent = o[i - 1]
    <3>1. 2..Len(path) \subseteq 1..Len(path)
      OBVIOUS
    <3> QED
      BY <2>1, <2>2, <3>1, DeclareLemma DEF Chain
  <2> QED
    BY <1>1, <1>2, <2>2, <2>3, <2>4 DEF PathIsInnermost
<1> QED
  BY <1>1, <1>3, <1>4, <1>5 DEF IndInv

LEMMA LeaveStep ==
  ASSUME IndInv, Leave
  PROVE  IndInv'
<1> DEFINE L == Len(path)
<1>1. /\ path # <<>> /\ current' = scopes[current].parent
      /\ path' = SubSeq(path, 1, L - 1) /\ UNCHANGED <<scopes, root, walks>>
  BY DEF Leave
<1>2. /\ path' \in Seq(Openers) /\ Len(path') = L - 1 /\ L \in Nat \ {0}
      /\ \A i \in 1..L - 1 : path'[i] = path[i]
  BY <1>1, TypeLemma, PopLemma, ElementLemma
<1>3. current' \in {Null} \cup ScopeIds
  BY <1>1, CurrentLemma, TypeLemma DEF Null
<1>4. TypeOK' /\ ScopesFormTree'
  BY <1>1, <1>2, <1>3 DEF IndInv, TypeOK, ScopesFormTree, ScopeIds
<1>5. PICK o : Chain(scopes, path, current, o)
  BY ChainLemma DEF IndInv
<1>6. PathIsInnermost'
  <2> DEFINE q == [i \in 1..L - 1 |-> o[i]]
  <2>1. \A i \in 1..L - 1 : q[i] = o[i] /\ i \in 1..L /\ o[i] \in 1..Len(scopes)
    BY <1>2, <1>5 DEF Chain
  <2>2. q \in [1..Len(path') -> ScopeIds'] /\ scopes' = scopes
    BY <2>1, <1>1, <1>2 DEF ScopeIds
  <2> HIDE DEF q
  <2>3. \A i \in 1..Len(path') : scopes'[q[i]].astNode = path'[i]
    BY <2>1, <2>2, <1>2, <1>5 DEF Chain
  <2>4. \A i \in 2..Len(path') : scopes'[q[i]].parent = q[i - 1]
    <3> TAKE i \in 2..Len(path')
    <3>1. i \in 1..L - 1 /\ i - 1 \in 1..L - 1 /\ i \in 2..L
      BY <1>2
    <3> QED
      BY <3>1, <2>1, <2>2, <1>5 DEF Chain
  <2>5. path' # <<>> => q[Len(path')] = current'
    <3> SUFFICES ASSUME path' # <<>> PROVE q[L - 1] = current'
      BY <1>2
    <3>1. L - 1 \in 1..L - 1 /\ L \in 2..L
      BY <1>2, ElementLemma
    <3>2. o[L] = current /\ scopes[o[L]].parent = o[L - 1]
      BY <3>1, <1>1, <1>5 DEF Chain
    <3> QED
      BY <3>1, <3>2, <2>1, <1>1
  <2> QED
    BY <2>2, <2>3, <2>4, <2>5 DEF PathIsInnermost
<1>7. root' # Null
  BY <1>1 DEF IndInv
<1> QED
  BY <1>4, <1>6, <1>7 DEF IndInv

\* Nothing is open.
LEMMA NothingOpen ==
  ASSUME IndInv, path' = <<>>, UNCHANGED <<scopes, current, walks>>, root' \in {Null, root}
  PROVE  IndInv'
<1>1. PathIsInnermost'
  <2> DEFINE o == [i \in 1..0 |-> 1]
  <2>1. Len(path') = 0
    OBVIOUS
  <2>2. o \in [1..Len(path') -> ScopeIds'] /\ \A i \in 1..Len(path') : FALSE
    BY <2>1
  <2>3. \A i \in 2..Len(path') : FALSE
    BY <2>1
  <2> HIDE DEF o
  <2> QED
    BY <2>2, <2>3 DEF PathIsInnermost
<1>2. TypeOK' /\ ScopesFormTree'
  BY DEF IndInv, TypeOK, ScopesFormTree, ScopeIds
<1> QED
  BY <1>1, <1>2 DEF IndInv

LEMMA Invariance == IndInv /\ [Next]_vars => IndInv'
<1> SUFFICES ASSUME IndInv, [Next]_vars PROVE IndInv'
  OBVIOUS
<1>1. CASE UNCHANGED vars
  <2>1. TypeOK'
    BY <1>1 DEF vars, IndInv, TypeOK, ScopeIds
  <2>2. ScopesFormTree'
    BY <1>1 DEF vars, IndInv, ScopesFormTree, ScopeIds
  <2>3. PathIsInnermost'
    BY <1>1 DEF vars, IndInv, PathIsInnermost, ScopeIds
  <2> QED
    BY <1>1, <2>1, <2>2, <2>3 DEF vars, IndInv
<1>2. CASE Abort
  BY <1>2, NothingOpen DEF Abort
<1>3. CASE TakeRootScope
  BY <1>3, NothingOpen DEF TakeRootScope
<1> QED
  BY <1>1, <1>2, <1>3, WalkStep, DescendStep, DeclareStep, LeaveStep DEF Next

LEMMA InitLemma == Init => IndInv
<1> SUFFICES ASSUME Init PROVE IndInv
  OBVIOUS
<1>1. TypeOK /\ ScopesFormTree
  BY BoundAssumption DEF Init, TypeOK, ScopesFormTree, ScopeIds, Null
<1>2. PathIsInnermost
  <2> DEFINE o == [i \in 1..0 |-> 1]
  <2>1. Len(path) = 0 /\ path = <<>>
    BY DEF Init
  <2>2. o \in [1..Len(path) -> ScopeIds] /\ \A i \in 1..Len(path) : FALSE
    BY <2>1
  <2>3. \A i \in 2..Len(path) : FALSE
    BY <2>1
  <2> HIDE DEF o
  <2> QED
    BY <2>1, <2>2, <2>3 DEF PathIsInnermost
<1> QED
  BY <1>1, <1>2 DEF Init, IndInv

LEMMA Inductive == Spec => []IndInv
BY InitLemma, Invariance, PTL DEF Spec

---------------------------------------------------------------------------
\* The scope pointers refer to scopes that exist, whatever the tree, the number of
\* walks and the visits that throw.
THEOREM TypeCorrect == Spec => []TypeOK
<1>1. IndInv => TypeOK
  BY DEF IndInv
<1> QED
  BY <1>1, Inductive, PTL

\* Scopes lie in older ones, and createNestedScope makes at most one per opener.
THEOREM ScopesAreTrees == Spec => []ScopesFormTree
<1>1. IndInv => ScopesFormTree
  BY DEF IndInv
<1> QED
  BY <1>1, Inductive, PTL

\* exitScope leads back to the scope that enterScope came from, in every walk of a
\* visitor, after visits that threw too.
THEOREM ScopesAreNested == Spec => []PathIsInnermost
<1>1. IndInv => PathIsInnermost
  BY DEF IndInv
<1> QED
  BY <1>1, Inductive, PTL

---------------------------------------------------------------------------
(* Refinement *)

LEMMA DeclaredLemma ==
  \A s, x : \A n \in Openers :
    x \in Declared(s)[n] <=> \E i \in 1..Len(s) : s[i].astNode = n /\ x \in s[i].identifiers
BY DEF Declared

\* A declaration in the current scope is one in the innermost open node.
LEMMA DeclaresLemma ==
  ASSUME IndInv, NEW x \in Ids, Declare(x)
  PROVE  Declared(scopes') = [Declared(scopes) EXCEPT ![path[Len(path)]] = @ \cup {x}]
<1> DEFINE top == path[Len(path)]
           D == Declared(scopes)
           E == Declared(scopes')
<1>1. current \in ScopeIds /\ scopes[current].astNode = top /\ top \in Openers
  BY CurrentLemma, TypeLemma DEF Declare
<1>2. 1..Len(scopes') = ScopeIds /\ 1..Len(scopes) = ScopeIds
  BY DeclareLemma, TypeLemma
<1>3. ASSUME NEW n \in Openers, NEW y
      PROVE  y \in E[n] <=> y \in D[n] \/ (n = top /\ y = x)
  <2>1. y \in E[n] <=> \E i \in ScopeIds : scopes'[i].astNode = n /\ y \in scopes'[i].identifiers
    BY <1>2, DeclaredLemma
  <2>2. y \in D[n] <=> \E i \in ScopeIds : scopes[i].astNode = n /\ y \in scopes[i].identifiers
    BY <1>2, DeclaredLemma
  <2> HIDE DEF D, E
  <2> QED
    BY <2>1, <2>2, <1>1, DeclareLemma
<1>4. D = [n \in Openers |-> D[n]] /\ E = [n \in Openers |-> E[n]]
  BY DEF Declared
<1> HIDE DEF D, E
<1>5. \A n \in Openers : E[n] = IF n = top THEN D[n] \cup {x} ELSE D[n]
  BY <1>3
<1>6. E = [D EXCEPT ![top] = @ \cup {x}]
  BY <1>1, <1>4, <1>5
<1> QED
  BY <1>6 DEF D, E

\* The Scope objects implement the lexical scopes (LexicalScopes): whatever is done
\* to them, the names declared in the scopes of each node change as a walk over
\* the nodes says.
THEOREM ImplementsLexicalScopes == Spec => LexicalSpec
<1>1. Init => Lexical!LexInit
  <2> SUFFICES ASSUME Init PROVE Lexical!LexInit
    OBVIOUS
  <2>1. Declared(scopes) = [n \in Openers |-> {}]
    BY DEF Init, Declared
  <2> QED
    BY <2>1 DEF Init, Lexical!LexInit, Declared, ScopeIds
<1>2. IndInv /\ [Next]_vars => [Lexical!LexNext]_(Lexical!lexvars)
  <2> SUFFICES ASSUME IndInv, [Next]_vars PROVE [Lexical!LexNext]_(Lexical!lexvars)
    OBVIOUS
  <2>1. ASSUME NEW n \in Openers, Walk(n) \/ Descend(n)
        PROVE  Lexical!Open(n)
    <3>1. path' = Append(path, n) /\ EnterScope(n)
      <4>1. Append(<<>>, n) = <<n>>
        OBVIOUS
      <4>2. Walk(n) => path' = Append(path, n) /\ EnterScope(n)
        BY <4>1 DEF Walk
      <4>3. Descend(n) => path' = Append(path, n) /\ EnterScope(n)
        BY DEF Descend
      <4> QED
        BY <2>1, <4>2, <4>3
    <3>2. Declared(scopes') = Declared(scopes)
      BY <3>1, EnterLemma
    <3> QED
      BY <3>1, <3>2 DEF Lexical!Open, Declared, ScopeIds
  <2>2. ASSUME NEW x \in Ids, Declare(x)
        PROVE  Lexical!Declares(x)
    <3>1. Declared(scopes') = [Declared(scopes) EXCEPT ![path[Len(path)]] = @ \cup {x}]
      BY <2>2, DeclaresLemma
    <3> QED
      BY <2>2, <3>1 DEF Declare, Lexical!Declares, Declared, ScopeIds
  <2>3. CASE Leave
    BY <2>3 DEF Leave, Lexical!LexNext, Lexical!Close, ScopeIds
  <2>4. CASE Abort
    BY <2>4 DEF Abort, Lexical!LexNext, Lexical!Unwind, ScopeIds
  <2>5. CASE TakeRootScope
    BY <2>5 DEF TakeRootScope, Lexical!lexvars, ScopeIds
  <2>6. CASE UNCHANGED vars
    BY <2>6 DEF vars, Lexical!lexvars, ScopeIds
  <2> QED
    BY <2>1, <2>2, <2>3, <2>4, <2>5, <2>6 DEF Next, Lexical!LexNext
<1> QED
  BY <1>1, <1>2, Inductive, PTL DEF Spec, LexicalSpec, Lexical!LexSpec

---------------------------------------------------------------------------
(* The first walk                                                          *)

\* The opener of a scope's parent.
Around(s, p) == IF p = Null THEN NoNode ELSE s[p].astNode

\* In the first walk of a visitor the scopes lie inside one another as their
\* openers do, and an opener has one scope.
LikeOpeners(s) ==
  /\ \A i \in 1..Len(s) : Encloser[s[i].astNode] = Around(s, s[i].parent)
  /\ \A i, j \in 1..Len(s) : s[i].astNode = s[j].astNode => i = j

FirstWalk ==
  /\ walks = 0 => scopes = <<>> /\ root = Null /\ current = Null /\ path = <<>>
  /\ path # <<>> => Encloser[path[1]] = NoNode
  /\ walks = 1 => LikeOpeners(scopes)

\* A walk that enters n leaves the scopes so.
LEMMA AddFirst ==
  ASSUME IndInv, LikeOpeners(scopes), NEW n \in Openers, NEW p \in {Null} \cup ScopeIds,
         scopes' = NewScope(n, p), NestedBy(p, n) = {},
         Encloser[n] = Around(scopes, p)
  PROVE  LikeOpeners(scopes')
<1> DEFINE L == Len(scopes)
<1>1. /\ L \in Nat /\ ScopeIds = 1..L /\ Len(scopes') = L + 1
      /\ \A s \in ScopeIds : scopes'[s] = scopes[s]
      /\ scopes'[L + 1].astNode = n /\ scopes'[L + 1].parent = p
  <2>1. L \in Nat /\ ScopeIds = 1..L
    BY TypeLemma
  <2>2. /\ Len(scopes') = L + 1 /\ \A s \in ScopeIds : scopes'[s] = scopes[s]
        /\ scopes'[L + 1] = [astNode |-> n, parent |-> p, identifiers |-> {}]
    BY AddLemma
  <2> QED
    BY <2>1, <2>2
<1>2. \A s \in 1..Len(scopes') : s \in ScopeIds \/ s = L + 1
  BY <1>1
<1>3. \A q \in {Null} \cup ScopeIds : Around(scopes', q) = Around(scopes, q)
  BY <1>1 DEF Around
<1>4. \A s \in ScopeIds : scopes[s].parent \in {Null} \cup ScopeIds /\ scopes[s].astNode \in Openers
  BY <1>1, TypeLemma DEF Null
<1>5. \A s \in ScopeIds : Encloser[scopes[s].astNode] = Around(scopes, scopes[s].parent)
  BY <1>1 DEF LikeOpeners
<1>6. ASSUME NEW s \in 1..Len(scopes')
      PROVE  Encloser[scopes'[s].astNode] = Around(scopes', scopes'[s].parent)
  <2>1. CASE s \in ScopeIds
    BY <2>1, <1>1, <1>3, <1>4, <1>5
  <2>2. CASE s = L + 1
    BY <2>2, <1>1, <1>3
  <2> QED
    BY <2>1, <2>2, <1>2
<1>7. ASSUME NEW s \in ScopeIds PROVE scopes[s].astNode # n
  <2> SUFFICES ASSUME scopes[s].astNode = n PROVE FALSE
    OBVIOUS
  <2>1. Around(scopes, scopes[s].parent) = Around(scopes, p)
    BY <1>5
  <2>2. scopes[s].parent # p
    BY DEF NestedBy
  <2>3. \A q \in ScopeIds : scopes[q].astNode # NoNode /\ q # Null
    BY <1>1, <1>4, NoNodeAssumption DEF Null
  <2>4. scopes[s].parent \in ScopeIds /\ p \in ScopeIds
    BY <2>1, <2>2, <2>3, <1>4 DEF Around
  <2>5. scopes[scopes[s].parent].astNode = scopes[p].astNode
    BY <2>1, <2>3, <2>4 DEF Around
  <2> QED
    BY <2>2, <2>4, <2>5, <1>1 DEF LikeOpeners
<1>8. \A i, j \in 1..Len(scopes') : scopes'[i].astNode = scopes'[j].astNode => i = j
  BY <1>1, <1>2, <1>7 DEF LikeOpeners
<1> QED
  BY <1>6, <1>8 DEF LikeOpeners

LEMMA WalkFirst ==
  ASSUME IndInv, FirstWalk, NEW n \in Openers, Walk(n)
  PROVE  FirstWalk'
<1>1. /\ EnterScope(n) /\ path' = <<n>> /\ walks' = walks + 1 /\ Encloser[n] = NoNode
      /\ walks \in Nat /\ path'[1] = n
  BY TypeLemma, BoundAssumption DEF Walk
<1>2. walks' = 1 => LikeOpeners(scopes')
  <2> SUFFICES ASSUME walks' = 1 PROVE LikeOpeners(scopes')
    OBVIOUS
  <2>1. scopes = <<>> /\ root = Null
    BY <1>1 DEF FirstWalk
  <2>2. Len(scopes) = 0 /\ ScopeIds = {} /\ NestedBy(Null, n) = {}
    BY <2>1 DEF ScopeIds, NestedBy
  <2>3. scopes' = NewScope(n, Null)
    BY <1>1, <2>1 DEF EnterScope
  <2>4. LikeOpeners(scopes)
    BY <2>2 DEF LikeOpeners
  <2>5. Encloser[n] = Around(scopes, Null)
    BY <1>1 DEF Around
  <2> QED
    BY <2>2, <2>3, <2>4, <2>5, AddFirst
<1> QED
  BY <1>1, <1>2 DEF FirstWalk

LEMMA DescendFirst ==
  ASSUME IndInv, FirstWalk, NEW n \in Openers, Descend(n)
  PROVE  FirstWalk'
<1>1. /\ EnterScope(n) /\ path' = Append(path, n) /\ walks' = walks /\ path # <<>> /\ root # Null
      /\ Encloser[n] = path[Len(path)]
  BY DEF Descend, IndInv
<1>2. Len(path) \in Nat \ {0} /\ path'[1] = path[1] /\ path' # <<>>
  <2>1. Len(path) \in Nat \ {0} /\ 1 \in 1..Len(path)
    BY <1>1, CurrentLemma
  <2> QED
    BY <2>1, <1>1, TypeLemma, AppendLemma
<1>3. /\ current \in ScopeIds /\ current # Null
      /\ scopes[current].astNode = path[Len(path)]
  BY <1>1, CurrentLemma
<1>4. walks = 1 => LikeOpeners(scopes')
  <2> SUFFICES ASSUME walks = 1 PROVE LikeOpeners(scopes')
    OBVIOUS
  <2>1. CreateNestedScope(current, n) /\ LikeOpeners(scopes)
    BY <1>1, <1>3 DEF EnterScope, FirstWalk
  <2>2. CASE NestedBy(current, n) # {}
    BY <2>1, <2>2 DEF CreateNestedScope
  <2>3. CASE NestedBy(current, n) = {}
    <3>1. scopes' = NewScope(n, current)
      BY <2>1, <2>3 DEF CreateNestedScope
    <3>2. Encloser[n] = Around(scopes, current)
      BY <1>1, <1>3 DEF Around
    <3> QED
      BY <1>3, <2>1, <2>3, <3>1, <3>2, AddFirst
  <2> QED
    BY <2>2, <2>3
<1>5. walks # 0
  BY <1>1 DEF FirstWalk
<1> QED
  BY <1>1, <1>2, <1>4, <1>5 DEF FirstWalk

LEMMA DeclareFirst ==
  ASSUME IndInv, FirstWalk, NEW x \in Ids, Declare(x)
  PROVE  FirstWalk'
<1>1. UNCHANGED <<root, current, path, walks>> /\ path # <<>>
  BY DEF Declare
<1>2. /\ Len(scopes') = Len(scopes) /\ ScopeIds = 1..Len(scopes) /\ Len(scopes) \in Nat
      /\ \A s \in ScopeIds : /\ scopes'[s].astNode = scopes[s].astNode
                             /\ scopes'[s].parent = scopes[s].parent
                             /\ scopes[s].parent \in {Null} \cup ScopeIds
  BY DeclareLemma, TypeLemma DEF Null
<1>3. \A p \in {Null} \cup ScopeIds : Around(scopes', p) = Around(scopes, p)
  BY <1>2 DEF Around
<1>4. LikeOpeners(scopes) => LikeOpeners(scopes')
  BY <1>2, <1>3 DEF LikeOpeners
<1> QED
  BY <1>1, <1>4 DEF FirstWalk

LEMMA LeaveFirst ==
  ASSUME IndInv, FirstWalk, Leave
  PROVE  FirstWalk'
<1>1. path # <<>> /\ path' = SubSeq(path, 1, Len(path) - 1) /\ UNCHANGED <<scopes, root, walks>>
  BY DEF Leave
<1>2. path' # <<>> => path'[1] = path[1]
  <2>1. /\ path' \in Seq(Openers) /\ Len(path') = Len(path) - 1 /\ Len(path) \in Nat
        /\ \A i \in 1..Len(path) - 1 : path'[i] = path[i]
    BY <1>1, TypeLemma, PopLemma, ElementLemma
  <2>2. path' # <<>> => Len(path') \in Nat \ {0}
    BY <2>1, ElementLemma
  <2> QED
    BY <2>1, <2>2
<1>3. walks # 0
  BY <1>1 DEF FirstWalk
<1> QED
  BY <1>1, <1>2, <1>3 DEF FirstWalk

LEMMA FirstInvariance == IndInv /\ FirstWalk /\ [Next]_vars => FirstWalk'
<1> SUFFICES ASSUME IndInv, FirstWalk, [Next]_vars PROVE FirstWalk'
  OBVIOUS
<1>1. CASE UNCHANGED vars
  BY <1>1 DEF vars, FirstWalk
<1>2. CASE Abort
  BY <1>2 DEF Abort, FirstWalk
<1>3. CASE TakeRootScope
  BY <1>3 DEF TakeRootScope, FirstWalk
<1> QED
  BY <1>1, <1>2, <1>3, WalkFirst, DescendFirst, DeclareFirst, LeaveFirst DEF Next

LEMMA FirstInductive == Spec => [](IndInv /\ FirstWalk)
<1>1. Init => FirstWalk
  BY DEF Init, FirstWalk
<1> QED
  BY <1>1, FirstInvariance, InitLemma, Invariance, PTL DEF Spec

\* A set of numbers has a smallest one.
LEMMA Smallest ==
  ASSUME NEW T, T \subseteq Nat, T # {}
  PROVE  \E m \in T : \A n \in T : m <= n
<1> DEFINE R == OpToRel(<, Nat)
<1>1. IsWellFoundedOn(R, Nat)
  BY NatLessThanWellFounded, Zenon
<1>2. \A m, n \in Nat : m < n => <<m, n>> \in R
  BY DEF OpToRel
<1> HIDE DEF R
<1>3. PICK m \in T : \A n \in T : ~ (<<n, m>> \in R)
  BY <1>1, WFMin
<1>4. ASSUME NEW n \in T PROVE m <= n
  <2>1. m \in Nat /\ n \in Nat /\ <<n, m>> \notin R
    BY <1>3
  <2>2. ~ (n < m)
    BY <1>2, <2>1
  <2> QED
    BY <2>1, <2>2
<1> QED
  BY <1>4

\* Outward follows the parents.
LEMMA OutwardLemma ==
  ASSUME NEW s, NEW k \in Nat, NEW w,
         w = [i \in 0..k |-> IF i = 0 THEN s
                             ELSE IF w[i - 1] = Null THEN Null ELSE scopes[w[i - 1]].parent]
  PROVE  Outward(s, k) = w[k]
<1> DEFINE Up(v, i) == IF i = 0 THEN s
                       ELSE IF v[i - 1] = Null THEN Null ELSE scopes[v[i - 1]].parent
           Walks(v) == v = [i \in 0..k |-> Up(v, i)]
<1>1. ASSUME NEW v, Walks(v) PROVE v = w
  <2>1. ASSUME NEW i \in 0..k, v[i] # w[i] PROVE FALSE
    <3> DEFINE T == {j \in 0..k : v[j] # w[j]}
    <3>1. PICK m \in T : \A j \in T : m <= j
      <4>1. T \subseteq Nat
        OBVIOUS
      <4>2. i \in T
        BY <2>1
      <4> HIDE DEF T
      <4> QED
        BY <4>1, <4>2, Smallest
    <3>2. m \in 0..k /\ v[m] # w[m] /\ v[m] = Up(v, m) /\ w[m] = Up(w, m)
      BY <1>1
    <3>3. CASE m = 0
      BY <3>2, <3>3
    <3>4. CASE m # 0
      <4>1. m - 1 \in 0..k /\ ~(m <= m - 1)
        BY <3>2, <3>4
      <4>2. m - 1 \notin T
        <5> HIDE DEF T
        <5> QED
          BY <3>1, <4>1
      <4>3. v[m - 1] = w[m - 1]
        BY <4>1, <4>2
      <4> QED
        BY <3>2, <3>4, <4>3
    <3> QED
      BY <3>3, <3>4
  <2>2. v = [i \in 0..k |-> v[i]] /\ w = [i \in 0..k |-> w[i]]
    BY <1>1
  <2> QED
    BY <2>1, <2>2
<1>2. Walks(w)
  OBVIOUS
<1>3. (CHOOSE v : Walks(v)) = w
  <2> HIDE DEF Walks
  <2> QED
    BY <1>1, <1>2
<1>4. Outward(s, k) = (CHOOSE v : Walks(v))[k]
  BY Zenon DEF Outward
<1> QED
  BY <1>3, <1>4

\* From the current scope the k-th scope outwards is that of the k-th open node
\* inwards from the last, and there are no more.
LEMMA OutwardPath ==
  ASSUME IndInv, FirstWalk, walks = 1, path # <<>>,
         NEW o, Chain(scopes, path, current, o), NEW k \in Nat
  PROVE  Outward(current, k) = IF k < Len(path) THEN o[Len(path) - k] ELSE Null
<1> DEFINE n == Len(path)
           W(i) == IF i < n THEN o[n - i] ELSE Null
           w == [i \in 0..k |-> W(i)]
<1>1. n \in Nat \ {0} /\ ScopeIds = 1..Len(scopes) /\ Len(scopes) \in Nat
  BY CurrentLemma, TypeLemma
<1>2. /\ \A i \in 1..n : o[i] \in ScopeIds /\ o[i] # Null /\ scopes[o[i]].astNode = path[i]
      /\ \A i \in 2..n : scopes[o[i]].parent = o[i - 1]
      /\ o[n] = current
  BY <1>1 DEF Chain, Null
<1>3. scopes[o[1]].parent = Null
  <2>1. 1 \in 1..n /\ o[1] \in ScopeIds /\ scopes[o[1]].astNode = path[1]
    BY <1>1, <1>2
  <2>2. Around(scopes, scopes[o[1]].parent) = NoNode
    BY <1>1, <2>1 DEF FirstWalk, LikeOpeners
  <2>3. scopes[o[1]].parent = Null \/ scopes[o[1]].parent \in ScopeIds
    BY <1>1, <2>1, TypeLemma DEF Null
  <2> QED
    BY <2>2, <2>3, TypeLemma, NoNodeAssumption DEF Around
<1>4. ASSUME NEW i \in 0..k
      PROVE  W(i) = IF i = 0 THEN current
                    ELSE IF W(i - 1) = Null THEN Null ELSE scopes[W(i - 1)].parent
  <2>1. CASE i = 0
    BY <2>1, <1>1, <1>2
  <2>2. CASE i # 0 /\ i - 1 >= n
    <3>1. W(i) = Null /\ W(i - 1) = Null
      BY <2>2, <1>1
    <3> QED
      BY <2>2, <3>1
  <2>3. CASE i # 0 /\ i = n
    <3>1. W(i) = Null /\ W(i - 1) = o[1] /\ 1 \in 1..n
      BY <2>3, <1>1
    <3> QED
      BY <2>3, <3>1, <1>2, <1>3
  <2>4. CASE i # 0 /\ i < n
    <3>1. /\ W(i) = o[n - i] /\ W(i - 1) = o[n - i + 1]
          /\ n - i + 1 \in 2..n /\ n - i + 1 \in 1..n /\ (n - i + 1) - 1 = n - i
      BY <2>4, <1>1
    <3> HIDE DEF W, n
    <3> QED
      BY <2>4, <3>1, <1>2
  <2> QED
    BY <2>1, <2>2, <2>3, <2>4, <1>1
<1>5. \A i \in 0..k : w[i] = W(i) /\ (i # 0 => i - 1 \in 0..k /\ w[i - 1] = W(i - 1))
  BY <1>1
<1>6. w = [i \in 0..k |-> IF i = 0 THEN current
                          ELSE IF w[i - 1] = Null THEN Null ELSE scopes[w[i - 1]].parent]
  <2>1. w = [i \in 0..k |-> w[i]]
    OBVIOUS
  <2> HIDE DEF w, W
  <2> QED
    BY <1>4, <1>5, <2>1
<1>7. Outward(current, k) = w[k]
  <2> HIDE DEF w
  <2> QED
    BY <1>6, OutwardLemma
<1> QED
  BY <1>7

\* There are as many scopes as open nodes.
LEMMA ChainLength ==
  ASSUME IndInv, path # <<>>, NEW o, Chain(scopes, path, current, o)
  PROVE  Len(path) <= Len(scopes)
<1> DEFINE n == Len(path)
           T == {i \in 1..n : o[i] < i}
<1>1. n \in Nat \ {0} /\ ScopeIds = 1..Len(scopes) /\ Len(scopes) \in Nat
  BY CurrentLemma, TypeLemma
<1>2. /\ \A i \in 1..n : o[i] \in ScopeIds
      /\ \A i \in 2..n : scopes[o[i]].parent = o[i - 1]
  BY <1>1 DEF Chain
<1>3. ASSUME T # {} PROVE FALSE
  <2>1. PICK m \in T : \A i \in T : m <= i
    <3>1. T \subseteq Nat
      BY <1>1
    <3> HIDE DEF T
    <3> QED
      BY <1>3, <3>1, Smallest
  <2>2. m \in 1..n /\ o[m] < m /\ o[m] \in 1..Len(scopes)
    BY <1>1, <1>2
  <2>3. m # 1 /\ m \in 2..n /\ m - 1 \in 1..n /\ ~(m <= m - 1)
    BY <1>1, <2>2
  <2>4. o[m - 1] < o[m] /\ o[m - 1] \in 1..Len(scopes)
    <3>1. scopes[o[m]].parent < o[m] /\ scopes[o[m]].parent = o[m - 1]
      BY <1>1, <1>2, <2>2, <2>3, TypeLemma
    <3> QED
      BY <1>1, <1>2, <2>3, <3>1
  <2>5. o[m - 1] < m - 1
    BY <2>2, <2>4
  <2> QED
    BY <2>1, <2>3, <2>5
<1>4. n \in 1..n /\ o[n] \in 1..Len(scopes) /\ ~(o[n] < n)
  BY <1>1, <1>2, <1>3
<1> QED
  BY <1>1, <1>4

\* A name resolves to the innermost open node that declares it.
LEMMA ResolveLemma ==
  ASSUME IndInv, FirstWalk, walks = 1, path # <<>>, NEW x \in Ids
  PROVE  Resolve(current, x) = Lexical!Meaning(x, NoNode)
<1> DEFINE n == Len(path)
           D == {i \in 1..n : x \in Declared(scopes)[path[i]]}
           F == Found(current, x)
<1>1. PICK o : Chain(scopes, path, current, o)
  BY ChainLemma DEF IndInv
<1>2. /\ n \in Nat \ {0} /\ ScopeIds = 1..Len(scopes) /\ Len(scopes) \in Nat /\ n <= Len(scopes)
      /\ \A i \in 1..n : path[i] \in Openers
  BY <1>1, CurrentLemma, TypeLemma, ElementLemma, ChainLength
<1>3. \A i \in 1..n : o[i] \in ScopeIds /\ o[i] # Null /\ scopes[o[i]].astNode = path[i]
  BY <1>1, <1>2 DEF Chain, Null
<1>4. \A i \in 1..n : x \in Declared(scopes)[path[i]] <=> x \in scopes[o[i]].identifiers
  <2> TAKE i \in 1..n
  <2>1. x \in Declared(scopes)[path[i]] <=>
          \E s \in 1..Len(scopes) : scopes[s].astNode = path[i] /\ x \in scopes[s].identifiers
    BY <1>2, DeclaredLemma
  <2>2. \A s \in 1..Len(scopes) : scopes[s].astNode = path[i] => s = o[i]
    BY <1>2, <1>3 DEF FirstWalk, LikeOpeners
  <2> QED
    BY <1>2, <1>3, <2>1, <2>2
<1>5. \A k \in Nat : Outward(current, k) = IF k < n THEN o[n - k] ELSE Null
  BY <1>1, OutwardPath
<1>6. \A k : k \in F <=> k \in 0..(n - 1) /\ n - k \in D
  <2> TAKE k
  <2>1. k \in F <=> /\ k \in 0..Len(scopes) /\ Outward(current, k) # Null
                    /\ x \in scopes[Outward(current, k)].identifiers
    BY DEF Found
  <2>2. CASE k \in 0..(n - 1)
    <3>1. k \in 0..Len(scopes) /\ k \in Nat /\ k < n /\ n - k \in 1..n
      BY <1>2, <2>2
    <3>2. Outward(current, k) = o[n - k]
      BY <3>1, <1>5
    <3>3. n - k \in D <=> x \in scopes[o[n - k]].identifiers
      BY <3>1, <1>4
    <3> HIDE DEF F, D, n
    <3> QED
      BY <2>1, <2>2, <3>1, <3>2, <3>3, <1>3
  <2>3. CASE k \notin 0..(n - 1)
    <3>1. k \in 0..Len(scopes) => k \in Nat /\ ~(k < n)
      BY <1>2, <2>3
    <3> HIDE DEF F, D, n
    <3> QED
      BY <2>1, <2>3, <3>1, <1>5
  <2> QED
    BY <2>2, <2>3
<1>7. \A i \in D : i \in 1..n /\ n - i \in F
  <2> TAKE i \in D
  <2>1. i \in 1..n /\ n - i \in 0..(n - 1) /\ n - (n - i) = i
    BY <1>2
  <2> HIDE DEF F, D, n
  <2> QED
    BY <1>6, <2>1
<1>8. Lexical!Declaring(x) = D /\ Lexical!Meaning(x, NoNode)
        = IF D = {} THEN NoNode ELSE path[CHOOSE i \in D : \A j \in D : j <= i]
  BY DEF Lexical!Declaring, Lexical!Meaning, Declared, ScopeIds
<1>9. Resolve(current, x) = IF F = {} THEN NoNode
        ELSE scopes[Outward(current, CHOOSE k \in F : \A j \in F : k <= j)].astNode
  BY DEF Resolve
<1>10. n \in Nat \ {0} /\ D \subseteq 1..n
  BY <1>2
<1> HIDE DEF D, F, n
<1>11. CASE F = {}
  BY <1>7, <1>8, <1>9, <1>11
<1>12. CASE F # {}
  <2>1. PICK k \in F : \A j \in F : k <= j
    <3>1. F \subseteq Nat
      BY <1>6
    <3> QED
      BY <1>12, <3>1, Smallest
  <2>2. k \in 0..(n - 1) /\ n - k \in D /\ n - k \in 1..n
    BY <1>6, <1>10, <2>1
  <2>3. (CHOOSE c \in F : \A j \in F : c <= j) = k
    <3>1. \A c \in F : (\A j \in F : c <= j) => c = k
      <4> TAKE c \in F
      <4>1. c \in Nat /\ k \in Nat
        BY <1>6, <2>1
      <4> QED
        BY <2>1, <4>1
    <3> QED
      BY <2>1, <3>1
  <2>4. \A j \in D : j <= n - k
    <3> TAKE j \in D
    <3>1. j \in 1..n /\ k <= n - j
      BY <1>7, <2>1
    <3> QED
      BY <1>10, <2>2, <3>1
  <2>5. (CHOOSE i \in D : \A j \in D : j <= i) = n - k
    <3>1. \A i \in D : (\A j \in D : j <= i) => i = n - k
      <4> TAKE i \in D
      <4>1. i \in Nat /\ n - k \in Nat
        BY <1>10, <2>2
      <4> QED
        BY <2>2, <2>4, <4>1
    <3> QED
      BY <2>2, <2>4, <3>1
  <2>6. Outward(current, k) = o[n - k]
    <3>1. k \in Nat /\ k < n
      BY <2>2, <1>10
    <3> QED
      BY <3>1, <1>5
  <2>7. D # {}
    BY <2>2
  <2> QED
    BY <1>3, <1>8, <1>9, <1>12, <2>2, <2>3, <2>5, <2>6, <2>7
<1> QED
  BY <1>11, <1>12

\* In the first walk resolveIdentifier gives the innermost open node that declares
\* the name, though it follows the parents of scopes and never sees the nodes.
THEOREM NamesResolveLexically == Spec => []ResolvesLexically
<1>1. IndInv /\ FirstWalk => ResolvesLexically
  BY ResolveLemma DEF ResolvesLexically
<1> QED
  BY <1>1, FirstInductive, PTL

---------------------------------------------------------------------------
(* VariableMap. *)

Unique(f) == \A j, k \in Keys : f[j] # None /\ f[k] # None /\ Equal(j, k) => j = k

MarksFound(f, c) == \A s \in c : \E k \in Keys : f[k] # None /\ Equal(k, s)
MarksUnique(c) == \A s, t \in c : Equal(s, t) => s = t

Marked(f, c, b) ==
  \A k \in Keys : f[k] # None => b[Name(k)] = f[k] \/ \E s \in c : Equal(s, k)

Kept(f, h) == \A s \in h : f[s] # None

Good(f, c, b, h) ==
  Unique(f) /\ MarksFound(f, c) /\ MarksUnique(c) /\ Marked(f, c, b) /\ Kept(f, h)

MapIndInv == /\ MapTypeOK
             /\ \A m \in Maps : Good(map[m], changed[m], baseline[m], checked[m])

Entries == [Keys -> Values \cup {None}]
Baselines == [Nodes \X VariableIds -> Values \cup {None}]

---------------------------------------------------------------------------
(* Identifiers *)

LEMMA EqualLemma ==
  ASSUME NEW j \in Keys, NEW k \in Keys, NEW l \in Keys
  PROVE  /\ Equal(j, j)
         /\ Equal(j, k) => Equal(k, j)
         /\ Equal(j, k) /\ Equal(k, l) => Equal(j, l)
         /\ Equal(j, k) <=> Name(j) = Name(k)
BY DEF Equal, Name, Keys

LEMMA NameLemma ==
  ASSUME NEW k \in Keys
  PROVE  Name(k) \in Nodes \X VariableIds
BY ScopesAssumption DEF Name, Keys

LEMMA SameKey ==
  ASSUME NEW j \in Keys, NEW k \in Keys, j.scope = k.scope, j.id = k.id
  PROVE  j = k
BY DEF Keys

\* The entry that an operation on s goes to: that of an equal object, if there is one.
LEMMA EntryLemma ==
  ASSUME NEW m \in Maps, NEW s \in Keys
  PROVE  /\ Entry(m, s) \in Keys
         /\ Equal(Entry(m, s), s)
         /\ EntriesOf(m, s) # {} => Entry(m, s) \in EntriesOf(m, s)
<1>1. EntriesOf(m, s) \subseteq Keys /\ \A k \in EntriesOf(m, s) : Equal(k, s)
  BY DEF EntriesOf, Stored
<1>2. CASE EntriesOf(m, s) = {}
  BY <1>2, EqualLemma DEF Entry
<1>3. CASE EntriesOf(m, s) # {}
  <2>1. Entry(m, s) \in EntriesOf(m, s)
    BY <1>3 DEF Entry
  <2> QED
    BY <2>1, <1>1
<1> QED
  BY <1>2, <1>3

\* The marks after changed.insert(s).
Marks(c, s) == IF \E k \in c : Equal(k, s) THEN c ELSE c \cup {s}

\* A value is put at an entry of the identifier s, the only one of it, and s is marked.
LEMMA PutLemma ==
  ASSUME NEW f \in Entries, NEW c \in SUBSET Keys, NEW b, NEW h \in SUBSET Keys,
         Good(f, c, b, h),
         NEW s \in Keys, NEW e \in Keys, Equal(e, s),
         (\E k \in Keys : f[k] # None /\ Equal(k, s)) => f[e] # None,
         NEW v \in Values
  PROVE  Good([f EXCEPT ![e] = v], Marks(c, s), b, h)
<1> DEFINE g == [f EXCEPT ![e] = v]
           d == Marks(c, s)
<1>1. g \in Entries /\ g[e] = v /\ v # None /\ \A k \in Keys : k # e => g[k] = f[k]
  BY NoneAssumption DEF Entries
<1>2. c \subseteq d /\ d \subseteq c \cup {s} /\ (\E k \in d : Equal(k, s)) /\ d \in SUBSET Keys
  BY EqualLemma DEF Marks
<1>3. Unique(g)
  <2> SUFFICES ASSUME NEW j \in Keys, NEW k \in Keys, g[j] # None, g[k] # None, Equal(j, k),
                      j # k
               PROVE  FALSE
    BY DEF Unique
  <2>1. \A l \in Keys : l # e /\ g[l] # None => ~Equal(l, e)
    <3> SUFFICES ASSUME NEW l \in Keys, l # e, g[l] # None, Equal(l, e)
                 PROVE  FALSE
      OBVIOUS
    <3>1. f[l] # None /\ Equal(l, s)
      BY <1>1, EqualLemma
    <3>2. f[e] # None
      BY <3>1
    <3> QED
      BY <3>1, <3>2 DEF Good, Unique
  <2>2. j # e /\ k # e
    BY <2>1, EqualLemma
  <2> QED
    BY <2>2, <1>1 DEF Good, Unique
<1>4. MarksFound(g, d)
  <2> SUFFICES ASSUME NEW t \in d
               PROVE  \E k \in Keys : g[k] # None /\ Equal(k, t)
    BY DEF MarksFound
  <2>1. CASE t = s
    BY <2>1, <1>1
  <2>2. CASE t \in c
    <3>1. PICK k \in Keys : f[k] # None /\ Equal(k, t)
      BY <2>2 DEF Good, MarksFound
    <3> QED
      BY <3>1, <1>1
  <2> QED
    BY <2>1, <2>2, <1>2
<1>5. MarksUnique(d)
  BY EqualLemma DEF Marks, Good, MarksUnique
<1>6. Marked(g, d, b)
  <2> SUFFICES ASSUME NEW k \in Keys, g[k] # None
               PROVE  b[Name(k)] = g[k] \/ \E t \in d : Equal(t, k)
    BY DEF Marked
  <2>1. CASE k = e
    <3>1. PICK t \in d : Equal(t, s)
      BY <1>2
    <3> QED
      BY <2>1, <3>1, <1>2, EqualLemma
  <2>2. CASE k # e
    BY <2>2, <1>1, <1>2 DEF Good, Marked
  <2> QED
    BY <2>1, <2>2
<1>7. Kept(g, h)
  BY <1>1 DEF Good, Kept
<1> QED
  BY <1>3, <1>4, <1>5, <1>6, <1>7 DEF Good

\* The entry of s, its marks and what was checked of it are taken away.
LEMMA EraseLemma ==
  ASSUME NEW f \in Entries, NEW c \in SUBSET Keys, NEW b, NEW h \in SUBSET Keys,
         Good(f, c, b, h),
         NEW s \in Keys, NEW e \in Keys, Equal(e, s), f[e] # None
  PROVE  Good([f EXCEPT ![e] = None], {k \in c : ~Equal(k, s)}, b, {k \in h : ~Equal(k, s)})
<1> DEFINE g == [f EXCEPT ![e] = None]
           d == {k \in c : ~Equal(k, s)}
<1>1. g \in Entries /\ g[e] = None /\ \A k \in Keys : k # e => g[k] = f[k]
  BY DEF Entries
<1>2. \A k \in Keys : g[k] # None => f[k] # None /\ k # e
  BY <1>1
<1>3. Unique(g) /\ MarksUnique(d)
  BY <1>1, <1>2 DEF Good, Unique, MarksUnique
<1>4. MarksFound(g, d)
  <2> SUFFICES ASSUME NEW t \in d
               PROVE  \E k \in Keys : g[k] # None /\ Equal(k, t)
    BY DEF MarksFound
  <2>1. PICK k \in Keys : f[k] # None /\ Equal(k, t)
    BY DEF Good, MarksFound
  <2>2. k # e
    BY <2>1, EqualLemma
  <2> QED
    BY <2>1, <2>2, <1>1
<1>5. Marked(g, d, b)
  <2> SUFFICES ASSUME NEW k \in Keys, g[k] # None, b[Name(k)] # g[k]
               PROVE  \E t \in d : Equal(t, k)
    BY DEF Marked
  <2>1. f[k] = g[k] /\ f[k] # None /\ k # e
    BY <1>1
  <2>2. PICK t \in c : Equal(t, k)
    BY <2>1 DEF Good, Marked
  <2>3. ~Equal(t, s)
    <3> SUFFICES ASSUME Equal(t, s) PROVE FALSE
      OBVIOUS
    <3>1. Equal(k, e)
      BY <2>2, EqualLemma
    <3> QED
      BY <2>1, <3>1 DEF Good, Unique
  <2> QED
    BY <2>2, <2>3
<1>6. Kept(g, {k \in h : ~Equal(k, s)})
  BY <1>1 DEF Good, Kept
<1> QED
  BY <1>3, <1>4, <1>5, <1>6 DEF Good

\* The values of the identifiers, when no two entries are of the same one.
LEMMA ValuesLemma ==
  ASSUME NEW f \in Entries, Unique(f)
  PROVE  /\ ValuesOf(f) \in Baselines
         /\ \A k \in Keys : f[k] # None => ValuesOf(f)[Name(k)] = f[k]
<1> DEFINE stored(name) == {k \in Keys : Name(k) = name /\ f[k] # None}
           value(name) == IF stored(name) = {} THEN None ELSE f[CHOOSE k \in stored(name) : TRUE]
<1>1. ValuesOf(f) = [name \in Nodes \X VariableIds |-> value(name)]
  BY DEF ValuesOf
<1>2. \A name \in Nodes \X VariableIds : value(name) \in Values \cup {None}
  <2> SUFFICES ASSUME NEW name \in Nodes \X VariableIds, stored(name) # {}
               PROVE  f[CHOOSE k \in stored(name) : TRUE] \in Values \cup {None}
    OBVIOUS
  <2>1. (CHOOSE k \in stored(name) : TRUE) \in stored(name)
    OBVIOUS
  <2> QED
    BY <2>1 DEF Entries
<1>3. ASSUME NEW k \in Keys, f[k] # None
      PROVE  value(Name(k)) = f[k]
  <2>1. k \in stored(Name(k))
    BY <1>3
  <2>2. \A j \in stored(Name(k)) : j = k
    BY <1>3, EqualLemma DEF Unique
  <2>3. (CHOOSE j \in stored(Name(k)) : TRUE) = k
    BY <2>1, <2>2
  <2> QED
    BY <2>1, <2>3
<1> QED
  BY <1>1, <1>2, <1>3, NameLemma DEF Baselines

---------------------------------------------------------------------------
(* Steps *)

\* An operation on one map.
LEMMA OneMapLemma ==
  ASSUME MapIndInv, NEW m \in Maps,
         NEW f \in Entries, NEW c \in SUBSET Keys, NEW b \in Baselines, NEW h \in SUBSET Keys,
         Good(f, c, b, h),
         map' = [map EXCEPT ![m] = f], changed' = [changed EXCEPT ![m] = c],
         baseline' = [baseline EXCEPT ![m] = b], checked' = [checked EXCEPT ![m] = h],
         broken' \in BOOLEAN
  PROVE  MapIndInv'
<1>1. MapTypeOK'
  BY DEF MapIndInv, MapTypeOK, Entries, Baselines
<1>2. ASSUME NEW n \in Maps
      PROVE  Good(map'[n], changed'[n], baseline'[n], checked'[n])
  BY <1>2 DEF MapIndInv, MapTypeOK
<1> QED
  BY <1>1, <1>2 DEF MapIndInv

\* What is left alone.
LEMMA SameLemma ==
  ASSUME MapIndInv, NEW m \in Maps
  PROVE  /\ map = [map EXCEPT ![m] = map[m]] /\ map[m] \in Entries
         /\ changed = [changed EXCEPT ![m] = changed[m]] /\ changed[m] \in SUBSET Keys
         /\ baseline = [baseline EXCEPT ![m] = baseline[m]] /\ baseline[m] \in Baselines
         /\ checked = [checked EXCEPT ![m] = checked[m]] /\ checked[m] \in SUBSET Keys
         /\ broken \in BOOLEAN
         /\ Good(map[m], changed[m], baseline[m], checked[m])
BY DEF MapIndInv, MapTypeOK, Entries, Baselines

LEMMA MarkLemma ==
  ASSUME MapIndInv, NEW m \in Maps, NEW s \in Keys, Mark(m, s)
  PROVE  /\ changed' = [changed EXCEPT ![m] = Marks(changed[m], s)]
         /\ Marks(changed[m], s) \in SUBSET Keys
BY SameLemma DEF Mark, Marks, MapIndInv, MapTypeOK

\* A value is assigned to the entry of s.
LEMMA AssignStep ==
  ASSUME MapIndInv, NEW m \in Maps, NEW s \in Keys, NEW v \in Values,
         Put(m, Entry(m, s), v), Mark(m, s), UNCHANGED <<baseline, checked, broken>>
  PROVE  MapIndInv'
<1> DEFINE f == [map[m] EXCEPT ![Entry(m, s)] = v]
           c == Marks(changed[m], s)
<1>1. Entry(m, s) \in Keys /\ Equal(Entry(m, s), s)
  BY EntryLemma
<1>2. (\E k \in Keys : map[m][k] # None /\ Equal(k, s)) => map[m][Entry(m, s)] # None
  BY EntryLemma DEF EntriesOf, Stored
<1>3. Good(f, c, baseline[m], checked[m])
  BY <1>1, <1>2, PutLemma, SameLemma
<1>4. f \in Entries
  BY SameLemma, <1>1 DEF Entries
<1>5. map' = [map EXCEPT ![m] = f]
  BY DEF Put, MapIndInv, MapTypeOK
<1>6. changed' = [changed EXCEPT ![m] = c] /\ c \in SUBSET Keys
  BY MarkLemma
<1>7. /\ baseline' = [baseline EXCEPT ![m] = baseline[m]] /\ baseline[m] \in Baselines
      /\ checked' = [checked EXCEPT ![m] = checked[m]] /\ checked[m] \in SUBSET Keys
      /\ broken' \in BOOLEAN
  BY SameLemma
<1> HIDE DEF f, c
<1> QED
  BY <1>3, <1>4, <1>5, <1>6, <1>7, OneMapLemma

\* An entry that is there is only marked.
LEMMA MarkStep ==
  ASSUME MapIndInv, NEW m \in Maps, NEW s \in Keys, EntriesOf(m, s) # {},
         Mark(m, s), UNCHANGED <<map, baseline, checked, broken>>
  PROVE  MapIndInv'
<1> DEFINE c == Marks(changed[m], s)
<1>1. Good(map[m], changed[m], baseline[m], checked[m])
  BY SameLemma
<1>2. changed[m] \subseteq c /\ c \subseteq changed[m] \cup {s} /\ c \subseteq Keys
  BY SameLemma DEF Marks
<1>3. MarksFound(map[m], c)
  BY <1>1, <1>2 DEF Good, MarksFound, EntriesOf, Stored
<1>4. MarksUnique(c)
  BY <1>1, <1>2, EqualLemma, SameLemma DEF Good, MarksUnique, Marks
<1>5. Good(map[m], c, baseline[m], checked[m])
  BY <1>1, <1>2, <1>3, <1>4 DEF Good, Marked
<1> QED
  BY <1>2, <1>5, OneMapLemma, SameLemma, MarkLemma

LEMMA AddStep ==
  ASSUME MapIndInv, NEW m \in Maps, NEW s \in Keys, NEW v \in Values, Add(m, s, v)
  PROVE  MapIndInv'
<1>1. CASE EntriesOf(m, s) = {}
  BY <1>1, AssignStep DEF Add, Entry
<1>2. CASE EntriesOf(m, s) # {}
  BY <1>2, MarkStep DEF Add
<1> QED
  BY <1>1, <1>2

LEMMA EraseStep ==
  ASSUME MapIndInv, NEW m \in Maps, NEW s \in Keys, Erase(m, s)
  PROVE  MapIndInv'
<1> DEFINE f == [map[m] EXCEPT ![Entry(m, s)] = None]
           c == {k \in changed[m] : ~Equal(k, s)}
           h == {k \in checked[m] : ~Equal(k, s)}
<1>1. Entry(m, s) \in Keys /\ Equal(Entry(m, s), s) /\ map[m][Entry(m, s)] # None
  BY EntryLemma DEF Erase, EntriesOf, Stored
<1>2. Good(f, c, baseline[m], h)
  BY <1>1, EraseLemma, SameLemma
<1>3. f \in Entries /\ c \in SUBSET Keys /\ h \in SUBSET Keys
  BY SameLemma, <1>1 DEF Entries
<1>4. /\ map' = [map EXCEPT ![m] = f]
      /\ changed' = [changed EXCEPT ![m] = c] /\ checked' = [checked EXCEPT ![m] = h]
      /\ UNCHANGED <<baseline, broken>>
  BY DEF Erase, Put, MapIndInv, MapTypeOK
<1> QED
  BY <1>2, <1>3, <1>4, OneMapLemma, SameLemma

\* has() said yes: the object itself is in the table.
LEMMA CheckStep ==
  ASSUME MapIndInv, NEW m \in Maps, NEW s \in Keys, Check(m, s)
  PROVE  MapIndInv'
<1> DEFINE h == checked[m] \cup {s}
<1>1. map[m][s] # None
  BY SameKey DEF Check, Has, Stored
<1>2. Good(map[m], changed[m], baseline[m], h)
  BY <1>1, SameLemma DEF Good, Kept
<1>3. checked' = [checked EXCEPT ![m] = h] /\ UNCHANGED <<map, changed, baseline, broken>>
  BY DEF Check, MapIndInv, MapTypeOK
<1>4. /\ map' = [map EXCEPT ![m] = map[m]] /\ map[m] \in Entries
      /\ changed' = [changed EXCEPT ![m] = changed[m]] /\ changed[m] \in SUBSET Keys
      /\ baseline' = [baseline EXCEPT ![m] = baseline[m]] /\ baseline[m] \in Baselines
      /\ broken' \in BOOLEAN
  BY <1>3, SameLemma
<1>5. h \in SUBSET Keys
  BY SameLemma
<1> HIDE DEF h
<1> QED
  BY <1>2, <1>3, <1>4, <1>5, OneMapLemma

LEMMA ResetStep ==
  ASSUME MapIndInv, NEW m \in Maps, ResetChangeFlags(m)
  PROVE  MapIndInv'
<1> DEFINE b == ValuesOf(map[m])
<1>1. b \in Baselines /\ \A k \in Keys : map[m][k] # None => b[Name(k)] = map[m][k]
  BY ValuesLemma, SameLemma DEF Good
<1>2. Good(map[m], {}, b, checked[m])
  BY <1>1, SameLemma DEF Good, MarksFound, MarksUnique, Marked
<1> DEFINE none == {}
<1>3. /\ changed' = [changed EXCEPT ![m] = none] /\ none \in SUBSET Keys
      /\ baseline' = [baseline EXCEPT ![m] = b]
      /\ UNCHANGED <<map, checked, broken>>
  BY DEF ResetChangeFlags
<1>4. Good(map[m], none, b, checked[m])
  BY <1>2
<1> HIDE DEF b, none
<1>5. /\ map' = [map EXCEPT ![m] = map[m]] /\ map[m] \in Entries
      /\ checked' = [checked EXCEPT ![m] = checked[m]] /\ checked[m] \in SUBSET Keys
      /\ broken' \in BOOLEAN
  BY <1>3, SameLemma
<1> QED
  BY <1>1, <1>3, <1>4, <1>5, OneMapLemma

LEMMA ConstructStep ==
  ASSUME MapIndInv, NEW m \in Maps, NEW s \in Keys, NEW v \in Values, Construct(m, s, v)
  PROVE  MapIndInv'
<1> DEFINE f == [Empty EXCEPT ![s] = v]
           b == ValuesOf(f)
<1>1. f \in Entries /\ \A k \in Keys : f[k] # None => k = s
  BY DEF Empty, Entries
<1>2. Unique(f)
  BY <1>1 DEF Unique
<1>3. b \in Baselines /\ \A k \in Keys : f[k] # None => b[Name(k)] = f[k]
  BY ValuesLemma, <1>1, <1>2
<1>4. Good(f, {}, b, {})
  BY <1>2, <1>3 DEF Good, MarksFound, MarksUnique, Marked, Kept
<1>5. map' = [map EXCEPT ![m] = f] /\ map'[m] = f
  BY DEF Construct, MapIndInv, MapTypeOK
<1>6. changed' = [changed EXCEPT ![m] = {}] /\ checked' = [checked EXCEPT ![m] = {}]
  BY DEF Construct
<1>7. baseline' = [baseline EXCEPT ![m] = b] /\ broken' \in BOOLEAN
  BY <1>5, SameLemma DEF Construct
<1>8. {} \in SUBSET Keys
  OBVIOUS
<1> HIDE DEF f, b
<1> QED
  BY <1>1, <1>3, <1>4, <1>5, <1>6, <1>7, <1>8, OneMapLemma

LEMMA CopyStep ==
  ASSUME MapIndInv, NEW m \in Maps, NEW n \in Maps, Copy(m, n)
  PROVE  MapIndInv'
<1>1. Good(map[n], changed[n], baseline[n], {})
  BY SameLemma DEF Good, Kept
<1>2. /\ map' = [map EXCEPT ![m] = map[n]] /\ changed' = [changed EXCEPT ![m] = changed[n]]
      /\ baseline' = [baseline EXCEPT ![m] = baseline[n]]
      /\ checked' = [checked EXCEPT ![m] = {}] /\ broken' \in BOOLEAN
  BY SameLemma DEF Copy
<1>3. /\ map[n] \in Entries /\ changed[n] \in SUBSET Keys
      /\ baseline[n] \in Baselines /\ {} \in SUBSET Keys
  BY SameLemma
<1> QED
  BY <1>1, <1>2, <1>3, OneMapLemma

\* An empty map.
LEMMA EmptyLemma == /\ Good(Empty, {}, NoValues, {})
                    /\ Empty \in Entries /\ NoValues \in Baselines
BY DEF Good, Unique, MarksFound, MarksUnique, Marked, Kept, Empty, NoValues, Entries, Baselines

LEMMA MoveStep ==
  ASSUME MapIndInv, NEW m \in Maps, NEW n \in Maps, Move(m, n)
  PROVE  MapIndInv'
<1>1. MapTypeOK'
  BY EmptyLemma DEF Move, MapIndInv, MapTypeOK, Entries, Baselines
<1>2. Good(map[n], changed[n], baseline[n], {})
  BY SameLemma DEF Good, Kept
<1>3. ASSUME NEW l \in Maps
      PROVE  Good(map'[l], changed'[l], baseline'[l], checked'[l])
  <2>1. CASE l = n
    BY <2>1, EmptyLemma DEF Move, MapIndInv, MapTypeOK
  <2>2. CASE l = m /\ l # n
    BY <2>2, <1>2 DEF Move, MapIndInv, MapTypeOK
  <2>3. CASE l # m /\ l # n
    BY <2>3, SameLemma DEF Move, MapIndInv, MapTypeOK
  <2> QED
    BY <2>1, <2>2, <2>3
<1> QED
  BY <1>1, <1>3 DEF MapIndInv

LEMMA MapInvariance == MapIndInv /\ [MapNext]_mapVars => MapIndInv'
<1> SUFFICES ASSUME MapIndInv, [MapNext]_mapVars PROVE MapIndInv'
  OBVIOUS
<1>1. CASE MapNext
  <2> SUFFICES ASSUME NEW m \in Maps,
                 \/ \E s \in Keys : Erase(m, s) \/ UseAbsent(m, s) \/ Check(m, s)
                 \/ \E s \in Keys, v \in Values : \/ Add(m, s, v) \/ InsertOrAssign(m, s, v)
                                                 \/ Update(m, s, v) \/ Construct(m, s, v)
                 \/ ResetChangeFlags(m)
                 \/ \E n \in Maps : Copy(m, n) \/ Move(m, n)
               PROVE  MapIndInv'
    BY <1>1 DEF MapNext
  <2>1. ASSUME NEW s \in Keys, Erase(m, s) PROVE MapIndInv'
    BY <2>1, EraseStep
  <2>2. ASSUME NEW s \in Keys, UseAbsent(m, s) PROVE MapIndInv'
    BY <2>2 DEF UseAbsent, MapIndInv, MapTypeOK
  <2>3. ASSUME NEW s \in Keys, Check(m, s) PROVE MapIndInv'
    BY <2>3, CheckStep
  <2>4. ASSUME NEW s \in Keys, NEW v \in Values, Add(m, s, v) PROVE MapIndInv'
    BY <2>4, AddStep
  <2>5. ASSUME NEW s \in Keys, NEW v \in Values, InsertOrAssign(m, s, v) PROVE MapIndInv'
    BY <2>5, AssignStep DEF InsertOrAssign
  <2>6. ASSUME NEW s \in Keys, NEW v \in Values, Update(m, s, v) PROVE MapIndInv'
    BY <2>6, AssignStep DEF Update
  <2>7. ASSUME NEW s \in Keys, NEW v \in Values, Construct(m, s, v) PROVE MapIndInv'
    BY <2>7, ConstructStep
  <2>8. CASE ResetChangeFlags(m)
    BY <2>8, ResetStep
  <2>9. ASSUME NEW n \in Maps, Copy(m, n) PROVE MapIndInv'
    BY <2>9, CopyStep
  <2>10. ASSUME NEW n \in Maps, Move(m, n) PROVE MapIndInv'
    BY <2>10, MoveStep
  <2> QED
    BY <2>1, <2>2, <2>3, <2>4, <2>5, <2>6, <2>7, <2>8, <2>9, <2>10
<1>2. CASE UNCHANGED mapVars
  BY <1>2 DEF mapVars, MapIndInv, MapTypeOK
<1> QED
  BY <1>1, <1>2

LEMMA MapInitLemma == MapInit => MapIndInv
BY EmptyLemma DEF MapInit, MapIndInv, MapTypeOK, Entries, Baselines

LEMMA MapInductive == MapSpec => []MapIndInv
BY MapInitLemma, MapInvariance, PTL DEF MapSpec

---------------------------------------------------------------------------
\* Whatever is done with any number of maps, through any Scopes: each marked
\* identifier has an entry, so changedEntries() can be walked with get(), and no
\* identifier is marked twice (VariableMap::changed).
THEOREM MarksAreEntries == MapSpec => []ChangedHaveEntries
<1>1. MapIndInv => ChangedHaveEntries
  BY DEF MapIndInv, Good, MarksFound, MarksUnique, ChangedHaveEntries, EntriesOf, Stored, MapTypeOK
<1> QED
  BY <1>1, MapInductive, PTL

\* Every identifier whose value is not the one it had at resetChangeFlags() is marked.
THEOREM NoChangeIsMissed == MapSpec => []ChangesAreMarked
<1>1. MapIndInv => ChangesAreMarked
  BY DEF MapIndInv, Good, Marked, ChangesAreMarked, Stored
<1> QED
  BY <1>1, MapInductive, PTL

\* After has() said yes, get() of the same object finds its entry until an equal one
\* is erased or the map is assigned to.
THEOREM CheckedIsFound == MapSpec => []CheckedStaysValid
<1>1. ASSUME MapIndInv, NEW m \in Maps, NEW s \in checked[m]
      PROVE  Has(m, s) /\ EntriesOf(m, s) = {s}
  <2>1. s \in Keys /\ map[m][s] # None /\ Unique(map[m])
    BY <1>1 DEF MapIndInv, Good, Kept, MapTypeOK
  <2> QED
    BY <2>1, EqualLemma DEF Has, EntriesOf, Stored, Unique
<1>2. MapIndInv => CheckedStaysValid
  BY <1>1 DEF CheckedStaysValid
<1> QED
  BY <1>2, MapInductive, PTL
=============================================================================
